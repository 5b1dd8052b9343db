--------------------------- MODULE MarkerProofs ---------------------------
(***************************************************************************)
(* For every run length, every alphabet and every input, noise included:   *)
(* the marker decoder of MarkerDecoder.tla never queues a token sequence   *)
(* in which a momentary state lingers or a transition repeats a state.     *)
(* A walk is regular when BEGIN and END are followed, and INSIDE and       *)
(* OUTSIDE preceded, by the states d_marker queues them with; that is kept *)
(* by queueing bits or a marker's transitions and by taking from the front.*)
(* The same for the frame decoder pipe over this decoder, from which the   *)
(* reader gets what FrameReader promises; and for the soft decoder, which  *)
(* follows the hard one step for step.                                     *)
(***************************************************************************)
EXTENDS MarkerDecoder, MarkerPipe, SoftMarker, SequenceTheorems, WellFoundedInduction, TLAPS

-----------------------------------------------------------------------------
(* Regular walks.                                                          *)

Regular(w) ==
  \A i \in 1..Len(w) :
    /\ w[i] = "BEGIN" => i < Len(w) /\ w[i + 1] = "INSIDE"
    /\ w[i] = "END"   => i < Len(w) /\ w[i + 1] \in {"OUTSIDE", "BEGIN"}
    /\ w[i] = "INSIDE"  /\ i > 1 => w[i - 1] = "BEGIN"
    /\ w[i] = "OUTSIDE" /\ i > 1 => w[i - 1] = "END"

\* A bit is no frame state.
LEMMA BitNoState ==
  ASSUME NEW b \in Bit
  PROVE  b \notin FState
  BY FormatAssumption DEF Bit, FState

LEMMA ShortSeq ==
  ASSUME NEW T, NEW a \in T, NEW b \in T, NEW c \in T
  PROVE  <<a, b>> \in Seq(T) /\ <<a, b, c>> \in Seq(T)
  OBVIOUS

\* Bits queued at the end.
LEMMA BitsKeepRegular ==
  ASSUME NEW w \in Seq(Token), Regular(w), NEW s \in Seq(Bit)
  PROVE  w \o s \in Seq(Token) /\ Regular(w \o s)
<1> DEFINE z == w \o s
<1>1. s \in Seq(Token)
  BY DEF Token
<1>2. /\ z \in Seq(Token) /\ Len(z) = Len(w) + Len(s)
      /\ \A i \in 1..(Len(w) + Len(s)) :
           z[i] = IF i <= Len(w) THEN w[i] ELSE s[i - Len(w)]
  BY <1>1, ConcatProperties
<1> HIDE DEF z
<1>3. Len(w) \in Nat /\ Len(s) \in Nat
  OBVIOUS
<1>4. \A i \in 1..Len(w) : z[i] = w[i]
  BY <1>2, <1>3
<1>5. \A i \in (Len(w) + 1)..Len(z) : z[i] \notin FState
  <2> SUFFICES ASSUME NEW i \in (Len(w) + 1)..Len(z) PROVE z[i] \notin FState
    OBVIOUS
  <2>1. i - Len(w) \in 1..Len(s) /\ z[i] = s[i - Len(w)]
    BY <1>2, <1>3
  <2>2. s[i - Len(w)] \in Bit
    BY <2>1
  <2> QED BY <2>1, <2>2, BitNoState
<1>6. Regular(z)
  <2> SUFFICES ASSUME NEW i \in 1..Len(z)
               PROVE  /\ z[i] = "BEGIN" => i < Len(z) /\ z[i + 1] = "INSIDE"
                      /\ z[i] = "END" => i < Len(z) /\ z[i + 1] \in {"OUTSIDE", "BEGIN"}
                      /\ z[i] = "INSIDE"  /\ i > 1 => z[i - 1] = "BEGIN"
                      /\ z[i] = "OUTSIDE" /\ i > 1 => z[i - 1] = "END"
    BY DEF Regular
  <2>1. CASE i \in 1..Len(w)
    BY <1>2, <1>3, <1>4, <2>1, SMTT(40) DEF Regular
  <2>2. CASE i \notin 1..Len(w)
    <3>1. i \in (Len(w) + 1)..Len(z)
      BY <1>2, <1>3, <2>2
    <3> QED BY <1>5, <3>1 DEF FState
  <2> QED BY <2>1, <2>2
<1> QED BY <1>2, <1>6 DEF z

LEMMA TransitionsAreTokens ==
  ASSUME NEW c \in 1..3
  PROVE  Transitions(c) \in Seq(Token)
<1>1. "BEGIN" \in Token /\ "INSIDE" \in Token /\ "END" \in Token /\ "OUTSIDE" \in Token
  BY DEF Token, FState
<1>2. /\ <<"BEGIN", "INSIDE">> \in Seq(Token)
      /\ <<"END", "OUTSIDE">> \in Seq(Token)
      /\ <<"END", "BEGIN", "INSIDE">> \in Seq(Token)
  BY <1>1, ShortSeq
<1> QED BY <1>2 DEF Transitions

\* The transitions of a marker queued at the end.
LEMMA MarkerKeepsRegular ==
  ASSUME NEW w \in Seq(Token), Regular(w), NEW c \in 1..3
  PROVE  w \o Transitions(c) \in Seq(Token) /\ Regular(w \o Transitions(c))
<1> DEFINE s == Transitions(c)
           z == w \o s
<1>1. \/ s = <<"BEGIN", "INSIDE">>
      \/ s = <<"END", "OUTSIDE">>
      \/ s = <<"END", "BEGIN", "INSIDE">>
  BY DEF Transitions
<1>2. s \in Seq(Token)
  BY TransitionsAreTokens
<1> HIDE DEF s
<1>3. /\ z \in Seq(Token) /\ Len(z) = Len(w) + Len(s)
      /\ \A i \in 1..(Len(w) + Len(s)) :
           z[i] = IF i <= Len(w) THEN w[i] ELSE s[i - Len(w)]
  BY <1>2, ConcatProperties
<1> HIDE DEF z
<1>4. Len(w) \in Nat
  OBVIOUS
<1>5. \A i \in 1..Len(w) : z[i] = w[i]
  BY <1>2, <1>3, <1>4
<1>6. Regular(z)
  <2>1. CASE s = <<"BEGIN", "INSIDE">>
    <3>1. Len(z) = Len(w) + 2 /\ z[Len(w) + 1] = "BEGIN" /\ z[Len(w) + 2] = "INSIDE"
      BY <1>3, <1>4, <2>1
    <3> QED BY <1>4, <1>5, <3>1 DEF Regular
  <2>2. CASE s = <<"END", "OUTSIDE">>
    <3>1. Len(z) = Len(w) + 2 /\ z[Len(w) + 1] = "END" /\ z[Len(w) + 2] = "OUTSIDE"
      BY <1>3, <1>4, <2>2
    <3> QED BY <1>4, <1>5, <3>1, SMTT(40) DEF Regular
  <2>3. CASE s = <<"END", "BEGIN", "INSIDE">>
    <3>1. /\ Len(z) = Len(w) + 3 /\ z[Len(w) + 1] = "END"
          /\ z[Len(w) + 2] = "BEGIN" /\ z[Len(w) + 3] = "INSIDE"
      BY <1>3, <1>4, <2>3, SMTT(40)
    <3> QED BY <1>4, <1>5, <3>1, SMTT(40) DEF Regular
  <2> QED BY <1>1, <2>1, <2>2, <2>3
<1> QED BY <1>3, <1>6 DEF z, s

\* What regularity is for.
LEMMA RegularMoves ==
  ASSUME NEW w \in Seq(Token), Regular(w),
         NEW i \in 1..Len(w), NEW j \in 1..Len(w), i < j,
         w[i] \in FState, w[j] \in FState,
         \A k \in (i + 1)..(j - 1) : w[k] \notin FState
  PROVE  w[i] # w[j]
<1> SUFFICES ASSUME w[i] = w[j] PROVE FALSE
  OBVIOUS
<1>1. CASE w[i] \in {"BEGIN", "END"}
  <2>1. w[i + 1] \in FState /\ w[i + 1] # w[i]
    BY <1>1 DEF Regular, FState
  <2>2. i + 1 = j
    BY <2>1
  <2> QED BY <2>1, <2>2
<1>2. CASE w[i] \in {"INSIDE", "OUTSIDE"}
  <2>1. w[j - 1] \in FState /\ w[j - 1] # w[j]
    BY <1>2 DEF Regular, FState
  <2>2. j - 1 = i
    BY <2>1
  <2> QED BY <2>1, <2>2
<1> QED BY <1>1, <1>2 DEF FState

-----------------------------------------------------------------------------
(* Walks of decoder states.                                                *)

WalkOf(d) == <<d.fstate>> \o d.out

\* The inductive invariant, of one decoder record.
Steady(d) ==
  /\ d \in DecoderState
  /\ d.bm = "CODE2" => d.code = 0
  /\ d.bm = "CODE3" => d.code \in 0..1
  /\ Regular(WalkOf(d))

\* The walk of a decoder record, item by item.
LEMMA WalkItems ==
  ASSUME NEW f \in FState, NEW q \in Seq(Token)
  PROVE  /\ <<f>> \o q \in Seq(Token) /\ Len(<<f>> \o q) = Len(q) + 1
         /\ (<<f>> \o q)[1] = f
         /\ \A i \in 1..Len(q) : (<<f>> \o q)[i + 1] = q[i]
<1>1. <<f>> \in Seq(Token) /\ Len(<<f>>) = 1 /\ <<f>>[1] = f
  BY DEF Token
<1> DEFINE s == <<f>>
<1> HIDE DEF s
<1>2. s \in Seq(Token) /\ Len(s) = 1 /\ s[1] = f
  BY <1>1 DEF s
<1>3. /\ s \o q \in Seq(Token) /\ Len(s \o q) = Len(s) + Len(q)
      /\ \A i \in 1..(Len(s) + Len(q)) :
           (s \o q)[i] = IF i <= Len(s) THEN s[i] ELSE q[i - Len(s)]
  BY <1>2, ConcatProperties
<1>4. Len(q) \in Nat
  OBVIOUS
<1> QED BY <1>2, <1>3, <1>4 DEF s

\* Queueing extends the walk.
LEMMA QueuedWalk ==
  ASSUME NEW f \in FState, NEW q \in Seq(Token), NEW s \in Seq(Token)
  PROVE  <<f>> \o (q \o s) = (<<f>> \o q) \o s
<1>1. <<f>> \in Seq(Token)
  BY DEF Token
<1> QED BY <1>1, ConcatAssociative

\* What is left of a queue without its first k items.
LEMMA SuffixItems ==
  ASSUME NEW q \in Seq(Token), NEW k \in 0..Len(q)
  PROVE  LET u == SubSeq(q, k + 1, Len(q))
         IN  /\ u \in Seq(Token) /\ Len(u) = Len(q) - k
             /\ \A i \in 1..(Len(q) - k) : u[i] = q[k + i]
<1> DEFINE n == Len(q)
           u == SubSeq(q, k + 1, n)
<1>1. n \in Nat /\ k \in 0..n /\ \A i \in (k + 1)..n : q[i] \in Token
  OBVIOUS
<1>2. /\ k + 1 \in Int /\ n \in Int
      /\ n - (k + 1) + 1 = n - k
      /\ k + 1 <= n \/ n - k = 0
  BY <1>1
<1>3. \A i \in 1..(n - k) : (k + 1) + i - 1 = k + i
  BY <1>1
<1>4. /\ u \in Seq(Token)
      /\ Len(u) = IF k + 1 <= n THEN n - (k + 1) + 1 ELSE 0
      /\ \A i \in 1..(n - (k + 1) + 1) : u[i] = q[(k + 1) + i - 1]
  <2>1. \A i \in (k + 1)..n : i \in 1..n
    BY <1>1
  <2> HIDE DEF n
  <2>2. q \in Seq(Token) /\ k + 1 \in Int /\ n \in Int
        /\ \A i \in (k + 1)..n : q[i] \in Token
    BY <1>1, <1>2
  <2> QED BY <2>2, SubSeqProperties
<1> HIDE DEF u
<1> QED BY <1>2, <1>3, <1>4 DEF u, n

\* A regular queue behind a state that needs nothing of it.
LEMMA DropFromWalk ==
  ASSUME NEW f \in FState, NEW q \in Seq(Token), Regular(<<f>> \o q),
         NEW k \in 0..Len(q), \A i \in 1..k : q[i] \notin FState
  PROVE  /\ Regular(<<f>> \o SubSeq(q, k + 1, Len(q)))
         /\ k < Len(q) /\ q[k + 1] \in FState =>
              Regular(<<q[k + 1]>> \o SubSeq(q, k + 2, Len(q)))
<1> DEFINE n == Len(q)
           w == <<f>> \o q
           u == SubSeq(q, k + 1, n)
           x == <<f>> \o u
<1>1. n \in Nat /\ k \in 0..n
  OBVIOUS
<1>2. /\ w \in Seq(Token) /\ Len(w) = n + 1 /\ w[1] = f
      /\ \A i \in 1..n : w[i + 1] = q[i]
  BY WalkItems
<1>3. Regular(w)
  OBVIOUS
<1>4. u \in Seq(Token) /\ Len(u) = n - k /\ \A i \in 1..(n - k) : u[i] = q[k + i]
  BY SuffixItems
<1> HIDE DEF u
<1>5. /\ x \in Seq(Token) /\ Len(x) = n - k + 1 /\ x[1] = f
      /\ \A i \in 1..(n - k) : x[i + 1] = q[k + i]
  BY <1>4, WalkItems
<1> HIDE DEF w, x, n
<1>6. Regular(x)
  <2> SUFFICES ASSUME NEW i \in 1..Len(x)
               PROVE  /\ x[i] = "BEGIN" => i < Len(x) /\ x[i + 1] = "INSIDE"
                      /\ x[i] = "END" => i < Len(x) /\ x[i + 1] \in {"OUTSIDE", "BEGIN"}
                      /\ x[i] = "INSIDE"  /\ i > 1 => x[i - 1] = "BEGIN"
                      /\ x[i] = "OUTSIDE" /\ i > 1 => x[i - 1] = "END"
    BY DEF Regular
  <2>1. CASE k = 0
    <3>1. Len(x) = Len(w) /\ \A j \in 1..Len(w) : x[j] = w[j]
      <4>1. Len(x) = Len(w)
        BY <1>1, <1>2, <1>5, <2>1
      <4>2. ASSUME NEW j \in 1..Len(w) PROVE x[j] = w[j]
        <5>1. CASE j = 1
          BY <1>2, <1>5, <5>1
        <5>2. CASE j # 1
          <6>1. j - 1 \in 1..n /\ (j - 1) + 1 = j /\ k + (j - 1) = j - 1 /\ n - k = n
            BY <1>1, <1>2, <2>1, <5>2
          <6> QED BY <1>2, <1>5, <6>1
        <5> QED BY <5>1, <5>2
      <4> QED BY <4>1, <4>2
    <3> QED BY <1>1, <1>2, <1>3, <3>1 DEF Regular
  <2>2. CASE k > 0
    <3>1. f \notin {"BEGIN", "END"}
      <4>1. q[1] \notin FState /\ w[2] = q[1] /\ w[1] = f /\ 1 \in 1..Len(w)
        BY <1>1, <1>2, <2>2
      <4> QED BY <1>3, <4>1 DEF Regular, FState
    <3>2. CASE i = 1
      BY <1>5, <3>1, <3>2
    <3>3. CASE i > 1
      <4> DEFINE j == k + i
      <4>1. /\ j \in 1..Len(w) /\ j > 1 /\ (j < Len(w) <=> i < Len(x))
            /\ i - 1 \in 1..(n - k) /\ (i - 1) + 1 = i
            /\ k + (i - 1) = j - 1 /\ j - 1 \in 1..n /\ (j - 1) + 1 = j
        <5>1. Len(w) = n + 1 /\ Len(x) = n - k + 1 /\ i \in 1..Len(x)
          BY <1>2, <1>5
        <5>2. /\ n \in Int /\ k \in Int /\ i \in Int /\ 0 < k /\ k <= n /\ 1 < i /\ i <= n - k + 1
          BY <1>1, <2>2, <3>3, <5>1
        <5>3. j \in 1..(n + 1) /\ j > 1 /\ (j < n + 1 <=> i < n - k + 1)
          BY <5>2
        <5>4. i - 1 \in 1..(n - k) /\ (i - 1) + 1 = i
          BY <5>2
        <5>5. k + (i - 1) = j - 1 /\ j - 1 \in 1..n /\ (j - 1) + 1 = j
          BY <5>2
        <5> QED BY <5>1, <5>3, <5>4, <5>5
      <4>2. x[i] = w[j]
        BY <1>2, <1>5, <4>1
      <4>3. i < Len(x) => x[i + 1] = w[j + 1]
        <5> SUFFICES ASSUME i < Len(x) PROVE x[i + 1] = w[j + 1]
          OBVIOUS
        <5>1. i \in 1..(n - k) /\ j \in 1..n
          BY <1>1, <1>5, <2>2
        <5> QED BY <1>2, <1>5, <5>1
      <4>4. CASE i = 2
        <5>1. j - 1 = k + 1 /\ q[k] \notin FState /\ k \in 1..n /\ w[k + 1] = q[k]
          BY <1>1, <1>2, <2>2, <4>4
        <5>2. w[j - 1] \notin FState
          BY <5>1
        <5> HIDE DEF j
        <5>3. w[j] \notin {"INSIDE", "OUTSIDE"}
          BY <1>3, <4>1, <5>2 DEF Regular, FState
        <5> QED BY <1>3, <4>1, <4>2, <4>3, <5>3 DEF Regular
      <4>5. CASE i > 2
        <5>1. x[i - 1] = w[j - 1]
          <6>1. i - 2 \in 1..(n - k) /\ (i - 2) + 1 = i - 1
                /\ k + (i - 2) = j - 2 /\ j - 2 \in 1..n /\ (j - 2) + 1 = j - 1
            BY <1>1, <1>5, <2>2, <4>5
          <6> QED BY <1>2, <1>5, <6>1
        <5> HIDE DEF j
        <5> QED BY <1>3, <4>1, <4>2, <4>3, <5>1 DEF Regular
      <4> QED BY <3>3, <4>4, <4>5
    <3> QED BY <3>2, <3>3
  <2> QED BY <1>1, <2>1, <2>2
<1>7. ASSUME k < n, q[k + 1] \in FState
      PROVE  Regular(<<q[k + 1]>> \o SubSeq(q, k + 2, n))
  <2> DEFINE v == SubSeq(q, k + 2, n)
             y == <<q[k + 1]>> \o v
             m == k + 1
  <2>1. v \in Seq(Token) /\ Len(v) = n - m /\ \A i \in 1..(n - m) : v[i] = q[m + i]
    <3>1. m \in 0..Len(q) /\ m + 1 = k + 2
      BY <1>1, <1>7 DEF n
    <3> HIDE DEF m
    <3>2. /\ SubSeq(q, m + 1, n) \in Seq(Token) /\ Len(SubSeq(q, m + 1, n)) = n - m
          /\ \A i \in 1..(n - m) : SubSeq(q, m + 1, n)[i] = q[m + i]
      BY <3>1, SuffixItems DEF n
    <3> QED BY <3>1, <3>2
  <2> HIDE DEF v
  <2>2. /\ y \in Seq(Token) /\ Len(y) = n - m + 1 /\ y[1] = q[k + 1]
        /\ \A i \in 1..(n - m) : y[i + 1] = q[m + i]
    BY <1>7, <2>1, WalkItems
  <2> HIDE DEF y
  <2>3. Len(y) = n - k
    BY <1>1, <2>2
  <2>4. ASSUME NEW i \in 1..Len(y) PROVE y[i] = w[m + i]
    <3>1. CASE i = 1
      BY <1>1, <1>2, <1>7, <2>2, <3>1
    <3>2. CASE i # 1
      <4>1. i - 1 \in 1..(n - m) /\ (i - 1) + 1 = i /\ m + (i - 1) \in 1..n
            /\ (m + (i - 1)) + 1 = m + i
        BY <1>1, <1>7, <2>3, <3>2
      <4> QED BY <1>2, <2>2, <4>1
    <3> QED BY <3>1, <3>2
  <2>5. /\ m \in Nat /\ Len(w) = m + Len(y) /\ m > 0 /\ Len(y) \in Nat
    BY <1>1, <1>2, <1>7, <2>3
  <2> HIDE DEF m
  <2>6. Regular(y)
    <3> SUFFICES ASSUME NEW i \in 1..Len(y)
                 PROVE  /\ y[i] = "BEGIN" => i < Len(y) /\ y[i + 1] = "INSIDE"
                        /\ y[i] = "END" => i < Len(y) /\ y[i + 1] \in {"OUTSIDE", "BEGIN"}
                        /\ y[i] = "INSIDE"  /\ i > 1 => y[i - 1] = "BEGIN"
                        /\ y[i] = "OUTSIDE" /\ i > 1 => y[i - 1] = "END"
      BY DEF Regular
    <3> DEFINE j == m + i
    <3>1. /\ j \in 1..Len(w) /\ j > 1 /\ (j < Len(w) <=> i < Len(y)) /\ y[i] = w[j]
      BY <2>4, <2>5
    <3>2. i < Len(y) => y[i + 1] = w[j + 1]
      <4>1. i < Len(y) => i + 1 \in 1..Len(y) /\ m + (i + 1) = j + 1
        BY <2>5
      <4> QED BY <2>4, <4>1
    <3>3. i > 1 => y[i - 1] = w[j - 1]
      <4>1. i > 1 => i - 1 \in 1..Len(y) /\ m + (i - 1) = j - 1
        BY <2>5
      <4> QED BY <2>4, <4>1
    <3> HIDE DEF j
    <3> QED BY <1>3, <3>1, <3>2, <3>3 DEF Regular
  <2> QED BY <2>6 DEF y, v
<1> QED BY <1>6, <1>7 DEF x, u, n

-----------------------------------------------------------------------------
(* The decoder's operations.                                               *)

LEMMA OnesAreBits ==
  ASSUME NEW n \in Nat
  PROVE  Ones(n) \in Seq(Bit)
  BY DEF Ones, Bit

\* Bits queued behind a walk.
LEMMA BitsQueued ==
  ASSUME NEW f \in FState, NEW q \in Seq(Token), Regular(<<f>> \o q), NEW s \in Seq(Bit)
  PROVE  q \o s \in Seq(Token) /\ Regular(<<f>> \o (q \o s))
<1>1. s \in Seq(Token)
  BY DEF Token
<1>2. <<f>> \o q \in Seq(Token)
  BY WalkItems
<1>3. Regular((<<f>> \o q) \o s)
  BY <1>2, BitsKeepRegular
<1>4. <<f>> \o (q \o s) = (<<f>> \o q) \o s
  BY <1>1, QueuedWalk
<1>5. q \o s \in Seq(Token)
  BY <1>1
<1> QED BY <1>3, <1>4, <1>5

\* A marker's transitions queued behind a walk.
LEMMA MarkerQueued ==
  ASSUME NEW f \in FState, NEW q \in Seq(Token), Regular(<<f>> \o q), NEW c \in 1..3
  PROVE  q \o Transitions(c) \in Seq(Token) /\ Regular(<<f>> \o (q \o Transitions(c)))
<1> DEFINE s == Transitions(c)
<1>1. s \in Seq(Token)
  BY TransitionsAreTokens
<1>2. <<f>> \o q \in Seq(Token)
  BY WalkItems
<1>3. Regular((<<f>> \o q) \o s)
  BY <1>2, MarkerKeepsRegular
<1> HIDE DEF s
<1>4. <<f>> \o (q \o s) = (<<f>> \o q) \o s
  BY <1>1, QueuedWalk
<1>5. q \o s \in Seq(Token)
  BY <1>1
<1> QED BY <1>3, <1>4, <1>5 DEF s

Modes == {"SCAN", "CODE2", "CODE3", "SUF1", "SUF2"}

\* d's fields, and that they are those of a steady decoder.
Fields(d, t, m, c, u, f, q) ==
  /\ d = [t |-> t, bm |-> m, code |-> c, suf |-> u, fstate |-> f, out |-> q]
  /\ t \in 0..Run /\ m \in Modes /\ c \in 0..3 /\ u \in 0..1
  /\ f \in FState /\ q \in Seq(Token)
  /\ m = "CODE2" => c = 0
  /\ m = "CODE3" => c \in 0..1
  /\ Regular(<<f>> \o q)

LEMMA SteadyFields ==
  ASSUME NEW d, Steady(d)
  PROVE  Fields(d, d.t, d.bm, d.code, d.suf, d.fstate, d.out)
<1>1. d = [t |-> d.t, bm |-> d.bm, code |-> d.code, suf |-> d.suf,
           fstate |-> d.fstate, out |-> d.out]
  BY DEF Steady, DecoderState
<1>2. /\ d.t \in 0..Run /\ d.bm \in Modes /\ d.code \in 0..3 /\ d.suf \in 0..1
      /\ d.fstate \in FState /\ d.out \in Seq(Token)
  BY DEF Steady, DecoderState, Modes
<1>3. /\ d.bm = "CODE2" => d.code = 0
      /\ d.bm = "CODE3" => d.code \in 0..1
      /\ Regular(<<d.fstate>> \o d.out)
  BY DEF Steady, WalkOf
<1> QED BY <1>1, <1>2, <1>3 DEF Fields

LEMMA FieldsSteady ==
  ASSUME NEW d, NEW t, NEW m, NEW c, NEW u, NEW f, NEW q, Fields(d, t, m, c, u, f, q)
  PROVE  Steady(d)
  BY DEF Fields, Steady, DecoderState, WalkOf, Modes

\* An escape's bits.
LEMMA UnescapedAreBits ==
  ASSUME NEW c \in 0..3
  PROVE  Unescaped(c) \in Seq(Bit)
<1> DEFINE r == IF c = 0 THEN <<>> ELSE <<"0", Sym(c \div 2), Sym(c % 2)>>
<1>1. "0" \in Bit /\ Sym(c \div 2) \in Bit /\ Sym(c % 2) \in Bit
  BY DEF Bit, Sym
<1>2. <<"0", Sym(c \div 2), Sym(c % 2)>> \in Seq(Bit)
  BY <1>1, ShortSeq
<1>3. r \in Seq(Bit)
  BY <1>2
<1>4. Ones(Run) \in Seq(Bit)
  BY OnesAreBits, FormatAssumption
<1> HIDE DEF r
<1>5. Ones(Run) \o r \in Seq(Bit)
  BY <1>3, <1>4
<1> QED BY <1>5 DEF Unescaped, r

\* A symbol while scanning.
LEMMA ScanSteady ==
  ASSUME NEW d, NEW t, NEW c, NEW u, NEW f, NEW q,
         Fields(d, t, "SCAN", c, u, f, q), NEW b \in Bit
  PROVE  Steady(Scan(d, b))
<1>1. /\ d = [t |-> t, bm |-> "SCAN", code |-> c, suf |-> u, fstate |-> f, out |-> q]
      /\ t \in 0..Run /\ c \in 0..3 /\ u \in 0..1 /\ f \in FState
      /\ q \in Seq(Token) /\ Regular(<<f>> \o q)
  BY DEF Fields
<1>2. Run \in Nat
  BY FormatAssumption
<1>3. CASE b = "1" /\ t < Run
  <2>1. Fields(Scan(d, b), t + 1, "SCAN", c, u, f, q)
    BY <1>1, <1>2, <1>3 DEF Scan, Fields, Modes
  <2> QED BY <2>1, FieldsSteady
<1>4. CASE b = "1" /\ ~(t < Run)
  <2> DEFINE s == <<"1">>
             r == q \o s
  <2>1. Scan(d, b) = [t |-> t, bm |-> "SCAN", code |-> c, suf |-> u, fstate |-> f, out |-> r]
    BY <1>1, <1>4 DEF Scan, Queued
  <2>2. s \in Seq(Bit)
    BY DEF Bit
  <2> HIDE DEF s
  <2>3. r \in Seq(Token) /\ Regular(<<f>> \o r)
    BY <1>1, <2>2, BitsQueued
  <2> HIDE DEF r
  <2>4. Fields(Scan(d, b), t, "SCAN", c, u, f, r)
    BY <1>1, <2>1, <2>3 DEF Fields, Modes
  <2> QED BY <2>4, FieldsSteady
<1>5. CASE b = "0" /\ t = Run
  <2>1. Scan(d, b) = [t |-> t, bm |-> "CODE2", code |-> 0, suf |-> u, fstate |-> f, out |-> q]
    BY <1>1, <1>5 DEF Scan
  <2>2. Fields(Scan(d, b), t, "CODE2", 0, u, f, q)
    BY <1>1, <2>1 DEF Fields, Modes
  <2> QED BY <2>2, FieldsSteady
<1>6. CASE b # "1" /\ ~(b = "0" /\ t = Run)
  <2> DEFINE s == Ones(t) \o <<b>>
             r == q \o s
  <2>1. Scan(d, b) = [t |-> 0, bm |-> "SCAN", code |-> c, suf |-> u, fstate |-> f, out |-> r]
    BY <1>1, <1>6 DEF Scan, Queued
  <2>2. s \in Seq(Bit)
    BY <1>1, OnesAreBits
  <2> HIDE DEF s
  <2>3. r \in Seq(Token) /\ Regular(<<f>> \o r)
    BY <1>1, <2>2, BitsQueued
  <2> HIDE DEF r
  <2>4. Fields(Scan(d, b), 0, "SCAN", c, u, f, r)
    BY <1>1, <1>2, <2>1, <2>3 DEF Fields, Modes
  <2> QED BY <2>4, FieldsSteady
<1> QED BY <1>3, <1>4, <1>5, <1>6

\* Any received symbol.
LEMMA FedSteady ==
  ASSUME NEW d, Steady(d), NEW b \in Bit
  PROVE  Steady(Fed(d, b))
<1>1. PICK t, m, c, u, f, q : Fields(d, t, m, c, u, f, q)
  BY SteadyFields
<1>2. /\ d = [t |-> t, bm |-> m, code |-> c, suf |-> u, fstate |-> f, out |-> q]
      /\ t \in 0..Run /\ c \in 0..3 /\ u \in 0..1 /\ f \in FState
      /\ q \in Seq(Token) /\ Regular(<<f>> \o q)
      /\ m = "CODE2" => c = 0
      /\ m = "CODE3" => c \in 0..1
      /\ m \in Modes
  BY <1>1 DEF Fields
<1>3. Run \in Nat /\ 0 \in 0..Run
  BY FormatAssumption
<1>4. Digit(b) \in 0..1
  BY DEF Digit
<1> DEFINE k == Digit(b)
           code == c * 2 + k
           suffix == u * 2 + k
<1>5. m = "CODE2" => code \in 0..1
  BY <1>2, <1>4
<1>6. m = "CODE3" => code \in 0..3
  BY <1>2, <1>4
<1>7. suffix \in 0..3
  BY <1>2, <1>4
<1> HIDE DEF code, suffix, k
<1>8. d.code * 2 + Digit(b) = code /\ d.suf * 2 + Digit(b) = suffix /\ k = Digit(b)
  BY <1>2 DEF code, suffix, k
<1>9. CASE m = "SCAN"
  <2>1. Fields(d, t, "SCAN", c, u, f, q)
    BY <1>1, <1>9
  <2>2. Fed(d, b) = Scan(d, b)
    BY <1>2, <1>9 DEF Fed
  <2> QED BY <2>1, <2>2, ScanSteady
<1>10. CASE m = "CODE2"
  <2>1. Fed(d, b) = [t |-> t, bm |-> "CODE3", code |-> code, suf |-> u, fstate |-> f, out |-> q]
    BY <1>2, <1>8, <1>10 DEF Fed
  <2>2. Fields(Fed(d, b), t, "CODE3", code, u, f, q)
    BY <1>2, <1>5, <1>10, <2>1 DEF Fields, Modes
  <2> QED BY <2>2, FieldsSteady
<1>11. CASE m = "CODE3" /\ code = 0
  <2>1. Fed(d, b) = [t |-> t, bm |-> "SUF1", code |-> 0, suf |-> u, fstate |-> f, out |-> q]
    BY <1>2, <1>8, <1>11 DEF Fed
  <2>2. Fields(Fed(d, b), t, "SUF1", 0, u, f, q)
    BY <1>2, <2>1 DEF Fields, Modes
  <2> QED BY <2>2, FieldsSteady
<1>12. CASE m = "CODE3" /\ code # 0
  <2> DEFINE s == Transitions(code)
             r == q \o s
  <2>1. Fed(d, b) = [t |-> 0, bm |-> "SCAN", code |-> code, suf |-> u, fstate |-> f, out |-> r]
    BY <1>2, <1>8, <1>12 DEF Fed, Queued
  <2>2. code \in 1..3
    BY <1>6, <1>12
  <2>3. r \in Seq(Token) /\ Regular(<<f>> \o r)
    BY <1>2, <2>2, MarkerQueued
  <2> HIDE DEF r
  <2>4. Fields(Fed(d, b), 0, "SCAN", code, u, f, r)
    BY <1>2, <1>3, <2>1, <2>2, <2>3 DEF Fields, Modes
  <2> QED BY <2>4, FieldsSteady
<1>13. CASE m = "SUF1"
  <2>1. Fed(d, b) = [t |-> t, bm |-> "SUF2", code |-> c, suf |-> k, fstate |-> f, out |-> q]
    BY <1>2, <1>8, <1>13 DEF Fed
  <2>2. Fields(Fed(d, b), t, "SUF2", c, k, f, q)
    BY <1>2, <1>4, <1>8, <2>1 DEF Fields, Modes
  <2> QED BY <2>2, FieldsSteady
<1>14. CASE m = "SUF2"
  <2> DEFINE s == Unescaped(suffix)
             r == q \o s
  <2>1. Fed(d, b) = [t |-> 0, bm |-> "SCAN", code |-> c, suf |-> u, fstate |-> f, out |-> r]
    BY <1>2, <1>8, <1>14 DEF Fed, Queued
  <2>2. s \in Seq(Bit)
    BY <1>7, UnescapedAreBits
  <2> HIDE DEF s
  <2>3. r \in Seq(Token) /\ Regular(<<f>> \o r)
    BY <1>2, <2>2, BitsQueued
  <2> HIDE DEF r
  <2>4. Fields(Fed(d, b), 0, "SCAN", c, u, f, r)
    BY <1>2, <1>3, <2>1, <2>3 DEF Fields, Modes
  <2> QED BY <2>4, FieldsSteady
<1> QED BY <1>2, <1>9, <1>10, <1>11, <1>12, <1>13, <1>14 DEF Modes

\* A decoder as created.
LEMMA FreshSteady == Steady(FreshDecoder)
<1> DEFINE f == "OUTSIDE"
           q == <<>>
<1>1. f \in FState /\ q \in Seq(Token) /\ 0 \in 0..Run
  BY FormatAssumption DEF FState
<1>2. Regular(<<f>> \o q)
  <2> HIDE DEF f
  <2>1. Len(<<f>> \o q) = 1 /\ (<<f>> \o q)[1] = f
    BY <1>1, WalkItems
  <2> QED BY <2>1 DEF Regular, f
<1>3. Fields(FreshDecoder, 0, "SCAN", 0, 0, f, q)
  BY <1>1, <1>2 DEF Fields, Modes, FreshDecoder
<1> HIDE DEF f, q
<1> QED BY <1>3, FieldsSteady

\* What finalize queues.
LEMMA ClosedSteady ==
  ASSUME NEW d, Steady(d)
  PROVE  Steady(Closed(d))
<1>1. PICK t, m, c, u, f, q : Fields(d, t, m, c, u, f, q)
  BY SteadyFields
<1>2. /\ d = [t |-> t, bm |-> m, code |-> c, suf |-> u, fstate |-> f, out |-> q]
      /\ t \in 0..Run /\ c \in 0..3 /\ u \in 0..1 /\ f \in FState
      /\ q \in Seq(Token) /\ Regular(<<f>> \o q)
  BY <1>1 DEF Fields
<1>3. Run \in Nat /\ 0 \in 0..Run
  BY FormatAssumption
<1> DEFINE e == IF m = "CODE2" THEN <<>> ELSE <<"0">>
           s == IF m = "SCAN" THEN Ones(t) ELSE Ones(Run) \o e
           r == q \o s
<1>4. Closed(d) = [t |-> 0, bm |-> "SCAN", code |-> c, suf |-> u, fstate |-> f, out |-> r]
  <2>1. d.bm = m /\ d.t = t
    BY <1>2
  <2>2. Closed(d) = [Queued(d, s) EXCEPT !.t = 0, !.bm = "SCAN"]
    BY <2>1, Zenon DEF Closed
  <2> HIDE DEF s
  <2> QED BY <1>2, <2>2 DEF Queued
<1>5. e \in Seq(Bit) /\ Ones(t) \in Seq(Bit) /\ Ones(Run) \in Seq(Bit)
  <2>1. "0" \in Bit
    BY DEF Bit
  <2> QED BY <1>2, <1>3, <2>1, OnesAreBits
<1> HIDE DEF e
<1>6. s \in Seq(Bit)
  BY <1>5
<1> HIDE DEF s
<1>7. r \in Seq(Token) /\ Regular(<<f>> \o r)
  BY <1>2, <1>6, BitsQueued
<1> HIDE DEF r
<1>8. Fields(Closed(d), 0, "SCAN", c, u, f, r)
  BY <1>2, <1>3, <1>4, <1>7 DEF Fields, Modes
<1> QED BY <1>8, FieldsSteady

-----------------------------------------------------------------------------
(* Induction over sequences, for a set instead of a formula, and folds.    *)

Below == {p \in Nat \X Nat : p[1] < p[2]}

LEMMA BelowIsWellFounded == IsWellFoundedOn(Below, Nat)
<1>1. OpToRel(<, Nat) = Below
  BY DEF OpToRel, Below
<1> QED BY <1>1, NatLessThanWellFounded

LEMMA SetInduction ==
  ASSUME NEW S, 0 \in S, \A n \in Nat : n \in S => n + 1 \in S
  PROVE  Nat \subseteq S
<1> DEFINE T == {n \in Nat : n \notin S}
<1> SUFFICES ASSUME T # {} PROVE FALSE
  OBVIOUS
<1>1. T \subseteq Nat
  OBVIOUS
<1>2. PICK x \in T : \A y \in T : ~ (<<y, x>> \in Below)
  <2> HIDE DEF T
  <2> QED BY <1>1, BelowIsWellFounded, WFMin
<1>3. x \in Nat /\ x \notin S /\ x # 0
  BY <1>2
<1>4. x - 1 \in Nat /\ x - 1 < x /\ (x - 1) + 1 = x
  BY <1>3
<1>5. x - 1 \notin T
  BY <1>2, <1>3, <1>4 DEF Below
<1> QED BY <1>3, <1>4, <1>5

\* Joining, item by item, and back.
LEMMA JoinedHas ==
  ASSUME NEW S, NEW x \in Seq(S), NEW y \in Seq(S)
  PROVE  /\ x \o y \in Seq(S) /\ Len(x \o y) = Len(x) + Len(y)
         /\ \A i \in 1..Len(x) : (x \o y)[i] = x[i]
         /\ \A i \in 1..Len(y) : (x \o y)[Len(x) + i] = y[i]
  OBVIOUS

LEMMA JoinedIs ==
  ASSUME NEW S, NEW x \in Seq(S), NEW y \in Seq(S), NEW z \in Seq(S),
         Len(z) = Len(x) + Len(y),
         \A i \in 1..Len(x) : z[i] = x[i],
         \A i \in 1..Len(y) : z[Len(x) + i] = y[i]
  PROVE  z = x \o y
<1> DEFINE v == x \o y
           m == Len(x)
           n == Len(y)
<1>1. v \in Seq(S) /\ Len(v) = m + n /\ m \in Nat /\ n \in Nat
  OBVIOUS
<1>2. (\A i \in 1..m : v[i] = x[i]) /\ (\A i \in 1..n : v[m + i] = y[i])
  OBVIOUS
<1>3. Len(z) = m + n /\ (\A i \in 1..m : z[i] = x[i]) /\ (\A i \in 1..n : z[m + i] = y[i])
  OBVIOUS
<1> HIDE DEF v, m, n
<1>4. ASSUME NEW i \in 1..(m + n) PROVE z[i] = v[i]
  <2>1. CASE i \in 1..m
    BY <1>2, <1>3, <2>1
  <2>2. CASE i \notin 1..m
    <3>1. i - m \in 1..n /\ m + (i - m) = i
      BY <1>1, <2>2
    <3> QED BY <1>2, <1>3, <3>1
  <2> QED BY <2>1, <2>2
<1>5. z = v
  BY <1>1, <1>3, <1>4, SeqEqual
<1> QED BY <1>5 DEF v

\* A sequence is its first n items and the others.
LEMMA SplitAt ==
  ASSUME NEW S, NEW s \in Seq(S), NEW n \in 0..Len(s)
  PROVE  \E x, y \in Seq(S) : s = x \o y /\ Len(x) = n
<1> DEFINE m == Len(s) - n
           x == [i \in 1..n |-> s[i]]
           y == [i \in 1..m |-> s[n + i]]
<1>1. n \in Nat /\ m \in Nat /\ Len(s) = n + m
  OBVIOUS
<1>2. x \in Seq(S) /\ Len(x) = n /\ \A i \in 1..n : s[i] = x[i]
  OBVIOUS
<1>3. \A i \in 1..m : s[n + i] \in S
  BY <1>1
<1> HIDE DEF m, x
<1>4. y \in Seq(S) /\ Len(y) = m /\ \A i \in 1..m : s[n + i] = y[i]
  BY <1>1, <1>3
<1> HIDE DEF y
<1>5. s = x \o y
  BY <1>1, <1>2, <1>4, JoinedIs
<1> QED BY <1>2, <1>4, <1>5

\* A set that holds the empty sequence, and with a sequence those that are one
\* item longer, holds them all.
LEMMA SequenceInduction ==
  ASSUME NEW S, NEW P, <<>> \in P, \A s \in Seq(S) : s \in P => \A a \in S : s \o <<a>> \in P
  PROVE  Seq(S) \subseteq P
<1> DEFINE Q == {n \in Nat : \A s \in Seq(S) : Len(s) = n => s \in P}
<1>1. Nat \subseteq Q
  <2>1. 0 \in Q
    <3>1. \A s \in Seq(S) : Len(s) = 0 => s = <<>>
      OBVIOUS
    <3> QED BY <3>1
  <2>2. ASSUME NEW n \in Nat, n \in Q PROVE n + 1 \in Q
    <3> SUFFICES ASSUME NEW s \in Seq(S), Len(s) = n + 1 PROVE s \in P
      OBVIOUS
    <3>1. n \in 0..Len(s)
      OBVIOUS
    <3>2. PICK x \in Seq(S), y \in Seq(S) : s = x \o y /\ Len(x) = n
      BY <3>1, SplitAt
    <3>3. Len(y) = 1
      <4>1. Len(x \o y) = Len(x) + Len(y) /\ Len(y) \in Nat
        BY JoinedHas
      <4>2. n + 1 = n + Len(y)
        BY <3>2, <4>1
      <4> DEFINE k == Len(y)
      <4>3. k \in Nat /\ n + 1 = n + k
        BY <4>1, <4>2
      <4> HIDE DEF k
      <4>4. k = 1
        BY <4>3
      <4> QED BY <4>4 DEF k
    <3>4. y[1] \in S /\ y = <<y[1]>>
      BY <3>3
    <3>5. x \in P
      BY <2>2, <3>2
    <3> QED BY <3>2, <3>4, <3>5
  <2> HIDE DEF Q
  <2> QED BY <2>1, <2>2, SetInduction
<1> SUFFICES ASSUME NEW s \in Seq(S) PROVE s \in P
  OBVIOUS
<1>2. Len(s) \in Nat
  OBVIOUS
<1> QED BY <1>1, <1>2

\* Steps on symbols of S that lead from G to G, and the course of a fold.
Keeps(step, G, S) == \A g \in G, a \in S : step[g][a] \in G

Course(f, step, d, s) == f[0] = d /\ \A n \in 1..Len(s) : f[n] = step[f[n - 1]][s[n]]

\* A fold whose step keeps to G is the function its equation describes.
LEMMA FoldedIs ==
  ASSUME NEW step, NEW G, NEW S, Keeps(step, G, S),
         NEW d \in G, NEW s \in Seq(S)
  PROVE  \E f \in [0..Len(s) -> G] : Course(f, step, d, s) /\ Folded(step, d, s) = f[Len(s)]
<1> DEFINE L == Len(s)
           Follows(f, m) == f[0] = d /\ \A n \in 1..m : f[n] = step[f[n - 1]][s[n]]
           Some(m) == \E f \in [0..m -> G] : Follows(f, m)
           Reach == {m \in Nat : m <= L => Some(m)}
<1>1. L \in Nat /\ \A n \in 1..L : s[n] \in S
  OBVIOUS
<1>2. Nat \subseteq Reach
  <2>1. 0 \in Reach
    <3> DEFINE f == [i \in 0..0 |-> d]
    <3>1. f \in [0..0 -> G] /\ Follows(f, 0)
      OBVIOUS
    <3> HIDE DEF f, Follows
    <3> QED BY <3>1
  <2>2. ASSUME NEW m \in Nat, m \in Reach PROVE m + 1 \in Reach
    <3> SUFFICES ASSUME m + 1 <= L PROVE Some(m + 1)
      <4> HIDE DEF Some
      <4> QED BY <2>2
    <3>1. PICK f \in [0..m -> G] : Follows(f, m)
      <4>1. Some(m)
        <5> HIDE DEF Some
        <5> QED BY <1>1, <2>2
      <4> HIDE DEF Follows
      <4> QED BY <4>1
    <3> DEFINE last == step[f[m]][s[m+1]]
               g == [i \in 0..(m+1) |-> IF i <= m THEN f[i] ELSE last]
    <3>2. last \in G
      <4>1. f[m] \in G /\ s[m+1] \in S
        BY <1>1, <3>1
      <4> QED BY <4>1 DEF Keeps
    <3>3. /\ g \in [0..(m+1) -> G]
          /\ \A i \in 0..m : g[i] = f[i]
          /\ g[m+1] = last
      <4> HIDE DEF last
      <4> QED BY <3>1, <3>2
    <3> HIDE DEF g
    <3>4. ASSUME NEW n \in 1..(m+1) PROVE g[n] = step[g[n - 1]][s[n]]
      <4>1. CASE n <= m
        <5>1. n \in 0..m /\ n - 1 \in 0..m /\ n \in 1..m
          BY <4>1
        <5> QED BY <3>1, <3>3, <5>1
      <4>2. CASE n = m + 1
        <5>1. n - 1 = m /\ m \in 0..m
          BY <4>2
        <5> QED BY <3>3, <4>2, <5>1
      <4> QED BY <4>1, <4>2
    <3>5. g[0] = d
      <4>1. 0 \in 0..m
        OBVIOUS
      <4> QED BY <3>1, <3>3, <4>1
    <3> QED BY <3>3, <3>4, <3>5
  <2> HIDE DEF Reach
  <2> QED BY <2>1, <2>2, SetInduction
<1>3. PICK f \in [0..L -> G] : Follows(f, L)
  <2>1. Some(L)
    <3> HIDE DEF Some, L
    <3> QED BY <1>1, <1>2
  <2> HIDE DEF Follows, L
  <2> QED BY <2>1
<1> DEFINE Eq(h) == h = [n \in 0..L |-> IF n = 0 THEN d ELSE step[h[n - 1]][s[n]]]
<1>4. Eq(f)
  <2>1. \A n \in 0..L : f[n] = IF n = 0 THEN d ELSE step[f[n - 1]][s[n]]
    BY <1>1, <1>3
  <2> QED BY <1>3, <2>1
<1> DEFINE fold[n \in 0..L] == IF n = 0 THEN d ELSE step[fold[n - 1]][s[n]]
<1>5. fold = [n \in 0..L |-> IF n = 0 THEN d ELSE step[fold[n - 1]][s[n]]]
  BY <1>4
<1>6. Folded(step, d, s) = fold[L]
  BY DEF Folded
<1> HIDE DEF fold
<1>7. fold[0] = d /\ \A n \in 1..L : fold[n] = step[fold[n - 1]][s[n]]
  <2>1. \A n \in 0..L : fold[n] = IF n = 0 THEN d ELSE step[fold[n - 1]][s[n]]
    BY <1>5
  <2>2. 0 \in 0..L /\ \A n \in 1..L : n \in 0..L /\ n # 0
    BY <1>1
  <2> QED BY <2>1, <2>2
<1> DEFINE Same == {n \in Nat : n <= L => fold[n] = f[n]}
<1>8. Nat \subseteq Same
  <2>1. 0 \in Same
    BY <1>3, <1>7
  <2>2. ASSUME NEW n \in Nat, n \in Same PROVE n + 1 \in Same
    <3> SUFFICES ASSUME n + 1 <= L PROVE fold[n+1] = f[n+1]
      OBVIOUS
    <3>1. fold[n] = f[n] /\ n + 1 \in 1..L /\ (n + 1) - 1 = n
      BY <1>1, <2>2
    <3> QED BY <1>3, <1>7, <3>1, ZenonT(40)
  <2> HIDE DEF Same
  <2> QED BY <2>1, <2>2, SetInduction
<1>9. fold[L] = f[L]
  BY <1>1, <1>8
<1>10. Course(f, step, d, s)
  BY <1>3 DEF Course
<1> QED BY <1>3, <1>6, <1>9, <1>10

\* Folding nothing, one symbol, and one sequence after another.
LEMMA FoldedNone ==
  ASSUME NEW step, NEW G, NEW S, Keeps(step, G, S), NEW d \in G
  PROVE  Folded(step, d, <<>>) = d
<1> DEFINE s == <<>>
<1>1. s \in Seq(S) /\ Len(s) = 0
  OBVIOUS
<1>4. s \in Seq(S)
  BY <1>1
<1> HIDE DEF s
<1>2. PICK f \in [0..Len(s) -> G] : Course(f, step, d, s) /\ Folded(step, d, s) = f[Len(s)]
  BY <1>4, FoldedIs
<1> QED BY <1>1, <1>2 DEF Course, s

LEMMA FoldedOne ==
  ASSUME NEW step, NEW G, NEW S, Keeps(step, G, S),
         NEW d \in G, NEW a \in S
  PROVE  Folded(step, d, <<a>>) = step[d][a]
<1> DEFINE s == <<a>>
<1>1. s \in Seq(S) /\ Len(s) = 1 /\ s[1] = a
  OBVIOUS
<1>4. s \in Seq(S)
  BY <1>1
<1> HIDE DEF s
<1>2. PICK f \in [0..Len(s) -> G] : Course(f, step, d, s) /\ Folded(step, d, s) = f[Len(s)]
  BY <1>4, FoldedIs
<1>3. f[0] = d /\ f[1] = step[f[0]][s[1]]
  BY <1>1, <1>2 DEF Course
<1> QED BY <1>1, <1>2, <1>3 DEF s

LEMMA FoldedJoined ==
  ASSUME NEW step, NEW G, NEW S, Keeps(step, G, S),
         NEW d \in G, NEW s \in Seq(S), NEW t \in Seq(S)
  PROVE  /\ Folded(step, d, s) \in G
         /\ Folded(step, d, s \o t) = Folded(step, Folded(step, d, s), t)
<1> DEFINE K == Len(s)
           L == Len(t)
           u == s \o t
           e == Folded(step, d, s)
<1>1. /\ K \in Nat /\ L \in Nat /\ u \in Seq(S) /\ Len(u) = K + L
      /\ \A i \in 1..K : u[i] = s[i]
      /\ \A i \in 1..L : u[K + i] = t[i]
  BY JoinedHas
<1> HIDE DEF u
<1>2. PICK f \in [0..K -> G] : Course(f, step, d, s) /\ e = f[K]
  <2> HIDE DEF e
  <2>1. e = Folded(step, d, s)
    BY DEF e
  <2> QED BY <2>1, FoldedIs
<1>3. e \in G
  BY <1>1, <1>2
<1> HIDE DEF e
<1>4. PICK g \in [0..L -> G] : Course(g, step, e, t) /\ Folded(step, e, t) = g[L]
  BY <1>3, FoldedIs
<1>5. PICK h \in [0..Len(u) -> G] : Course(h, step, d, u) /\ Folded(step, d, u) = h[Len(u)]
  <2>1. u \in Seq(S)
    BY <1>1
  <2> QED BY <2>1, FoldedIs
<1>6. f[0] = d /\ \A n \in 1..K : f[n] = step[f[n - 1]][s[n]]
  BY <1>2 DEF Course
<1>7. g[0] = e /\ \A n \in 1..L : g[n] = step[g[n - 1]][t[n]]
  BY <1>4 DEF Course
<1>8. h[0] = d /\ \A n \in 1..(K + L) : h[n] = step[h[n - 1]][u[n]]
  BY <1>1, <1>5 DEF Course
<1> HIDE DEF K, L
<1> DEFINE First == {n \in Nat : n <= K => h[n] = f[n]}
           Second == {n \in Nat : n <= L => h[K + n] = g[n]}
<1>9. Nat \subseteq First
  <2>1. 0 \in First
    BY <1>6, <1>8
  <2>2. ASSUME NEW n \in Nat, n \in First PROVE n + 1 \in First
    <3> DEFINE m == n + 1
    <3> SUFFICES ASSUME m <= K PROVE h[m] = f[m]
      OBVIOUS
    <3>1. h[n] = f[n] /\ m \in 1..K /\ m \in 1..(K + L) /\ m - 1 = n
      BY <1>1, <2>2
    <3> HIDE DEF m
    <3>2. u[m] = s[m] /\ h[m] = step[h[m - 1]][u[m]] /\ f[m] = step[f[m - 1]][s[m]]
      BY <1>1, <1>6, <1>8, <3>1
    <3> QED BY <3>1, <3>2
  <2> HIDE DEF First
  <2> QED BY <2>1, <2>2, SetInduction
<1>10. h[K] = e
  BY <1>1, <1>2, <1>9
<1>11. Nat \subseteq Second
  <2>1. 0 \in Second
    BY <1>1, <1>7, <1>10
  <2>2. ASSUME NEW n \in Nat, n \in Second PROVE n + 1 \in Second
    <3> DEFINE m == n + 1
               l == K + m
    <3> SUFFICES ASSUME m <= L PROVE h[K + m] = g[m]
      OBVIOUS
    <3>1. h[K + n] = g[n] /\ m \in 1..L /\ l \in 1..(K + L) /\ m - 1 = n /\ l - 1 = K + n
      BY <1>1, <2>2
    <3>2. u[l] = t[m]
      BY <1>1, <3>1
    <3> HIDE DEF m, l
    <3>3. h[l] = step[h[l - 1]][u[l]] /\ g[m] = step[g[m - 1]][t[m]]
      BY <1>7, <1>8, <3>1
    <3>4. h[l] = g[m]
      BY <3>1, <3>2, <3>3
    <3> QED BY <3>4 DEF l
  <2> HIDE DEF Second
  <2> QED BY <2>1, <2>2, SetInduction
<1>12. h[K + L] = g[L]
  BY <1>1, <1>11
<1> QED BY <1>1, <1>3, <1>4, <1>5, <1>12 DEF e, u

-----------------------------------------------------------------------------
(* What a steady decoder makes of a sequence of symbols.                   *)

SteadyStates == {d \in DecoderState : Steady(d)}
FeedStep == [e \in DecoderState |-> [b \in Bit |-> Fed(e, b)]]

LEMMA FeedKeeps == Keeps(FeedStep, SteadyStates, Bit)
<1> SUFFICES ASSUME NEW d \in SteadyStates, NEW b \in Bit
             PROVE  FeedStep[d][b] \in SteadyStates
  BY DEF Keeps
<1>1. d \in DecoderState /\ Steady(d)
  BY DEF SteadyStates
<1>2. FeedStep[d][b] = Fed(d, b)
  BY <1>1 DEF FeedStep
<1>3. Steady(Fed(d, b))
  BY <1>1, FedSteady
<1>4. Fed(d, b) \in DecoderState
  BY <1>3 DEF Steady
<1> QED BY <1>2, <1>3, <1>4 DEF SteadyStates

LEMMA SteadyIn ==
  ASSUME NEW d, Steady(d)
  PROVE  d \in SteadyStates
  BY DEF SteadyStates, Steady

LEMMA FedNone ==
  ASSUME NEW d, Steady(d)
  PROVE  FedAll(d, <<>>) = d
<1>1. Folded(FeedStep, d, <<>>) = d
  BY FeedKeeps, SteadyIn, FoldedNone
<1> QED BY <1>1 DEF FedAll, FeedStep

LEMMA FedOne ==
  ASSUME NEW d, Steady(d), NEW b \in Bit
  PROVE  FedAll(d, <<b>>) = Fed(d, b)
<1>1. Folded(FeedStep, d, <<b>>) = FeedStep[d][b]
  BY FeedKeeps, SteadyIn, FoldedOne
<1>2. d \in DecoderState
  BY DEF Steady
<1>3. FeedStep[d][b] = Fed(d, b)
  BY <1>2 DEF FeedStep
<1> QED BY <1>1, <1>3 DEF FedAll, FeedStep

LEMMA FedJoined ==
  ASSUME NEW d, Steady(d), NEW s \in Seq(Bit), NEW t \in Seq(Bit)
  PROVE  /\ Steady(FedAll(d, s))
         /\ FedAll(d, s \o t) = FedAll(FedAll(d, s), t)
<1>1. /\ Folded(FeedStep, d, s) \in SteadyStates
      /\ Folded(FeedStep, d, s \o t) = Folded(FeedStep, Folded(FeedStep, d, s), t)
  BY FeedKeeps, SteadyIn, FoldedJoined
<1>2. FedAll(d, s) \in SteadyStates /\ FedAll(d, s \o t) = FedAll(FedAll(d, s), t)
  BY <1>1 DEF FedAll, FeedStep
<1> QED BY <1>2 DEF SteadyStates

LEMMA Assoc ==
  ASSUME NEW a \in Seq(Token), NEW b \in Seq(Token), NEW c \in Seq(Token)
  PROVE  (a \o b) \o c = a \o (b \o c)
  BY ConcatAssociative

\* Sequences of ones.
LEMMA OnesJoin ==
  ASSUME NEW m \in Nat, NEW n \in Nat
  PROVE  Ones(m) \o Ones(n) = Ones(m + n)
<1> DEFINE x == Ones(m)
           y == Ones(n)
           z == Ones(m + n)
<1>1. /\ x \in Seq(Bit) /\ Len(x) = m /\ \A i \in 1..m : x[i] = "1"
      /\ y \in Seq(Bit) /\ Len(y) = n /\ \A i \in 1..n : y[i] = "1"
      /\ z \in Seq(Bit) /\ Len(z) = m + n /\ \A i \in 1..(m + n) : z[i] = "1"
  BY DEF Ones, Bit
<1> HIDE DEF x, y, z
<1>2. /\ \A i \in 1..Len(x) : z[i] = x[i]
      /\ \A i \in 1..Len(y) : z[Len(x) + i] = y[i]
  BY <1>1
<1>3. z = x \o y
  BY <1>1, <1>2, JoinedIs
<1> QED BY <1>3 DEF x, y, z

LEMMA FewOnes ==
  /\ Ones(0) = <<>> /\ Ones(1) = <<"1">>
  /\ \A n \in Nat : Ones(n) \in Seq(Bit) /\ Ones(n) \in Seq(Token) /\ Len(Ones(n)) = n
<1>1. Ones(0) = <<>>
  BY DEF Ones
<1>2. Ones(1) = <<"1">>
  BY DEF Ones
<1>3. ASSUME NEW n \in Nat PROVE Ones(n) \in Seq(Bit) /\ Ones(n) \in Seq(Token) /\ Len(Ones(n)) = n
  BY DEF Ones, Bit, Token
<1> QED BY <1>1, <1>2, <1>3

\* The bits a decoder has queued or holds back while it scans.
Heard(d) == d.out \o Ones(d.t)

\* What is known of a steady decoder's fields.
LEMMA SteadyTypes ==
  ASSUME NEW d, Steady(d)
  PROVE  /\ d \in DecoderState
         /\ d.out \in Seq(Token) /\ d.t \in Nat /\ d.t <= Run /\ Run \in Nat /\ Run > 0
         /\ Heard(d) \in Seq(Token)
<1>1. /\ d \in DecoderState
      /\ d.out \in Seq(Token) /\ d.t \in Nat /\ d.t <= Run /\ Run \in Nat /\ Run > 0
  BY FormatAssumption DEF Steady, DecoderState
<1>2. Ones(d.t) \in Seq(Token)
  BY <1>1, FewOnes
<1> QED BY <1>1, <1>2 DEF Heard

\* A one while scanning.
LEMMA ScanOne ==
  ASSUME NEW d, Steady(d), d.bm = "SCAN"
  PROVE  LET r == Fed(d, "1")
         IN  /\ r.bm = "SCAN"
             /\ d.t < Run => r.t = d.t + 1 /\ r.out = d.out
             /\ d.t = Run => r.t = Run /\ r.out = d.out \o <<"1">>
<1>1. d \in DecoderState /\ d.t \in Nat /\ d.t <= Run /\ Run \in Nat
  BY SteadyTypes
<1>2. Fed(d, "1") = Scan(d, "1")
  BY DEF Fed
<1>3. CASE d.t < Run
  <2>1. Scan(d, "1") = [d EXCEPT !.t = @ + 1]
    BY <1>3 DEF Scan
  <2>2. d.t # Run
    BY <1>1, <1>3
  <2> QED BY <1>1, <1>2, <2>1, <2>2 DEF DecoderState
<1>4. CASE d.t = Run
  <2>1. ~(d.t < Run)
    BY <1>1, <1>4
  <2>2. Scan(d, "1") = [d EXCEPT !.out = @ \o <<"1">>]
    BY <2>1 DEF Scan, Queued
  <2> QED BY <1>1, <1>2, <1>4, <2>1, <2>2 DEF DecoderState
<1> QED BY <1>1, <1>3, <1>4

\* Ones while scanning: the decoder holds back what it may and queues the rest.
LEMMA ScanOnes ==
  ASSUME NEW d, Steady(d), d.bm = "SCAN", NEW n \in Nat
  PROVE  LET r == FedAll(d, Ones(n))
         IN  /\ Steady(r) /\ r.bm = "SCAN"
             /\ \E k \in Nat : r.t + k = d.t + n /\ r.out = d.out \o Ones(k) /\ (k > 0 => r.t = Run)
<1> DEFINE R(m) == FedAll(d, Ones(m))
           Fine(m) == \E k \in Nat : /\ R(m).t + k = d.t + m
                                     /\ R(m).out = d.out \o Ones(k)
                                     /\ k > 0 => R(m).t = Run
           P == {m \in Nat : Steady(R(m)) /\ R(m).bm = "SCAN" /\ Fine(m)}
<1>1. Nat \subseteq P
  <2>1. 0 \in P
    <3>1. R(0) = d
      BY FewOnes, FedNone
    <3>2. d.out \o Ones(0) = d.out /\ d.t + 0 = d.t
      <4>1. d.out \in Seq(Token) /\ d.t \in Nat
        BY SteadyTypes
      <4>2. d.out \o <<>> = d.out
        BY <4>1
      <4>3. Ones(0) = <<>>
        BY FewOnes
      <4>4. d.t + 0 = d.t
        BY <4>1
      <4> QED BY <4>2, <4>3, <4>4, Zenon
    <3>3. Fine(0)
      BY <3>1, <3>2
    <3> HIDE DEF Fine
    <3> QED BY <3>1, <3>3
  <2>2. ASSUME NEW m \in Nat, m \in P PROVE m + 1 \in P
    <3> DEFINE r == R(m)
               q == R(m + 1)
    <3>1. Steady(r) /\ r.bm = "SCAN"
      BY <2>2
    <3>2. PICK k \in Nat : r.t + k = d.t + m /\ r.out = d.out \o Ones(k) /\ (k > 0 => r.t = Run)
      BY <2>2
    <3>3. "1" \in Bit
      BY DEF Bit
    <3>4. q = Fed(r, "1")
      <4>1. Ones(m + 1) = Ones(m) \o Ones(1)
        BY OnesJoin
      <4>2. Ones(m) \in Seq(Bit) /\ Ones(1) \in Seq(Bit)
        BY FewOnes
      <4>3. q = FedAll(r, Ones(1))
        <5> HIDE DEF q
        <5>1. FedAll(d, Ones(m) \o Ones(1)) = FedAll(FedAll(d, Ones(m)), Ones(1))
          BY <4>2, FedJoined
        <5> QED BY <4>1, <5>1 DEF q
      <4>4. FedAll(r, <<"1">>) = Fed(r, "1")
        BY <3>1, <3>3, FedOne
      <4> QED BY <4>3, <4>4, FewOnes
    <3> HIDE DEF r, R
    <3>5. Steady(q)
      BY <3>1, <3>3, <3>4, FedSteady
    <3>6. /\ q.bm = "SCAN"
          /\ r.t < Run => q.t = r.t + 1 /\ q.out = r.out
          /\ r.t = Run => q.t = Run /\ q.out = r.out \o <<"1">>
      BY <3>1, <3>4, ScanOne
    <3>7. r.t \in Nat /\ r.t <= Run /\ Run \in Nat /\ d.t \in Nat /\ d.out \in Seq(Token)
      BY <3>1, SteadyTypes
    <3>8. Fine(m + 1)
      <4>1. CASE r.t < Run
        <5>1. k = 0 /\ r.t + k = d.t + m /\ q.t = r.t + 1
          BY <3>2, <3>6, <3>7, <4>1
        <5>2. q.out = d.out \o Ones(k)
          BY <3>2, <3>6, <4>1
        <5>3. q.t + k = d.t + (m + 1) /\ ~(k > 0)
          <6>1. r.t \in Nat /\ d.t \in Nat
            BY <3>7
          <6> QED BY <5>1, <6>1
        <5> QED BY <5>2, <5>3
      <4>2. CASE r.t = Run
        <5>0. r.t + k = d.t + m /\ q.t = r.t
          BY <3>2, <3>6, <4>2
        <5>1. q.t + (k + 1) = d.t + (m + 1) /\ k + 1 \in Nat /\ q.t = Run
          BY <3>7, <4>2, <5>0
        <5>2. Ones(k) \o Ones(1) = Ones(k + 1) /\ Ones(1) = <<"1">>
          BY OnesJoin, FewOnes
        <5>3. Ones(k) \in Seq(Token) /\ Ones(1) \in Seq(Token)
          BY FewOnes
        <5>4. (d.out \o Ones(k)) \o Ones(1) = d.out \o (Ones(k) \o Ones(1))
          BY <3>7, <5>3, Assoc, Zenon
        <5>5. q.out = d.out \o Ones(k + 1)
          BY <3>2, <3>6, <4>2, <5>2, <5>4
        <5> QED BY <5>1, <5>5
      <4>3. r.t < Run \/ r.t = Run
        BY <3>7
      <4> QED BY <4>1, <4>2, <4>3, Zenon
    <3> HIDE DEF Fine
    <3> QED BY <3>5, <3>6, <3>8 DEF R
  <2> HIDE DEF P
  <2> QED BY <2>1, <2>2, SetInduction
<1> QED BY <1>1

LEMMA OnesHeard ==
  ASSUME NEW d, Steady(d), d.bm = "SCAN", NEW n \in Nat
  PROVE  Heard(FedAll(d, Ones(n))) = Heard(d) \o Ones(n)
<1> DEFINE r == FedAll(d, Ones(n))
<1>1. PICK k \in Nat : r.t + k = d.t + n /\ r.out = d.out \o Ones(k)
  BY ScanOnes
<1>2. Steady(r)
  BY ScanOnes
<1> HIDE DEF r
<1>3. r.t \in Nat /\ d.t \in Nat /\ d.out \in Seq(Token)
  BY <1>2, SteadyTypes
<1>4. Ones(k) \in Seq(Token) /\ Ones(r.t) \in Seq(Token) /\ Ones(d.t) \in Seq(Token) /\ Ones(n) \in Seq(Token)
  BY <1>3, FewOnes
<1>5. (d.out \o Ones(k)) \o Ones(r.t) = d.out \o (Ones(k) \o Ones(r.t))
  BY <1>3, <1>4, Assoc, Zenon
<1>6. (d.out \o Ones(d.t)) \o Ones(n) = d.out \o (Ones(d.t) \o Ones(n))
  BY <1>3, <1>4, Assoc, Zenon
<1>7. Ones(k) \o Ones(r.t) = Ones(k + r.t) /\ Ones(d.t) \o Ones(n) = Ones(d.t + n)
  BY <1>3, OnesJoin
<1>8. k + r.t = d.t + n
  BY <1>1, <1>3
<1> QED BY <1>1, <1>5, <1>6, <1>7, <1>8 DEF Heard, r

\* A symbol that ends the ones and starts no sequence.
LEMMA ScanOther ==
  ASSUME NEW d, Steady(d), d.bm = "SCAN", NEW b \in Bit, b # "1", ~(b = "0" /\ d.t = Run)
  PROVE  LET r == Fed(d, b)
         IN  r.bm = "SCAN" /\ r.t = 0 /\ r.out = Heard(d) \o <<b>>
<1>1. d \in DecoderState /\ d.out \in Seq(Token) /\ d.t \in Nat
  BY SteadyTypes
<1>2. Fed(d, b) = [Queued(d, Ones(d.t) \o <<b>>) EXCEPT !.t = 0]
  BY DEF Fed, Scan
<1>3. /\ Fed(d, b).bm = "SCAN" /\ Fed(d, b).t = 0
      /\ Fed(d, b).out = d.out \o (Ones(d.t) \o <<b>>)
  <2> DEFINE s == Ones(d.t) \o <<b>>
  <2>1. Fed(d, b) = [Queued(d, s) EXCEPT !.t = 0]
    BY <1>2
  <2> HIDE DEF s
  <2>2. /\ Fed(d, b).bm = "SCAN" /\ Fed(d, b).t = 0 /\ Fed(d, b).out = d.out \o s
    BY <1>1, <2>1 DEF Queued, DecoderState
  <2> QED BY <2>2 DEF s
<1>4. Ones(d.t) \in Seq(Token) /\ <<b>> \in Seq(Token)
  <2>1. b \in Token
    BY DEF Token
  <2> QED BY <1>1, <2>1, FewOnes
<1>5. d.out \o (Ones(d.t) \o <<b>>) = (d.out \o Ones(d.t)) \o <<b>>
  BY <1>1, <1>4, Assoc, Zenon
<1> QED BY <1>3, <1>5 DEF Heard

\* A whole run of ones while scanning.
LEMMA FullRun ==
  ASSUME NEW d, Steady(d), d.bm = "SCAN"
  PROVE  LET r == FedAll(d, Ones(Run))
         IN  Steady(r) /\ r.bm = "SCAN" /\ r.t = Run /\ r.out = Heard(d)
<1> DEFINE r == FedAll(d, Ones(Run))
<1>1. Run \in Nat
  BY FormatAssumption
<1>2. Steady(r) /\ r.bm = "SCAN"
  BY <1>1, ScanOnes
<1>3. PICK k \in Nat : r.t + k = d.t + Run /\ r.out = d.out \o Ones(k) /\ (k > 0 => r.t = Run)
  BY <1>1, ScanOnes
<1> HIDE DEF r
<1>4. r.t \in Nat /\ r.t <= Run /\ d.t \in Nat
  BY <1>2, SteadyTypes
<1>5. r.t = Run /\ k = d.t
  <2>1. r.t + k = d.t + Run /\ (k > 0 => r.t = Run)
    BY <1>3
  <2> QED BY <1>1, <1>4, <2>1
<1> QED BY <1>2, <1>3, <1>5 DEF Heard, r

\* Short sequences, symbol by symbol.
LEMMA FedTwo ==
  ASSUME NEW d, Steady(d), NEW a \in Bit, NEW b \in Bit
  PROVE  FedAll(d, <<a, b>>) = Fed(Fed(d, a), b)
<1>1. <<a>> \in Seq(Bit) /\ <<b>> \in Seq(Bit) /\ <<a, b>> = <<a>> \o <<b>>
  <2>1. <<a>> \in Seq(Bit) /\ <<b>> \in Seq(Bit)
    OBVIOUS
  <2>2. <<a, b>> = <<a>> \o <<b>>
    <3> DEFINE x == <<a>>
               y == <<b>>
               z == <<a, b>>
    <3>1. x \in Seq(Bit) /\ Len(x) = 1 /\ x[1] = a
      OBVIOUS
    <3>2. y \in Seq(Bit) /\ Len(y) = 1 /\ y[1] = b
      OBVIOUS
    <3>3. z \in Seq(Bit) /\ Len(z) = 2 /\ z[1] = a /\ z[2] = b
      OBVIOUS
    <3> HIDE DEF x, y, z
    <3>4. z = x \o y
      <4>1. /\ Len(z) = Len(x) + Len(y)
            /\ \A i \in 1..Len(x) : z[i] = x[i]
            /\ \A i \in 1..Len(y) : z[Len(x) + i] = y[i]
        BY <3>1, <3>2, <3>3
      <4>2. x \in Seq(Bit) /\ y \in Seq(Bit) /\ z \in Seq(Bit)
        BY <3>1, <3>2, <3>3
      <4> QED BY <4>1, <4>2, JoinedIs
    <3> QED BY <3>4 DEF x, y, z
  <2> QED BY <2>1, <2>2
<1>2. FedAll(d, <<a>> \o <<b>>) = FedAll(FedAll(d, <<a>>), <<b>>)
  BY <1>1, FedJoined
<1>3. FedAll(d, <<a>>) = Fed(d, a) /\ Steady(Fed(d, a))
  BY FedOne, FedSteady
<1>4. FedAll(Fed(d, a), <<b>>) = Fed(Fed(d, a), b)
  BY <1>3, FedOne
<1> QED BY <1>1, <1>2, <1>3, <1>4

LEMMA FedThree ==
  ASSUME NEW d, Steady(d), NEW a \in Bit, NEW b \in Bit, NEW c \in Bit
  PROVE  FedAll(d, <<a, b, c>>) = Fed(Fed(Fed(d, a), b), c)
<1>1. <<a, b>> \in Seq(Bit) /\ <<c>> \in Seq(Bit) /\ <<a, b, c>> = <<a, b>> \o <<c>>
  OBVIOUS
<1>2. FedAll(d, <<a, b>> \o <<c>>) = FedAll(FedAll(d, <<a, b>>), <<c>>)
  BY <1>1, FedJoined
<1>3. FedAll(d, <<a, b>>) = Fed(Fed(d, a), b) /\ Steady(Fed(Fed(d, a), b))
  BY FedTwo, FedSteady
<1>4. FedAll(Fed(Fed(d, a), b), <<c>>) = Fed(Fed(Fed(d, a), b), c)
  BY <1>3, FedOne
<1> QED BY <1>1, <1>2, <1>3, <1>4

\* A zero and two code bits behind a run.
LEMMA FedCode ==
  ASSUME NEW d, Steady(d), d.bm = "SCAN", d.t = Run, NEW x \in {"0", "1"}, NEW y \in {"0", "1"}
  PROVE  LET r == FedAll(d, <<"0", x, y>>)
             c == 2 * Digit(x) + Digit(y)
         IN  /\ Steady(r)
             /\ c # 0 => r.bm = "SCAN" /\ r.t = 0 /\ r.out = d.out \o Transitions(c)
             /\ c = 0 => r.bm = "SUF1" /\ r.t = Run /\ r.out = d.out
<1> DEFINE c == 2 * Digit(x) + Digit(y)
           d1 == Fed(d, "0")
           d2 == Fed(d1, x)
           d3 == Fed(d2, y)
<1>1. "0" \in Bit /\ x \in Bit /\ y \in Bit /\ "0" # "1"
  BY DEF Bit
<1>2. FedAll(d, <<"0", x, y>>) = d3
  BY <1>1, FedThree
<1>3. Steady(d1) /\ Steady(d2) /\ Steady(d3)
  <2>1. Steady(d1)
    BY <1>1, FedSteady
  <2>2. Steady(d2)
    BY <1>1, <2>1, FedSteady
  <2> QED BY <1>1, <2>1, <2>2, FedSteady
<1>4. d \in DecoderState /\ d1 \in DecoderState /\ d2 \in DecoderState
  BY <1>3, SteadyTypes
<1>5. d1 = [d EXCEPT !.code = 0, !.bm = "CODE2"]
  BY <1>1 DEF Fed, Scan
<1>6. d1.code = 0 /\ d1.bm = "CODE2" /\ d1.out = d.out /\ d1.t = Run
  BY <1>4, <1>5 DEF DecoderState
<1>7. Digit(x) \in 0..1 /\ Digit(y) \in 0..1
  BY DEF Digit
<1> HIDE DEF d1
<1>8. d1.code * 2 + Digit(x) = Digit(x)
  BY <1>6, <1>7
<1>9. d2 = [d1 EXCEPT !.code = Digit(x), !.bm = "CODE3"]
  BY <1>6, <1>8 DEF Fed
<1>10. d2.code = Digit(x) /\ d2.bm = "CODE3" /\ d2.out = d.out /\ d2.t = Run
  BY <1>4, <1>6, <1>9 DEF DecoderState
<1> HIDE DEF d2
<1>11. d2.code * 2 + Digit(y) = c
  BY <1>7, <1>10
<1> HIDE DEF c
<1>12. CASE c # 0
  <2> DEFINE s == Transitions(c)
  <2>1. d3 = [Queued(d2, s) EXCEPT !.code = c, !.t = 0, !.bm = "SCAN"]
    BY <1>10, <1>11, <1>12 DEF Fed
  <2> HIDE DEF s, d3
  <2>2. d3.bm = "SCAN" /\ d3.t = 0 /\ d3.out = d.out \o s
    BY <1>4, <1>10, <2>1 DEF Queued, DecoderState
  <2> QED BY <1>2, <1>3, <1>12, <2>2 DEF s, c
<1>13. CASE c = 0
  <2>1. d3 = [d2 EXCEPT !.code = 0, !.bm = "SUF1"]
    BY <1>10, <1>11, <1>13 DEF Fed
  <2> HIDE DEF d3
  <2>2. d3.bm = "SUF1" /\ d3.t = Run /\ d3.out = d.out
    BY <1>4, <1>10, <2>1 DEF DecoderState
  <2> QED BY <1>2, <1>3, <1>13, <2>2 DEF c
<1> QED BY <1>12, <1>13

\* Two suffix bits behind a pure code.
LEMMA FedSuffix ==
  ASSUME NEW d, Steady(d), d.bm = "SUF1", NEW x \in {"0", "1"}, NEW y \in {"0", "1"}
  PROVE  LET r == FedAll(d, <<x, y>>)
         IN  /\ Steady(r) /\ r.bm = "SCAN" /\ r.t = 0
             /\ r.out = d.out \o Unescaped(2 * Digit(x) + Digit(y))
<1> DEFINE c == 2 * Digit(x) + Digit(y)
           d1 == Fed(d, x)
           d2 == Fed(d1, y)
           s == Unescaped(c)
<1>1. x \in Bit /\ y \in Bit
  BY DEF Bit
<1>2. FedAll(d, <<x, y>>) = d2
  BY <1>1, FedTwo
<1>3. Steady(d1) /\ Steady(d2)
  <2>1. Steady(d1)
    BY <1>1, FedSteady
  <2> QED BY <1>1, <2>1, FedSteady
<1>4. d \in DecoderState /\ d1 \in DecoderState
  BY <1>3, SteadyTypes
<1>5. d1 = [d EXCEPT !.suf = Digit(x), !.bm = "SUF2"]
  BY DEF Fed
<1>6. d1.suf = Digit(x) /\ d1.bm = "SUF2" /\ d1.out = d.out
  BY <1>4, <1>5 DEF DecoderState
<1>7. Digit(x) \in 0..1 /\ Digit(y) \in 0..1
  BY DEF Digit
<1> HIDE DEF d1
<1>8. d1.suf * 2 + Digit(y) = c
  BY <1>6, <1>7
<1> HIDE DEF c
<1>9. d2 = [Queued(d1, s) EXCEPT !.t = 0, !.bm = "SCAN"]
  BY <1>6, <1>8 DEF Fed
<1> HIDE DEF s, d2
<1>10. d2.bm = "SCAN" /\ d2.t = 0 /\ d2.out = d.out \o s
  BY <1>4, <1>6, <1>9 DEF Queued, DecoderState
<1> QED BY <1>2, <1>3, <1>10 DEF s, c

\* A marker and an escape, wherever the decoder scans.
LEMMA MarkerHeard ==
  ASSUME NEW d, Steady(d), d.bm = "SCAN", NEW x \in {"0", "1"}, NEW y \in {"0", "1"},
         2 * Digit(x) + Digit(y) # 0
  PROVE  LET r == FedAll(d, Ones(Run) \o <<"0", x, y>>)
         IN  /\ Steady(r) /\ r.bm = "SCAN" /\ r.t = 0
             /\ r.out = Heard(d) \o Transitions(2 * Digit(x) + Digit(y))
<1>1. Ones(Run) \in Seq(Bit) /\ <<"0", x, y>> \in Seq(Bit)
  <2>1. "0" \in Bit /\ x \in Bit /\ y \in Bit
    BY DEF Bit
  <2> QED BY <2>1, ShortSeq, FewOnes, FormatAssumption
<1> DEFINE q == FedAll(d, Ones(Run))
<1>2. FedAll(d, Ones(Run) \o <<"0", x, y>>) = FedAll(q, <<"0", x, y>>)
  BY <1>1, FedJoined
<1>3. Steady(q) /\ q.bm = "SCAN" /\ q.t = Run /\ q.out = Heard(d)
  BY FullRun
<1> HIDE DEF q
<1> DEFINE p == FedAll(q, <<"0", x, y>>)
           c == 2 * Digit(x) + Digit(y)
<1>4. /\ Steady(p)
      /\ c # 0 => p.bm = "SCAN" /\ p.t = 0 /\ p.out = q.out \o Transitions(c)
  BY <1>3, FedCode
<1>5. c # 0
  OBVIOUS
<1>6. FedAll(d, Ones(Run) \o <<"0", x, y>>) = p
  BY <1>2
<1> HIDE DEF p
<1> QED BY <1>3, <1>4, <1>5, <1>6

LEMMA EscapeHeard ==
  ASSUME NEW d, Steady(d), d.bm = "SCAN", NEW x \in {"0", "1"}, NEW y \in {"0", "1"}
  PROVE  LET r == FedAll(d, Ones(Run) \o <<"0", "0", "0">> \o <<x, y>>)
         IN  /\ Steady(r) /\ r.bm = "SCAN" /\ r.t = 0
             /\ r.out = Heard(d) \o Unescaped(2 * Digit(x) + Digit(y))
<1> DEFINE pure == <<"0", "0", "0">>
           q == FedAll(d, Ones(Run))
           p == FedAll(q, pure)
<1>1. Ones(Run) \in Seq(Bit) /\ pure \in Seq(Bit) /\ <<x, y>> \in Seq(Bit)
  <2>1. "0" \in Bit /\ x \in Bit /\ y \in Bit
    BY DEF Bit
  <2> QED BY <2>1, ShortSeq, FewOnes, FormatAssumption
<1>2. Steady(q) /\ q.bm = "SCAN" /\ q.t = Run /\ q.out = Heard(d)
  BY FullRun
<1>3. Steady(p) /\ p.bm = "SUF1" /\ p.out = Heard(d)
  <2>1. "0" \in {"0", "1"} /\ 2 * Digit("0") + Digit("0") = 0
    BY DEF Digit
  <2> HIDE DEF q
  <2> QED BY <1>2, <2>1, FedCode
<1>4. FedAll(d, Ones(Run) \o pure) = p
  BY <1>1, FedJoined
<1> HIDE DEF p, q, pure
<1>5. Ones(Run) \o pure \in Seq(Bit)
  BY <1>1
<1>6. FedAll(d, (Ones(Run) \o pure) \o <<x, y>>) = FedAll(FedAll(d, Ones(Run) \o pure), <<x, y>>)
  BY <1>1, <1>5, FedJoined
<1>7. FedAll(d, (Ones(Run) \o pure) \o <<x, y>>) = FedAll(p, <<x, y>>)
  BY <1>4, <1>6
<1> DEFINE r == FedAll(p, <<x, y>>)
<1>8. /\ Steady(r) /\ r.bm = "SCAN" /\ r.t = 0
      /\ r.out = p.out \o Unescaped(2 * Digit(x) + Digit(y))
  BY <1>3, FedSuffix
<1>9. FedAll(d, Ones(Run) \o <<"0", "0", "0">> \o <<x, y>>) = r
  BY <1>7 DEF pure
<1> HIDE DEF r
<1> QED BY <1>3, <1>8, <1>9

-----------------------------------------------------------------------------
(* What was queued before does not matter to what follows.                 *)

\* d has queued x and then what e has, and they agree on all but fstate.
Ahead(d, x, e) ==
  /\ d.out = x \o e.out
  /\ d.t = e.t /\ d.bm = e.bm /\ d.code = e.code /\ d.suf = e.suf

LEMMA AheadFed ==
  ASSUME NEW d, Steady(d), NEW e, Steady(e), NEW x \in Seq(Token), Ahead(d, x, e), NEW b \in Bit
  PROVE  Ahead(Fed(d, b), x, Fed(e, b))
<1>1. d \in DecoderState /\ e \in DecoderState
  BY SteadyTypes
<1>2. d.out = x \o e.out /\ d.t = e.t /\ d.bm = e.bm /\ d.code = e.code /\ d.suf = e.suf
  BY DEF Ahead
<1>0. \A s \in Seq(Token) : d.out \o s = x \o (e.out \o s)
  <2>1. e.out \in Seq(Token)
    BY SteadyTypes
  <2>2. \A s \in Seq(Token) : (x \o e.out) \o s = x \o (e.out \o s)
    BY <2>1, Assoc, Zenon
  <2> QED BY <1>2, <2>2
<1> DEFINE c == e.code * 2 + Digit(b)
           f == e.suf * 2 + Digit(b)
<1>3. d.code * 2 + Digit(b) = c /\ d.suf * 2 + Digit(b) = f
  BY <1>2
<1>4. e.t \in 0..Run /\ e.code \in 0..3 /\ e.suf \in 0..1 /\ Digit(b) \in 0..1
  BY <1>1 DEF DecoderState, Digit
<1>5. f \in 0..3 /\ (e.bm = "CODE3" => c \in 0..3)
  BY <1>4 DEF Steady
<1> HIDE DEF c, f
<1>6. CASE e.bm = "SCAN"
  <2>1. Fed(d, b) = Scan(d, b) /\ Fed(e, b) = Scan(e, b)
    BY <1>2, <1>6 DEF Fed
  <2>2. CASE b = "1" /\ e.t < Run
    BY <1>1, <1>2, <2>1, <2>2 DEF Scan, Ahead, DecoderState
  <2>3. CASE b = "1" /\ ~(e.t < Run)
    <3> DEFINE s == <<"1">>
    <3>1. s \in Seq(Token)
      BY DEF Token, Bit
    <3>2. Fed(d, b) = Queued(d, s) /\ Fed(e, b) = Queued(e, s)
      BY <1>2, <2>1, <2>3 DEF Scan
    <3> HIDE DEF s
    <3>3. d.out \o s = x \o (e.out \o s)
      BY <1>0, <3>1
    <3> QED BY <1>1, <1>2, <3>2, <3>3 DEF Queued, Ahead, DecoderState
  <2>4. CASE b = "0" /\ e.t = Run
    BY <1>1, <1>2, <2>1, <2>4 DEF Scan, Ahead, DecoderState
  <2>5. CASE b # "1" /\ ~(b = "0" /\ e.t = Run)
    <3> DEFINE s == Ones(e.t) \o <<b>>
    <3>1. s \in Seq(Token)
      <4>1. <<b>> \in Seq(Token) /\ e.t \in Nat
        BY <1>4 DEF Token
      <4>2. Ones(e.t) \in Seq(Token)
        BY <4>1, FewOnes
      <4> QED BY <4>1, <4>2
    <3>2. /\ Fed(d, b) = [Queued(d, s) EXCEPT !.t = 0]
          /\ Fed(e, b) = [Queued(e, s) EXCEPT !.t = 0]
      BY <1>2, <2>1, <2>5 DEF Scan
    <3> HIDE DEF s
    <3>3. d.out \o s = x \o (e.out \o s)
      BY <1>0, <3>1
    <3> QED BY <1>1, <1>2, <3>2, <3>3 DEF Queued, Ahead, DecoderState
  <2> QED BY <2>2, <2>3, <2>4, <2>5
<1>7. CASE e.bm = "CODE2"
  <2>1. Fed(d, b) = [d EXCEPT !.code = c, !.bm = "CODE3"] /\ Fed(e, b) = [e EXCEPT !.code = c, !.bm = "CODE3"]
    BY <1>2, <1>3, <1>7 DEF Fed, c
  <2> QED BY <1>1, <1>2, <2>1 DEF Ahead, DecoderState
<1>8. CASE e.bm = "CODE3" /\ c = 0
  <2>1. Fed(d, b) = [d EXCEPT !.code = 0, !.bm = "SUF1"] /\ Fed(e, b) = [e EXCEPT !.code = 0, !.bm = "SUF1"]
    BY <1>2, <1>3, <1>8 DEF Fed, c
  <2> QED BY <1>1, <1>2, <2>1 DEF Ahead, DecoderState
<1>9. CASE e.bm = "CODE3" /\ c # 0
  <2> DEFINE s == Transitions(c)
  <2>1. s \in Seq(Token)
    <3>1. c \in 1..3
      BY <1>5, <1>9
    <3> QED BY <3>1, TransitionsAreTokens
  <2>2. /\ Fed(d, b) = [Queued(d, s) EXCEPT !.code = c, !.t = 0, !.bm = "SCAN"]
        /\ Fed(e, b) = [Queued(e, s) EXCEPT !.code = c, !.t = 0, !.bm = "SCAN"]
    BY <1>2, <1>3, <1>9 DEF Fed, c
  <2> HIDE DEF s
  <2>3. d.out \o s = x \o (e.out \o s)
    BY <1>0, <2>1
  <2> QED BY <1>1, <1>2, <2>2, <2>3, ZenonT(40) DEF Queued, Ahead, DecoderState
<1>10. CASE e.bm = "SUF1"
  <2>1. Fed(d, b) = [d EXCEPT !.suf = Digit(b), !.bm = "SUF2"] /\ Fed(e, b) = [e EXCEPT !.suf = Digit(b), !.bm = "SUF2"]
    BY <1>2, <1>10 DEF Fed
  <2> QED BY <1>1, <1>2, <2>1 DEF Ahead, DecoderState
<1>11. CASE e.bm = "SUF2"
  <2> DEFINE s == Unescaped(f)
  <2>1. s \in Seq(Token)
    <3>1. s \in Seq(Bit)
      BY <1>5, UnescapedAreBits
    <3> HIDE DEF s
    <3> QED BY <3>1 DEF Token
  <2>2. /\ Fed(d, b) = [Queued(d, s) EXCEPT !.t = 0, !.bm = "SCAN"]
        /\ Fed(e, b) = [Queued(e, s) EXCEPT !.t = 0, !.bm = "SCAN"]
    BY <1>2, <1>3, <1>11 DEF Fed, f
  <2> HIDE DEF s
  <2>3. d.out \o s = x \o (e.out \o s)
    BY <1>0, <2>1
  <2> QED BY <1>1, <1>2, <2>2, <2>3, ZenonT(40) DEF Queued, Ahead, DecoderState
<1>12. e.bm \in {"SCAN", "CODE2", "CODE3", "SUF1", "SUF2"}
  BY <1>1 DEF DecoderState
<1> QED BY <1>6, <1>7, <1>8, <1>9, <1>10, <1>11, <1>12

LEMMA AheadFedAll ==
  ASSUME NEW d, Steady(d), NEW e, Steady(e), NEW x \in Seq(Token), Ahead(d, x, e),
         NEW s \in Seq(Bit)
  PROVE  Ahead(FedAll(d, s), x, FedAll(e, s))
<1> DEFINE P == {u \in Seq(Bit) : Ahead(FedAll(d, u), x, FedAll(e, u))}
<1>1. <<>> \in P
  <2>1. FedAll(d, <<>>) = d /\ FedAll(e, <<>>) = e
    BY FedNone
  <2>2. <<>> \in Seq(Bit)
    OBVIOUS
  <2> QED BY <2>1, <2>2
<1>2. ASSUME NEW u \in Seq(Bit), u \in P, NEW b \in Bit PROVE u \o <<b>> \in P
  <2> DEFINE d1 == FedAll(d, u)
             e1 == FedAll(e, u)
  <2>1. <<b>> \in Seq(Bit) /\ u \o <<b>> \in Seq(Bit)
    OBVIOUS
  <2>2. /\ Steady(d1) /\ FedAll(d, u \o <<b>>) = FedAll(d1, <<b>>)
        /\ Steady(e1) /\ FedAll(e, u \o <<b>>) = FedAll(e1, <<b>>)
    BY <2>1, FedJoined
  <2>3. Ahead(d1, x, e1)
    BY <1>2
  <2> HIDE DEF d1, e1
  <2>4. FedAll(d1, <<b>>) = Fed(d1, b) /\ FedAll(e1, <<b>>) = Fed(e1, b)
    BY <2>2, FedOne
  <2>5. Ahead(Fed(d1, b), x, Fed(e1, b))
    BY <2>2, <2>3, AheadFed
  <2> QED BY <2>1, <2>2, <2>4, <2>5
<1> HIDE DEF P
<1>3. Seq(Bit) \subseteq P
  BY <1>1, <1>2, SequenceInduction
<1> QED BY <1>3 DEF P

\* The front of a joined sequence, and what is behind it.
LEMMA FrontAndRest ==
  ASSUME NEW x \in Seq(Token), NEW y \in Seq(Token), NEW z, z = x \o y
  PROVE  /\ SubSeq(z, Len(x) + 1, Len(z)) = y
         /\ \A k \in 0..Len(x) : SubSeq(z, 1, k) = SubSeq(x, 1, k)
<1> DEFINE m == Len(x)
           n == Len(y)
           u == SubSeq(z, m + 1, Len(z))
<1>1. m \in Nat /\ n \in Nat /\ z \in Seq(Token) /\ Len(z) = m + n
      /\ (\A i \in 1..m : z[i] = x[i]) /\ (\A i \in 1..n : z[m + i] = y[i])
  BY JoinedHas
<1>2. m \in 0..Len(z)
  BY <1>1
<1>3. u \in Seq(Token) /\ Len(u) = Len(z) - m /\ \A i \in 1..(Len(z) - m) : u[i] = z[m + i]
  BY <1>1, <1>2, SuffixItems
<1> HIDE DEF u
<1>4. u = y
  <2>1. Len(u) = n /\ \A i \in 1..n : u[i] = y[i]
    BY <1>1, <1>3
  <2> QED BY <1>3, <2>1, SeqEqual
<1>5. ASSUME NEW k \in 0..m PROVE SubSeq(z, 1, k) = SubSeq(x, 1, k)
  <2> DEFINE a == SubSeq(z, 1, k)
             b == SubSeq(x, 1, k)
  <2>1. /\ a \in Seq(Token) /\ Len(a) = k /\ \A i \in 1..k : a[i] = z[i]
    <3>1. \A i \in 1..k : z[i] \in Token
      BY <1>1
    <3> QED BY <1>1, <1>5, <3>1
  <2>2. /\ b \in Seq(Token) /\ Len(b) = k /\ \A i \in 1..k : b[i] = x[i]
    <3>1. \A i \in 1..k : x[i] \in Token
      BY <1>1
    <3> QED BY <1>1, <1>5, <3>1
  <2> HIDE DEF a, b
  <2>3. \A i \in 1..k : a[i] = b[i]
    BY <1>1, <1>5, <2>1, <2>2, SMTT(40)
  <2>4. a = b
    BY <2>1, <2>2, <2>3, SeqEqual
  <2> QED BY <2>4 DEF a, b
<1> QED BY <1>4, <1>5 DEF u

\* Feeding reports nothing.
LEMMA FedKeepsState ==
  ASSUME NEW d, Steady(d), NEW b \in Bit
  PROVE  Fed(d, b).fstate = d.fstate
<1>1. d \in DecoderState
  BY SteadyTypes
<1>2. d.bm \in {"SCAN", "CODE2", "CODE3", "SUF1", "SUF2"}
  BY <1>1 DEF DecoderState
<1>3. Scan(d, b).fstate = d.fstate
  BY <1>1 DEF Scan, Queued, DecoderState
<1>4. CASE d.bm = "SCAN"
  BY <1>3, <1>4 DEF Fed
<1>5. CASE d.bm = "CODE2"
  BY <1>1, <1>5 DEF Fed, DecoderState
<1>6. CASE d.bm = "CODE3"
  BY <1>1, <1>6 DEF Fed, Queued, DecoderState
<1>7. CASE d.bm = "SUF1"
  BY <1>1, <1>7 DEF Fed, DecoderState
<1>8. CASE d.bm = "SUF2"
  BY <1>1, <1>8 DEF Fed, Queued, DecoderState
<1> QED BY <1>2, <1>4, <1>5, <1>6, <1>7, <1>8

-----------------------------------------------------------------------------
(* The frame decoder pipe: the drain, and what it leaves.                  *)

\* A least number with a property.
LEMMA LeastOf ==
  ASSUME NEW S, S \subseteq Nat, S # {}
  PROVE  \E x \in S : \A y \in S : x <= y
<1>1. PICK x \in S : \A y \in S : ~ (<<y, x>> \in Below)
  BY BelowIsWellFounded, WFMin
<1>2. ASSUME NEW y \in S PROVE x <= y
  <2>1. x \in Nat /\ y \in Nat
    OBVIOUS
  <2>2. ~ (y < x)
    BY <1>1, <2>1 DEF Below
  <2> QED BY <2>1, <2>2
<1> QED BY <1>2

\* A drain always has a place to stop.
LEMMA StopExists ==
  ASSUME NEW d, Steady(d), NEW room \in Nat
  PROVE  \E w \in Stops(d, room) : Drain(d, room) =
           [dec |-> Drained(d, w), bits |-> SubSeq(d.out, 1, w)]
<1>1. d.out \in Seq(Token) /\ Len(d.out) \in Nat
  BY DEF Steady, DecoderState
<1> DEFINE T == {n \in 0..Len(d.out) : n = Len(d.out) \/ n = room \/ d.out[n + 1] \in FState}
<1>2. T \subseteq Nat /\ Len(d.out) \in T
  BY <1>1
<1>3. PICK w \in T : \A y \in T : w <= y
  <2> HIDE DEF T
  <2> QED BY <1>2, LeastOf
<1>4. \A i \in 1..w : d.out[i] \notin FState
  <2> SUFFICES ASSUME NEW i \in 1..w, d.out[i] \in FState PROVE FALSE
    OBVIOUS
  <2>1. i - 1 \in 0..Len(d.out) /\ (i - 1) + 1 = i /\ i - 1 < w
    BY <1>1
  <2>2. i - 1 \in T /\ i - 1 \in Int /\ w \in Int
    BY <2>1
  <2> HIDE DEF T
  <2>3. w <= i - 1
    BY <1>3, <2>2
  <2> QED BY <2>1, <2>2, <2>3
<1>5. w <= room
  BY <1>1, <1>3
<1>6. w \in Stops(d, room)
  BY <1>1, <1>3, <1>4, <1>5 DEF Stops
<1> QED BY <1>6 DEF Drain

\* The bits a drain reports, and what it leaves, with the boundary it found
\* behind them or without one.
LEMMA DrainLeaves ==
  ASSUME NEW d, Steady(d), NEW w \in 0..Len(d.out),
         \A i \in 1..w : d.out[i] \notin FState
  PROVE  /\ Steady(Drained(d, w))
         /\ SubSeq(d.out, 1, w) \in Seq(Bit) /\ Len(SubSeq(d.out, 1, w)) = w
         /\ w < Len(d.out) /\ d.out[w + 1] \in FState =>
              /\ Drained(d, w).fstate = d.out[w + 1]
              /\ Drained(d, w).out = SubSeq(d.out, w + 2, Len(d.out))
         /\ ~(w < Len(d.out) /\ d.out[w + 1] \in FState) =>
              /\ Drained(d, w).fstate = d.fstate
              /\ Drained(d, w).out = SubSeq(d.out, w + 1, Len(d.out))
<1>1. PICK t, m, c, u, f, q : Fields(d, t, m, c, u, f, q)
  BY SteadyFields
<1>2. /\ d = [t |-> t, bm |-> m, code |-> c, suf |-> u, fstate |-> f, out |-> q]
      /\ t \in 0..Run /\ c \in 0..3 /\ u \in 0..1 /\ f \in FState
      /\ q \in Seq(Token) /\ Regular(<<f>> \o q) /\ m \in Modes
      /\ m = "CODE2" => c = 0
      /\ m = "CODE3" => c \in 0..1
  BY <1>1 DEF Fields
<1>3. d.out = q /\ d.fstate = f /\ Len(q) \in Nat /\ w \in 0..Len(q)
      /\ \A i \in 1..w : q[i] \notin FState
  BY <1>2
<1>4. SubSeq(q, 1, w) \in Seq(Bit) /\ Len(SubSeq(q, 1, w)) = w
  <2>1. \A i \in 1..w : q[i] \in Bit
    BY <1>2, <1>3 DEF Token
  <2> QED BY <1>2, <1>3, <2>1, SubSeqProperties, SMTT(40)
<1>5. CASE w < Len(q) /\ q[w + 1] \in FState
  <2> DEFINE g == q[w + 1]
             k == w + 1
             v == SubSeq(q, w + 2, Len(q))
  <2>1. /\ w < Len(q) /\ g \in FState
        /\ Drained(d, w) = [t |-> t, bm |-> m, code |-> c, suf |-> u, fstate |-> g, out |-> v]
    BY <1>2, <1>3, <1>5 DEF Drained
  <2>2. Regular(<<g>> \o v)
    BY <1>2, <1>3, <2>1, DropFromWalk
  <2>3. v \in Seq(Token)
    <3>1. k \in 0..Len(q) /\ k + 1 = w + 2
      BY <1>3, <2>1
    <3>2. SubSeq(q, k + 1, Len(q)) \in Seq(Token)
      BY <1>2, <3>1, SuffixItems
    <3> QED BY <3>1, <3>2
  <2>4. Drained(d, w).fstate = g /\ Drained(d, w).out = v
    BY <2>1
  <2> HIDE DEF v
  <2>5. Steady(Drained(d, w))
    <3> HIDE DEF g
    <3>1. Fields(Drained(d, w), t, m, c, u, g, v)
      BY <1>2, <2>1, <2>2, <2>3 DEF Fields
    <3> QED BY <3>1, FieldsSteady
  <2> QED BY <1>3, <1>4, <1>5, <2>4, <2>5 DEF v
<1>6. CASE ~(w < Len(q) /\ q[w + 1] \in FState)
  <2> DEFINE v == SubSeq(q, w + 1, Len(q))
  <2>1. Drained(d, w) = [t |-> t, bm |-> m, code |-> c, suf |-> u, fstate |-> f, out |-> v]
    BY <1>2, <1>3, <1>6 DEF Drained
  <2>2. Regular(<<f>> \o v)
    BY <1>2, <1>3, DropFromWalk
  <2>3. v \in Seq(Token)
    BY <1>2, <1>3, SuffixItems
  <2>4. Drained(d, w).fstate = f /\ Drained(d, w).out = v
    BY <2>1
  <2> HIDE DEF v
  <2>5. Steady(Drained(d, w))
    <3>1. Fields(Drained(d, w), t, m, c, u, f, v)
      BY <1>2, <2>1, <2>2, <2>3 DEF Fields
    <3> QED BY <3>1, FieldsSteady
  <2> QED BY <1>3, <1>4, <1>6, <2>4, <2>5 DEF v
<1> QED BY <1>5, <1>6

LEMMA ReturnsSteady ==
  ASSUME NEW d, Steady(d), NEW room \in Nat, Returns(d, room)
  PROVE  Steady(dec') /\ got' \in Seq(Bit) /\ feeding' = FALSE
<1>1. PICK w \in Stops(d, room) :
        dec' = Drained(d, w) /\ got' = SubSeq(d.out, 1, w) /\ feeding' = FALSE
  BY DEF Returns
<1>2. w \in 0..Len(d.out) /\ \A i \in 1..w : d.out[i] \notin FState
  BY DEF Stops
<1> QED BY <1>1, <1>2, DrainLeaves

-----------------------------------------------------------------------------
(* The frame decoder pipe: the decoder it wraps.                           *)

\* Feeding only adds to the queue.
LEMMA FedGrows ==
  ASSUME NEW d, Steady(d), NEW b \in Bit
  PROVE  \E s \in Seq(Token) : Fed(d, b).out = d.out \o s
<1>1. d \in DecoderState /\ d.out \in Seq(Token)
      /\ d.bm \in {"SCAN", "CODE2", "CODE3", "SUF1", "SUF2"}
  BY DEF Steady, DecoderState
<1>2. <<>> \in Seq(Token) /\ d.out = d.out \o <<>>
  BY <1>1
<1>3. "1" \in Bit /\ "0" \in Bit /\ Seq(Bit) \subseteq Seq(Token)
  BY DEF Bit, Token
<1>4. CASE d.bm = "SCAN"
  <2>1. Fed(d, b) = Scan(d, b)
    BY <1>4 DEF Fed
  <2>2. CASE b = "1" /\ d.t < Run
    <3>1. Fed(d, b).out = d.out
      BY <1>1, <2>1, <2>2 DEF Scan, DecoderState
    <3> QED BY <1>2, <3>1
  <2>3. CASE b = "1" /\ ~(d.t < Run)
    <3>1. Fed(d, b).out = d.out \o <<"1">>
      BY <1>1, <2>1, <2>3 DEF Scan, Queued, DecoderState
    <3>2. <<"1">> \in Seq(Token)
      <4>1. "1" \in Token
        BY <1>3 DEF Token
      <4> QED BY <4>1
    <3> QED BY <3>1, <3>2
  <2>4. CASE b # "1" /\ b = "0" /\ d.t = Run
    <3>1. Fed(d, b).out = d.out
      BY <1>1, <2>1, <2>4 DEF Scan, DecoderState
    <3> QED BY <1>2, <3>1
  <2>5. CASE b # "1" /\ ~(b = "0" /\ d.t = Run)
    <3> DEFINE s == Ones(d.t) \o <<b>>
    <3>1. s \in Seq(Token)
      <4>1. Ones(d.t) \in Seq(Bit) /\ <<b>> \in Seq(Bit)
        BY <1>1, OnesAreBits, FormatAssumption DEF DecoderState
      <4>2. s \in Seq(Bit)
        BY <4>1
      <4> QED BY <1>3, <4>2
    <3> HIDE DEF s
    <3>2. Scan(d, b) = [Queued(d, s) EXCEPT !.t = 0]
      BY <2>5 DEF Scan, s
    <3>3. Fed(d, b).out = d.out \o s
      BY <1>1, <2>1, <3>2 DEF Queued, DecoderState
    <3> QED BY <3>1, <3>3
  <2> QED BY <2>2, <2>3, <2>4, <2>5
<1>5. CASE d.bm = "CODE2"
  <2>1. Fed(d, b).out = d.out
    BY <1>1, <1>5 DEF Fed, DecoderState
  <2> QED BY <1>2, <2>1
<1>6. CASE d.bm = "CODE3"
  <2> DEFINE code == d.code * 2 + Digit(b)
  <2>1. code \in 0..3
    <3>1. d.code \in 0..1 /\ Digit(b) \in 0..1
      BY <1>6 DEF Steady, Digit
    <3> QED BY <3>1
  <2>2. CASE code = 0
    <3>1. Fed(d, b).out = d.out
      BY <1>1, <1>6, <2>2 DEF Fed, DecoderState
    <3> QED BY <1>2, <3>1
  <2>3. CASE code # 0
    <3> DEFINE s == Transitions(code)
    <3>1. s \in Seq(Token)
      BY <2>1, <2>3, TransitionsAreTokens
    <3>2. Fed(d, b) = [Queued(d, s) EXCEPT !.code = code, !.t = 0, !.bm = "SCAN"]
      <4> HIDE DEF s
      <4> QED BY <1>6, <2>3 DEF Fed, s
    <3> HIDE DEF s, code
    <3>3. Fed(d, b).out = d.out \o s
      BY <1>1, <3>2 DEF Queued, DecoderState
    <3> QED BY <3>1, <3>3
  <2> QED BY <2>2, <2>3
<1>7. CASE d.bm = "SUF1"
  <2>1. Fed(d, b).out = d.out
    BY <1>1, <1>7 DEF Fed, DecoderState
  <2> QED BY <1>2, <2>1
<1>8. CASE d.bm = "SUF2"
  <2> DEFINE suffix == d.suf * 2 + Digit(b)
             s == Unescaped(suffix)
  <2>1. s \in Seq(Token)
    <3>1. suffix \in 0..3
      <4>1. d.suf \in 0..1 /\ Digit(b) \in 0..1
        BY <1>1 DEF DecoderState, Digit
      <4> QED BY <4>1
    <3> HIDE DEF suffix
    <3>2. s \in Seq(Bit)
      BY <3>1, UnescapedAreBits
    <3> HIDE DEF s
    <3> QED BY <1>3, <3>2
  <2>2. Fed(d, b) = [Queued(d, s) EXCEPT !.t = 0, !.bm = "SCAN"]
    BY <1>8 DEF Fed
  <2> HIDE DEF s, suffix
  <2>3. Fed(d, b).out = d.out \o s
    BY <1>1, <2>2 DEF Queued, DecoderState
  <2> QED BY <2>1, <2>3
<1> QED BY <1>1, <1>4, <1>5, <1>6, <1>7, <1>8

\* decode()'s loop leaves the frame state to the drain behind it.
LEMMA FedAllKeepsState ==
  ASSUME NEW d, Steady(d), NEW s \in Seq(Bit)
  PROVE  Steady(FedAll(d, s)) /\ FedAll(d, s).fstate = d.fstate
<1> DEFINE P == {u \in Seq(Bit) : Steady(FedAll(d, u)) /\ FedAll(d, u).fstate = d.fstate}
<1>1. <<>> \in P
  <2>1. <<>> \in Seq(Bit) /\ FedAll(d, <<>>) = d
    BY FedNone
  <2> QED BY <2>1
<1>2. ASSUME NEW u \in Seq(Bit), u \in P, NEW b \in Bit PROVE u \o <<b>> \in P
  <2> DEFINE e == FedAll(d, u)
             v == u \o <<b>>
  <2>1. <<b>> \in Seq(Bit) /\ v \in Seq(Bit)
    OBVIOUS
  <2>2. FedAll(d, v) = FedAll(e, <<b>>) /\ Steady(e) /\ e.fstate = d.fstate
    BY <1>2, <2>1, FedJoined
  <2> HIDE DEF e, v
  <2>3. FedAll(d, v) = Fed(e, b)
    BY <2>2, FedOne
  <2>4. Steady(Fed(e, b)) /\ Fed(e, b).fstate = d.fstate
    BY <2>2, FedSteady, FedKeepsState
  <2>5. v \in P
    BY <2>1, <2>3, <2>4
  <2> QED BY <2>5 DEF v
<1> HIDE DEF P
<1>3. Seq(Bit) \subseteq P
  BY <1>1, <1>2, SequenceInduction
<1> QED BY <1>3 DEF P

\* A decoder with nothing queued holds back at most a run and a zero.
LEMMA ClosedIsShort ==
  ASSUME NEW d, Steady(d), d.out = <<>>
  PROVE  /\ Steady(Closed(d)) /\ Closed(d).fstate = d.fstate
         /\ Closed(d).out \in Seq(Bit) /\ Len(Closed(d).out) <= Run + 1
<1>1. d \in DecoderState /\ d.t \in 0..Run /\ Run \in Nat
  BY FormatAssumption DEF Steady, DecoderState
<1>2. PICK z \in Seq(Bit), n \in 0..1 :
        z = (IF d.bm = "CODE2" THEN <<>> ELSE <<"0">>) /\ Len(z) = n
  <2>1. <<"0">> \in Seq(Bit) /\ Len(<<"0">>) = 1 /\ <<>> \in Seq(Bit) /\ Len(<<>>) = 0
    <3>1. "0" \in Bit
      BY DEF Bit
    <3> QED BY <3>1
  <2>2. 0 \in 0..1 /\ 1 \in 0..1
    OBVIOUS
  <2> QED BY <2>1, <2>2, Zenon
<1> DEFINE s == IF d.bm = "SCAN" THEN Ones(d.t) ELSE Ones(Run) \o z
<1>3. Closed(d) = [Queued(d, s) EXCEPT !.t = 0, !.bm = "SCAN"]
  BY <1>2, Zenon DEF Closed
<1>4. s \in Seq(Bit) /\ Len(s) <= Run + 1
  <2>1. /\ Ones(d.t) \in Seq(Bit) /\ Len(Ones(d.t)) = d.t
        /\ Ones(Run) \in Seq(Bit) /\ Len(Ones(Run)) = Run
    BY <1>1, FewOnes
  <2>2. Ones(Run) \o z \in Seq(Bit) /\ Len(Ones(Run) \o z) = Run + n
    BY <1>2, <2>1, JoinedHas
  <2>3. CASE d.bm = "SCAN"
    BY <1>1, <2>1, <2>3
  <2>4. CASE d.bm # "SCAN"
    BY <1>1, <2>2, <2>4
  <2> QED BY <2>3, <2>4
<1> HIDE DEF s
<1>5. <<>> \o s = s
  BY <1>4
<1>6. Closed(d).out = s /\ Closed(d).fstate = d.fstate
  BY <1>1, <1>3, <1>5 DEF Queued, DecoderState
<1> QED BY <1>4, <1>6, ClosedSteady

-----------------------------------------------------------------------------
(* The frame decoder pipe: its invariant.                                  *)

\* After its drain a finalize() finds nothing left to feed or to report.
EdgeEmpty == pc = "edge" => pin = <<>> /\ pdec.out = <<>>

\* A handler compares with the state its step began in until bits come out.
PrevIsState == pc \in {"tick", "drain"} /\ ~wrote => prev = pdec.fstate

\* A tick whose decoder has moved can only find a further boundary.
MovedIsOver ==
  pc = "tick" /\ pdec.fstate # prev =>
    pin = <<>> /\ (pdec.out = <<>> \/ pdec.out[1] \in FState)

PipeInv == PipeTypeOK /\ Steady(pdec) /\ EdgeEmpty /\ PrevIsState /\ MovedIsOver

\* A boundary behind a bit is a momentary one, with the next right behind.
LEMMA BoundaryBehindBit ==
  ASSUME NEW e, Steady(e), NEW w \in 1..Len(e.out), w < Len(e.out),
         e.out[w] \notin FState, e.out[w + 1] \in FState
  PROVE  w + 1 < Len(e.out) /\ e.out[w + 2] \in FState
<1> DEFINE f == e.fstate
           q == e.out
           v == <<f>> \o q
           n == Len(q)
<1>1. f \in FState /\ q \in Seq(Token) /\ n \in Nat /\ Regular(v)
  BY DEF Steady, DecoderState, WalkOf
<1>2. /\ v \in Seq(Token) /\ Len(v) = n + 1
      /\ \A i \in 1..n : v[i + 1] = q[i]
  BY <1>1, WalkItems
<1>3. w \in 1..n /\ w < n /\ q[w] \notin FState /\ q[w + 1] \in FState
  OBVIOUS
<1> HIDE DEF f, q, v, n
<1>4. v[w + 1] = q[w] /\ v[w + 2] = q[w + 1] /\ w + 2 \in 1..Len(v)
  <2>1. w + 1 \in 1..n /\ (w + 1) + 1 = w + 2
    BY <1>1, <1>3
  <2> QED BY <1>1, <1>2, <1>3, <2>1
<1>5. v[w + 2] \notin {"INSIDE", "OUTSIDE"}
  <2>1. w + 2 > 1 /\ (w + 2) - 1 = w + 1 /\ v[w + 1] \notin FState
    BY <1>3, <1>4
  <2> QED BY <1>1, <1>4, <2>1 DEF Regular, FState
<1>6. v[w + 2] \in {"BEGIN", "END"}
  BY <1>3, <1>4, <1>5 DEF FState
<1>7. w + 2 < Len(v) /\ v[(w + 2) + 1] \in FState
  BY <1>1, <1>4, <1>6 DEF Regular, FState
<1>8. w + 2 \in 1..n /\ v[(w + 2) + 1] = q[w + 2]
  BY <1>1, <1>2, <1>3, <1>7
<1> QED BY <1>1, <1>2, <1>3, <1>7, <1>8 DEF q, n

\* The first boundary queued differs from the state reported.
LEMMA FirstMoves ==
  ASSUME NEW e, Steady(e), Len(e.out) > 0, e.out[1] \in FState
  PROVE  e.out[1] # e.fstate
<1> DEFINE v == <<e.fstate>> \o e.out
<1>1. e.fstate \in FState /\ e.out \in Seq(Token) /\ Regular(v) /\ Len(e.out) \in Nat
  BY DEF Steady, DecoderState, WalkOf
<1>2. /\ v \in Seq(Token) /\ Len(v) = Len(e.out) + 1 /\ v[1] = e.fstate
      /\ v[2] = e.out[1]
  <2>1. 1 \in 1..Len(e.out) /\ 1 + 1 = 2
    BY <1>1
  <2> QED BY <1>1, <2>1, WalkItems
<1> HIDE DEF v
<1>3. 1 \in 1..Len(v) /\ 2 \in 1..Len(v) /\ 1 < 2 /\ \A k \in (1 + 1)..(2 - 1) : v[k] \notin FState
  BY <1>1, <1>2
<1> QED BY <1>1, <1>2, <1>3, RegularMoves

\* The room a handler finds.
LEMMA RoomIs ==
  /\ \A room \in Reserve..(Reserve + Slack) : room \in Nat /\ room > 0
  /\ \A room \in EdgeRoom..(EdgeRoom + Slack) : room \in Nat /\ Run + 1 <= room
  BY MarkerPipeAssumption, FormatAssumption

\* What one decode() of a handler does: e is the decoder when all is fed.
CallDid(room, e, w, s) ==
  /\ e = FedAll(pdec, pin) /\ Steady(e) /\ e.fstate = pdec.fstate
  /\ w \in Stops(e, room) /\ s = SubSeq(e.out, 1, w) /\ s \in Seq(Bit) /\ Len(s) = w
  /\ pdec' = Drained(e, w) /\ pout' = pout \o s /\ pin' = <<>> /\ Steady(pdec')
  /\ \/ w = room /\ wrote' = TRUE /\ UNCHANGED <<stalled, pc, prev>>
     \/ w # room /\ Pipe!StepOver(pdec', wrote \/ s # <<>>)

LEMMA CallDoes ==
  ASSUME PipeInv, NEW room \in Nat, Pipe!Call(room)
  PROVE  \E e, w, s : CallDid(room, e, w, s)
<1> DEFINE e == FedAll(pdec, pin)
<1>1. pin \in Seq(Bit) /\ Steady(pdec)
  BY DEF PipeInv, PipeTypeOK
<1>2. Steady(e) /\ e.fstate = pdec.fstate
  BY <1>1, FedAllKeepsState
<1>3. MarkerDecode(pdec, pin, room) = Drain(e, room)
  BY DEF MarkerDecode
<1> HIDE DEF e
<1>4. PICK w \in Stops(e, room) :
        Drain(e, room) = [dec |-> Drained(e, w), bits |-> SubSeq(e.out, 1, w)]
  BY <1>2, StopExists
<1>5. w \in 0..Len(e.out) /\ \A i \in 1..w : e.out[i] \notin FState
  BY DEF Stops
<1> DEFINE s == SubSeq(e.out, 1, w)
<1>6. Steady(Drained(e, w)) /\ s \in Seq(Bit) /\ Len(s) = w
  BY <1>2, <1>5, DrainLeaves
<1> DEFINE r == MarkerDecode(pdec, pin, room)
<1>7. r.dec = Drained(e, w) /\ r.bits = s
  <2>1. r = [dec |-> Drained(e, w), bits |-> s]
    BY <1>3, <1>4
  <2> HIDE DEF r, s
  <2> QED BY <2>1
<1>8. /\ pdec' = r.dec /\ pout' = pout \o r.bits /\ pin' = <<>>
      /\ \/ Len(r.bits) = room /\ wrote' = TRUE /\ UNCHANGED <<stalled, pc, prev>>
         \/ Len(r.bits) # room /\ Pipe!StepOver(r.dec, wrote \/ r.bits # <<>>)
  BY DEF Pipe!Call
<1> HIDE DEF r, s
<1>9. CallDid(room, e, w, s)
  <2>1. \/ w = room /\ wrote' = TRUE /\ UNCHANGED <<stalled, pc, prev>>
        \/ w # room /\ Pipe!StepOver(pdec', wrote \/ s # <<>>)
    BY <1>6, <1>7, <1>8
  <2>2. e = FedAll(pdec, pin) /\ s = SubSeq(e.out, 1, w)
    BY DEF e, s
  <2> QED BY <1>2, <1>6, <1>7, <1>8, <2>1, <2>2 DEF CallDid
<1> QED BY <1>9

\* A decode() of a handler, one step per way it can end.
LEMMA CallKeeps ==
  ASSUME PipeInv, NEW room \in Nat, room > 0, Pipe!Call(room)
  PROVE  PipeInv'
<1>1. PICK e, w, s : CallDid(room, e, w, s)
  BY CallDoes
<1>2. /\ e = FedAll(pdec, pin) /\ Steady(e) /\ e.fstate = pdec.fstate
      /\ w \in Stops(e, room) /\ s \in Seq(Bit) /\ Len(s) = w
      /\ pdec' = Drained(e, w) /\ pout' = pout \o s /\ pin' = <<>> /\ Steady(pdec')
  BY <1>1 DEF CallDid
<1>3. /\ PipeTypeOK /\ Steady(pdec) /\ PrevIsState /\ MovedIsOver
      /\ pc \in {"tick", "drain"}
  BY DEF PipeInv, Pipe!Call
<1>4. /\ w \in 0..Len(e.out) /\ w <= room
      /\ \A i \in 1..w : e.out[i] \notin FState
      /\ w = room \/ w = Len(e.out) \/ e.out[w + 1] \in FState
      /\ e.out \in Seq(Token) /\ Len(e.out) \in Nat
  BY <1>2 DEF Stops, Steady, DecoderState
<1> DEFINE found == w < Len(e.out) /\ e.out[w + 1] \in FState
<1>5. /\ found => /\ pdec'.fstate = e.out[w + 1]
                  /\ pdec'.out = SubSeq(e.out, w + 2, Len(e.out))
      /\ ~found => /\ pdec'.fstate = e.fstate
                   /\ pdec'.out = SubSeq(e.out, w + 1, Len(e.out))
  BY <1>2, <1>4, DrainLeaves
<1>6. /\ pin' \in Seq(Bit) /\ pout' \in Seq(Bit) /\ pdec' \in DecoderState
      /\ pdec'.fstate \in FState
  <2>1. pout \in Seq(Bit) /\ <<>> \in Seq(Bit)
    BY <1>3 DEF PipeTypeOK
  <2>2. pdec' \in DecoderState
    BY <1>2 DEF Steady
  <2> QED BY <1>2, <2>1, <2>2 DEF DecoderState
<1>7. CASE w = room /\ wrote' = TRUE /\ UNCHANGED <<stalled, pc, prev>>
  <2>1. PipeTypeOK' /\ EdgeEmpty' /\ PrevIsState'
    BY <1>3, <1>6, <1>7 DEF PipeTypeOK, EdgeEmpty, PrevIsState
  <2>2. ASSUME pc' = "tick", pdec'.fstate # prev'
        PROVE  pdec'.out = <<>> \/ pdec'.out[1] \in FState
    <3>1. pc = "tick" /\ prev' = prev
      BY <1>7, <2>2
    <3>2. pdec.fstate = prev
      <4> SUFFICES ASSUME pdec.fstate # prev PROVE FALSE
        OBVIOUS
      <4>1. pin = <<>> /\ (pdec.out = <<>> \/ pdec.out[1] \in FState)
        BY <1>3, <3>1 DEF MovedIsOver
      <4>2. e = pdec
        BY <1>2, <1>3, <4>1, FedNone
      <4>3. w = 0
        <5>1. CASE pdec.out = <<>>
          BY <1>4, <4>2, <5>1
        <5>2. CASE pdec.out[1] \in FState
          BY <1>4, <4>2, <5>2
        <5> QED BY <4>1, <5>1, <5>2
      <4> QED BY <1>7, <4>3
    <3>3. found
      BY <1>2, <1>5, <2>2, <3>1, <3>2
    <3>4. w \in 1..Len(e.out) /\ w < Len(e.out) /\ e.out[w] \notin FState
          /\ e.out[w + 1] \in FState
      BY <1>4, <1>7, <3>3
    <3>5. w + 1 < Len(e.out) /\ e.out[w + 2] \in FState
      BY <1>2, <3>4, BoundaryBehindBit
    <3>6. pdec'.out = SubSeq(e.out, w + 2, Len(e.out))
      BY <1>5, <3>3
    <3>7. pdec'.out[1] = e.out[w + 2]
      <4> DEFINE k == w + 1
      <4>1. k \in 0..Len(e.out) /\ k + 1 = w + 2 /\ 1 \in 1..(Len(e.out) - k)
        BY <1>4, <3>5
      <4>2. SubSeq(e.out, k + 1, Len(e.out))[1] = e.out[k + 1]
        BY <1>4, <4>1, SuffixItems
      <4> QED BY <3>6, <4>1, <4>2
    <3> QED BY <3>5, <3>7
  <2>3. MovedIsOver'
    BY <1>2, <2>2 DEF MovedIsOver
  <2> QED BY <1>2, <2>1, <2>3 DEF PipeInv
<1>8. ASSUME Pipe!Idle, stalled' \in BOOLEAN PROVE PipeInv'
  <2>1. pc' = "idle" /\ prev' = "OUTSIDE" /\ wrote' = FALSE
    BY <1>8 DEF Pipe!Idle
  <2>2. PipeTypeOK'
    BY <1>6, <1>8, <2>1 DEF PipeTypeOK, FState
  <2> QED BY <1>2, <2>1, <2>2 DEF PipeInv, EdgeEmpty, PrevIsState, MovedIsOver
<1>9. ASSUME Pipe!StepIn("drain", pdec'), UNCHANGED stalled PROVE PipeInv'
  <2>1. pc' = "drain" /\ prev' = pdec'.fstate /\ wrote' = FALSE
    BY <1>9 DEF Pipe!StepIn, MarkerState
  <2>2. PipeTypeOK'
    BY <1>3, <1>6, <1>9, <2>1 DEF PipeTypeOK
  <2> QED BY <1>2, <2>1, <2>2 DEF PipeInv, EdgeEmpty, PrevIsState, MovedIsOver
<1>10. ASSUME w # room, ~(wrote \/ s # <<>>), pdec'.fstate = prev,
              pc = "drain", pc' = "edge", UNCHANGED <<stalled, prev, wrote>>
       PROVE  PipeInv'
  <2>1. prev = pdec.fstate /\ w = 0
    BY <1>2, <1>3, <1>10 DEF PrevIsState
  <2>2. ~found
    <3> SUFFICES ASSUME found PROVE FALSE
      OBVIOUS
    <3>1. Len(e.out) > 0 /\ e.out[1] \in FState /\ pdec'.fstate = e.out[1]
      BY <1>4, <1>5, <2>1
    <3> QED BY <1>2, <1>10, <2>1, <3>1, FirstMoves
  <2>3. Len(e.out) = 0
    BY <1>4, <1>10, <2>1, <2>2
  <2>4. pdec'.out = <<>>
    <3>1. e.out = <<>>
      BY <1>4, <2>3
    <3>2. pdec'.out = SubSeq(<<>>, 1, 0)
      BY <1>5, <2>1, <2>2, <3>1
    <3> QED BY <3>2
  <2>5. PipeTypeOK'
    BY <1>3, <1>6, <1>10 DEF PipeTypeOK
  <2> QED BY <1>2, <1>10, <2>4, <2>5 DEF PipeInv, EdgeEmpty, PrevIsState, MovedIsOver
<1>11. CASE w # room /\ Pipe!StepOver(pdec', wrote \/ s # <<>>)
  <2> DEFINE moved == pdec'.fstate # prev
  <2>1. \/ pc = "tick" /\ Pipe!Idle /\ stalled' = moved
        \/ pc = "drain" /\ Pipe!StepIn("drain", pdec') /\ UNCHANGED stalled
        \/ pc = "drain" /\ ~((wrote \/ s # <<>>) \/ moved) /\ pc' = "edge"
             /\ UNCHANGED <<stalled, prev, wrote>>
    BY <1>11 DEF Pipe!StepOver, MarkerState
  <2> QED BY <1>8, <1>9, <1>10, <1>11, <2>1
<1> QED BY <1>1, <1>7, <1>11 DEF CallDid

\* What finalize() does when its drain is over.
EdgeDid(s) ==
  /\ s \in Seq(Bit) /\ pout' = pout \o s
  /\ Steady(pdec') /\ pdec'.out = <<>> /\ pdec'.fstate = pdec.fstate

LEMMA EdgeDoes ==
  ASSUME PipeInv, NEW room \in Nat, Run + 1 <= room, Pipe!Edge(room)
  PROVE  \E s : EdgeDid(s)
<1> DEFINE e == Closed(pdec)
           r == MarkerFinish(pdec, room)
<1>1. Steady(pdec) /\ pdec.out = <<>>
  BY DEF PipeInv, EdgeEmpty, Pipe!Edge
<1>2. /\ Steady(e) /\ e.fstate = pdec.fstate
      /\ e.out \in Seq(Bit) /\ Len(e.out) <= Run + 1
  BY <1>1, ClosedIsShort
<1>3. r = Drain(e, room)
  BY DEF MarkerFinish
<1>4. pdec' = r.dec /\ pout' = pout \o r.bits
  BY DEF Pipe!Edge
<1> HIDE DEF e, r
<1>5. PICK w \in Stops(e, room) :
        Drain(e, room) = [dec |-> Drained(e, w), bits |-> SubSeq(e.out, 1, w)]
  BY <1>2, StopExists
<1> DEFINE s == SubSeq(e.out, 1, w)
<1>6. r.dec = Drained(e, w) /\ r.bits = s
  <2>1. r = [dec |-> Drained(e, w), bits |-> s]
    BY <1>3, <1>5
  <2> HIDE DEF s
  <2> QED BY <2>1
<1>7. \A i \in 1..Len(e.out) : e.out[i] \notin FState
  <2> SUFFICES ASSUME NEW i \in 1..Len(e.out) PROVE e.out[i] \notin FState
    OBVIOUS
  <2>1. e.out[i] \in Bit
    BY <1>2
  <2> QED BY <2>1, BitNoState
<1>8. w = Len(e.out) /\ w \in 0..Len(e.out) /\ \A i \in 1..w : e.out[i] \notin FState
  <2>1. /\ w \in 0..Len(e.out) /\ Len(e.out) \in Nat /\ Run \in Nat
        /\ w = room \/ w = Len(e.out) \/ e.out[w + 1] \in FState
    BY <1>2, FormatAssumption DEF Stops
  <2>2. CASE w = room
    BY <1>2, <1>7, <2>1, <2>2
  <2>3. CASE w = Len(e.out)
    BY <1>7, <2>1, <2>3
  <2>4. CASE w # Len(e.out) /\ e.out[w + 1] \in FState
    <3>1. w + 1 \in 1..Len(e.out)
      BY <2>1, <2>4
    <3> QED BY <1>7, <2>4, <3>1
  <2> QED BY <2>1, <2>2, <2>3, <2>4
<1>9. /\ Steady(Drained(e, w)) /\ s \in Seq(Bit)
      /\ Drained(e, w).fstate = e.fstate
      /\ Drained(e, w).out = SubSeq(e.out, w + 1, Len(e.out))
  <2>1. ~(w < Len(e.out) /\ e.out[w + 1] \in FState)
    BY <1>2, <1>8
  <2> QED BY <1>2, <1>8, <2>1, DrainLeaves
<1>10. SubSeq(e.out, w + 1, Len(e.out)) = <<>>
  BY <1>2, <1>8
<1> HIDE DEF s
<1>11. EdgeDid(s)
  BY <1>2, <1>4, <1>6, <1>9, <1>10 DEF EdgeDid
<1> QED BY <1>11

LEMMA PipeInitInv ==
  ASSUME Pipe!Init
  PROVE  PipeInv
<1>1. /\ pin = <<>> /\ pout = <<>> /\ pdec = FreshDecoder
      /\ stalled = FALSE /\ pc = "idle" /\ prev = "OUTSIDE" /\ wrote = FALSE
  BY DEF Pipe!Init
<1>2. Steady(pdec)
  BY <1>1, FreshSteady
<1>3. PipeTypeOK
  <2>1. <<>> \in Seq(Bit) /\ pdec \in DecoderState /\ "OUTSIDE" \in FState
    BY <1>2 DEF Steady, FState
  <2> QED BY <1>1, <2>1 DEF PipeTypeOK
<1> QED BY <1>1, <1>2, <1>3 DEF PipeInv, EdgeEmpty, PrevIsState, MovedIsOver

\* One step per action of FramePipe.
LEMMA PipeNextInv ==
  ASSUME PipeInv, [Pipe!Next]_pipevars
  PROVE  PipeInv'
<1>1. /\ PipeTypeOK /\ Steady(pdec) /\ EdgeEmpty /\ PrevIsState /\ MovedIsOver
      /\ pin \in Seq(Bit) /\ pout \in Seq(Bit) /\ pdec \in DecoderState
      /\ pdec.fstate \in FState
  BY DEF PipeInv, PipeTypeOK, DecoderState
<1>2. ASSUME NEW b \in Bit, Pipe!Push(b) PROVE PipeInv'
  <2>1. /\ pc = "idle" /\ pin' = Append(pin, b)
        /\ UNCHANGED <<pout, pdec, stalled, pc, prev, wrote>>
    BY <1>2 DEF Pipe!Push
  <2>2. pin' \in Seq(Bit)
    BY <1>1, <2>1
  <2> QED BY <1>1, <2>1, <2>2
        DEF PipeInv, PipeTypeOK, EdgeEmpty, PrevIsState, MovedIsOver
<1>3. ASSUME NEW n \in 1..Len(pout), Pipe!Pull(n) PROVE PipeInv'
  <2>1. /\ pc = "idle" /\ pout' = SubSeq(pout, n + 1, Len(pout))
        /\ UNCHANGED <<pin, pdec, stalled, pc, prev, wrote>>
    BY <1>3 DEF Pipe!Pull
  <2>2. pout' \in Seq(Bit)
    BY <1>1, <2>1
  <2> QED BY <1>1, <2>1, <2>2
        DEF PipeInv, PipeTypeOK, EdgeEmpty, PrevIsState, MovedIsOver
<1>4. ASSUME Pipe!Tick \/ Pipe!Finalize PROVE PipeInv'
  <2>1. /\ pc' \in {"tick", "drain"} /\ prev' = pdec.fstate /\ wrote' = FALSE
        /\ stalled' \in BOOLEAN /\ UNCHANGED <<pin, pout, pdec>>
    BY <1>1, <1>4 DEF Pipe!Tick, Pipe!Finalize, Pipe!StepIn, MarkerState, PipeTypeOK
  <2> QED BY <1>1, <2>1
        DEF PipeInv, PipeTypeOK, EdgeEmpty, PrevIsState, MovedIsOver
<1>5. ASSUME Pipe!Advance PROVE PipeInv'
  <2>1. pc = "idle" /\ stalled' = FALSE /\ UNCHANGED <<pin, pout, pdec, pc, prev, wrote>>
    BY <1>5 DEF Pipe!Advance
  <2> QED BY <1>1, <2>1
        DEF PipeInv, PipeTypeOK, EdgeEmpty, PrevIsState, MovedIsOver
<1>6. ASSUME NEW room \in Reserve..(Reserve + Slack), Pipe!Call(room) PROVE PipeInv'
  BY <1>6, RoomIs, CallKeeps
<1>7. ASSUME NEW room \in EdgeRoom..(EdgeRoom + Slack), Pipe!Edge(room) PROVE PipeInv'
  <2>1. PICK s : EdgeDid(s)
    BY <1>7, RoomIs, EdgeDoes
  <2>2. s \in Seq(Bit) /\ pout' = pout \o s /\ Steady(pdec')
    BY <2>1 DEF EdgeDid
  <2>3. /\ pc' = "idle" /\ prev' = "OUTSIDE" /\ wrote' = FALSE
        /\ UNCHANGED <<pin, stalled>>
    BY <1>7 DEF Pipe!Edge, Pipe!Idle
  <2>4. PipeTypeOK'
    <3>1. pout' \in Seq(Bit)
      BY <1>1, <2>2
    <3>2. pdec' \in DecoderState /\ "OUTSIDE" \in FState
      BY <2>2 DEF Steady, FState
    <3> QED BY <1>1, <2>3, <3>1, <3>2 DEF PipeTypeOK
  <2> QED BY <2>2, <2>3, <2>4 DEF PipeInv, EdgeEmpty, PrevIsState, MovedIsOver
<1>8. ASSUME Pipe!NoMemory PROVE PipeInv'
  <2>1. /\ pc' = "idle" /\ prev' = "OUTSIDE" /\ wrote' = FALSE
        /\ UNCHANGED <<pin, pout, pdec, stalled>>
    BY <1>8 DEF Pipe!NoMemory, Pipe!Idle
  <2> QED BY <1>1, <2>1
        DEF PipeInv, PipeTypeOK, EdgeEmpty, PrevIsState, MovedIsOver, FState
<1>9. CASE UNCHANGED pipevars
  BY <1>1, <1>9
     DEF pipevars, PipeInv, PipeTypeOK, EdgeEmpty, PrevIsState, MovedIsOver
<1>10. CASE Pipe!Next
  BY <1>2, <1>3, <1>4, <1>5, <1>6, <1>7, <1>8, <1>10 DEF Pipe!Next
<1> QED BY <1>9, <1>10

\* A joined sequence extends its front.
LEMMA JoinExtends ==
  ASSUME NEW S, NEW x \in Seq(S), NEW y \in Seq(S)
  PROVE  Len(x \o y) >= Len(x) /\ SubSeq(x \o y, 1, Len(x)) = x
<1> DEFINE z == x \o y
           m == Len(x)
           v == SubSeq(z, 1, m)
<1>1. z \in Seq(S) /\ m \in Nat /\ Len(z) >= m /\ \A i \in 1..m : z[i] = x[i]
  OBVIOUS
<1> HIDE DEF z
<1>2. v \in Seq(S) /\ Len(v) = m /\ \A i \in 1..m : v[i] = z[i]
  BY <1>1
<1> HIDE DEF v
<1>3. v = x
  BY <1>1, <1>2, SeqEqual
<1> QED BY <1>1, <1>3 DEF v, z

\* A received symbol only adds to what is not yet copied.
LEMMA PushReads ==
  ASSUME PipeInv, NEW b \in Bit, Pipe!Push(b)
  PROVE  Reader!Receive
<1>1. /\ pin \in Seq(Bit) /\ Steady(pdec)
      /\ pin' = Append(pin, b) /\ UNCHANGED <<pout, pdec>>
  BY DEF PipeInv, PipeTypeOK, Pipe!Push
<1> DEFINE e == FedAll(pdec, pin)
<1>2. Steady(e)
  BY <1>1, FedAllKeepsState
<1>3. FedAll(pdec', pin') = Fed(e, b)
  <2>1. <<b>> \in Seq(Bit) /\ pin' = pin \o <<b>>
    BY <1>1
  <2>2. FedAll(pdec, pin \o <<b>>) = FedAll(e, <<b>>)
    BY <1>1, <2>1, FedJoined
  <2>3. FedAll(e, <<b>>) = Fed(e, b)
    <3> HIDE DEF e
    <3> QED BY <1>2, FedOne
  <2> QED BY <1>1, <2>1, <2>2, <2>3
<1>4. Unread = e.out /\ Unread' = Fed(e, b).out
  BY <1>3 DEF Unread
<1> HIDE DEF e
<1>5. PICK s \in Seq(Token) : Fed(e, b).out = e.out \o s
  BY <1>2, FedGrows
<1>6. e.out \in Seq(Token) /\ Len(e.out) \in Nat
  BY <1>2 DEF Steady, DecoderState
<1>7. Reader!Extends(Unread', Unread)
  BY <1>4, <1>5, <1>6, JoinExtends DEF Reader!Extends
<1> QED BY <1>1, <1>7 DEF Reader!Receive

\* A decode() copies a run of bits, and takes the boundary found behind it.
LEMMA CallReads ==
  ASSUME PipeInv, NEW room \in Nat, Pipe!Call(room)
  PROVE  \E k \in 0..Len(Unread) : Reader!Copy(k) \/ Reader!CopyUpTo(k)
<1>1. PICK e, w, s : CallDid(room, e, w, s)
  BY CallDoes
<1>2. /\ e = FedAll(pdec, pin) /\ Steady(e) /\ e.fstate = pdec.fstate
      /\ w \in Stops(e, room) /\ s = SubSeq(e.out, 1, w)
      /\ pdec' = Drained(e, w) /\ pout' = pout \o s /\ pin' = <<>> /\ Steady(pdec')
  BY <1>1 DEF CallDid
<1>3. /\ w \in 0..Len(e.out) /\ \A i \in 1..w : e.out[i] \notin FState
  BY <1>2 DEF Stops
<1>4. Unread = e.out
  BY <1>2 DEF Unread
<1>5. Unread' = pdec'.out
  BY <1>2, FedNone DEF Unread
<1>6. Reader!Boundary = FState
  BY DEF Reader!Boundary, FState
<1>7. Reader!CopyRun(w)
  BY <1>2, <1>3, <1>4, <1>6 DEF Reader!CopyRun
<1>8. CASE w < Len(e.out) /\ e.out[w + 1] \in FState
  <2>1. /\ pdec'.fstate = e.out[w + 1]
        /\ pdec'.out = SubSeq(e.out, w + 2, Len(e.out))
    BY <1>2, <1>3, <1>8, DrainLeaves
  <2>2. Reader!CopyUpTo(w)
    BY <1>4, <1>5, <1>6, <1>7, <1>8, <2>1 DEF Reader!CopyUpTo
  <2> QED BY <1>3, <1>4, <2>2
<1>9. CASE ~(w < Len(e.out) /\ e.out[w + 1] \in FState)
  <2>1. /\ pdec'.fstate = e.fstate
        /\ pdec'.out = SubSeq(e.out, w + 1, Len(e.out))
    BY <1>2, <1>3, <1>9, DrainLeaves
  <2>2. Reader!Copy(w)
    BY <1>2, <1>4, <1>5, <1>7, <2>1 DEF Reader!Copy
  <2> QED BY <1>3, <1>4, <2>2
<1> QED BY <1>8, <1>9

\* The end of the stream gives up what the decoder held back, all else copied.
LEMMA EdgeReads ==
  ASSUME PipeInv, NEW room \in Nat, Run + 1 <= room, Pipe!Edge(room)
  PROVE  Reader!Flush
<1>1. PICK s : EdgeDid(s)
  BY EdgeDoes
<1>2. /\ s \in Seq(Bit) /\ pout' = pout \o s
      /\ Steady(pdec') /\ pdec'.out = <<>> /\ pdec'.fstate = pdec.fstate
  BY <1>1 DEF EdgeDid
<1>3. pin = <<>> /\ pin' = <<>> /\ pdec.out = <<>> /\ Steady(pdec) /\ pout \in Seq(Bit)
  BY DEF PipeInv, PipeTypeOK, EdgeEmpty, Pipe!Edge
<1>4. Unread = <<>> /\ Unread' = <<>>
  BY <1>2, <1>3, FedNone DEF Unread
<1>5. Reader!Extends(pout', pout)
  BY <1>2, <1>3, JoinExtends DEF Reader!Extends
<1> QED BY <1>2, <1>4, <1>5 DEF Reader!Flush

-----------------------------------------------------------------------------
(* The soft decoder follows the hard one.  Its state, read symbol by       *)
(* symbol as a hardening pipe reads it, is one of the hard decoder's.      *)

\* What the soft decoder and a hardening pipe must agree on: a record is read
\* as one of the symbols, and none favours true and false alike - where the two
\* disagree, see SameStructure.
SoftConstants ==
  /\ SoftRoom \in Nat /\ Records \subseteq [1..5 -> Nat]
  /\ \A r \in Records : Classified(r) \in Bit
  /\ \A r \in Records : r[1] # r[2] \/ \E j \in 3..5 : r[j] > r[2]

HeldOnes == {r \in Records : Hardened(r) = "1"}
SoftRecord == Records \cup {SoftOne, SoftZero}
SoftItem == {Data(r) : r \in SoftRecord} \cup {State(s) : s \in FState}

HardItem(x)  == IF x.kind = "data" THEN Hardened(x.is) ELSE x.is
HardQueue(q) == [i \in DOMAIN q |-> HardItem(q[i])]
HardAll(s)   == [i \in DOMAIN s |-> Hardened(s[i])]

SoftParts(h, m, c, u, f, q) ==
  [hold |-> h, bm |-> m, code |-> c, suf |-> u, fstate |-> f, out |-> q]

HardParts(n, m, c, u, f, q) ==
  [t |-> n, bm |-> m, code |-> c, suf |-> u, fstate |-> f, out |-> q]

\* The soft decoder's state as the hard decoder's.
HardOf(d) == HardParts(Len(d.hold), d.bm, d.code, d.suf, d.fstate, HardQueue(d.out))

\* A soft decoder's state with the parts given: it holds ones only, a run at most.
SoftHas(d, h, m, c, u, f, q) ==
  /\ d = SoftParts(h, m, c, u, f, q)
  /\ h \in Seq(HeldOnes) /\ Len(h) <= Run
  /\ m \in Modes /\ c \in 0..3 /\ u \in 0..1 /\ f \in FState /\ q \in Seq(SoftItem)
  /\ m = "CODE2" => c = 0
  /\ m = "CODE3" => c \in 0..1

Held(d) == \E h, m, c, u, f, q : SoftHas(d, h, m, c, u, f, q)

\* A record that is no tie hardens to the symbol it is read as.
LEMMA HardenedIsRead ==
  ASSUME SoftConstants, NEW r \in Records
  PROVE  Hardened(r) = Classified(r) /\ Hardened(r) \in Bit
<1>1. r[1] \in Nat /\ r[2] \in Nat /\ \A j \in 3..5 : r[j] \in Nat
  BY DEF SoftConstants
<1>2. ~ (r[2] = r[1] /\ \A j \in 3..5 : r[j] <= r[2])
  BY <1>1 DEF SoftConstants
<1> QED BY <1>2 DEF Hardened, SoftConstants

\* The records that stand for an escape.
LEMMA MadeHardened ==
  Hardened(SoftOne) = "1" /\ Hardened(SoftZero) = "0"
<1>1. PICK o : o = SoftOne
  OBVIOUS
<1>2. o[1] = 0 /\ o[2] = 2 /\ o[3] = 0 /\ o[4] = 0 /\ o[5] = 0
  BY <1>1 DEF SoftOne
<1>3. Classified(o) = "1"
  <2> DEFINE P(i) == \A j \in 1..5 : o[j] < o[i] \/ (o[j] = o[i] /\ i <= j)
  <2>1. P(2) /\ 2 \in 1..5
    BY <1>2
  <2>2. \A i \in 1..5 : P(i) => i = 2
    BY <1>2
  <2>3. (CHOOSE i \in 1..5 : P(i)) = 2
    <3> HIDE DEF P
    <3> QED BY <2>1, <2>2
  <2>4. Classified(o) = Symbols[CHOOSE i \in 1..5 : P(i)]
    BY DEF Classified
  <2> HIDE DEF P
  <2>5. Symbols[2] = "1"
    BY DEF Symbols
  <2> QED BY <2>3, <2>4, <2>5
<1>4. Hardened(o) = "1"
  BY <1>2, <1>3 DEF Hardened
<1>5. PICK z : z = SoftZero
  OBVIOUS
<1>6. z[1] = 2 /\ z[2] = 0 /\ z[3] = 0 /\ z[4] = 0 /\ z[5] = 0
  BY <1>5 DEF SoftZero
<1>7. Classified(z) = "0"
  <2> DEFINE P(i) == \A j \in 1..5 : z[j] < z[i] \/ (z[j] = z[i] /\ i <= j)
  <2>1. P(1) /\ 1 \in 1..5
    BY <1>6
  <2>2. \A i \in 1..5 : P(i) => i = 1
    BY <1>6
  <2>3. (CHOOSE i \in 1..5 : P(i)) = 1
    <3> HIDE DEF P
    <3> QED BY <2>1, <2>2
  <2>4. Classified(z) = Symbols[CHOOSE i \in 1..5 : P(i)]
    BY DEF Classified
  <2> HIDE DEF P
  <2>5. Symbols[1] = "0"
    BY DEF Symbols
  <2> QED BY <2>3, <2>4, <2>5
<1>8. Hardened(z) = "0"
  BY <1>6, <1>7 DEF Hardened
<1> QED BY <1>1, <1>4, <1>5, <1>8

\* An item of the queue, as it hardens.
LEMMA HardItems ==
  ASSUME SoftConstants
  PROVE  /\ \A r \in SoftRecord : Data(r) \in SoftItem /\ Data(r).kind = "data" /\ Data(r).is = r
                                  /\ HardItem(Data(r)) = Hardened(r) /\ Hardened(r) \in Bit
         /\ \A s \in FState : State(s) \in SoftItem /\ State(s).kind = "state" /\ State(s).is = s
                              /\ HardItem(State(s)) = s
         /\ \A x \in SoftItem : /\ HardItem(x) \in Token /\ x.kind \in {"data", "state"}
                                /\ x.kind = "data" => HardItem(x) = Hardened(x.is) /\ HardItem(x) \notin FState
                                                      /\ x.is \in SoftRecord
                                /\ x.kind = "state" => HardItem(x) = x.is /\ x.is \in FState
<1>1. \A r \in SoftRecord : Hardened(r) \in Bit
  BY HardenedIsRead, MadeHardened DEF SoftRecord, Bit
<1>2. \A r \in SoftRecord : Data(r) \in SoftItem /\ Data(r).kind = "data" /\ Data(r).is = r
                            /\ HardItem(Data(r)) = Hardened(r)
  BY DEF SoftItem, Data, HardItem
<1>3. \A s \in FState : State(s) \in SoftItem /\ State(s).kind = "state" /\ State(s).is = s
                        /\ HardItem(State(s)) = s
  BY DEF SoftItem, State, HardItem
<1>4. \A x \in SoftItem : (\E r \in SoftRecord : x = Data(r)) \/ (\E s \in FState : x = State(s))
  BY DEF SoftItem
<1>5. \A r \in SoftRecord : Hardened(r) \notin FState
  BY <1>1, BitNoState
<1>6. ASSUME NEW x \in SoftItem
      PROVE  /\ HardItem(x) \in Token /\ x.kind \in {"data", "state"}
             /\ x.kind = "data" => HardItem(x) = Hardened(x.is) /\ HardItem(x) \notin FState
                                   /\ x.is \in SoftRecord
             /\ x.kind = "state" => HardItem(x) = x.is /\ x.is \in FState
  <2>1. CASE \E r \in SoftRecord : x = Data(r)
    BY <1>1, <1>2, <1>5, <2>1 DEF Token
  <2>2. CASE \E s \in FState : x = State(s)
    BY <1>3, <2>2 DEF Token
  <2> QED BY <1>4, <2>1, <2>2
<1> QED BY <1>1, <1>2, <1>3, <1>6

\* A queue hardens piece by piece.
LEMMA HardQueueIs ==
  ASSUME SoftConstants, NEW q \in Seq(SoftItem)
  PROVE  /\ HardQueue(q) \in Seq(Token) /\ Len(HardQueue(q)) = Len(q)
         /\ \A i \in 1..Len(q) : HardQueue(q)[i] = HardItem(q[i])
<1>1. \A i \in 1..Len(q) : HardItem(q[i]) \in Token
  BY HardItems
<1> QED BY <1>1 DEF HardQueue

LEMMA HardQueueJoins ==
  ASSUME SoftConstants, NEW a \in Seq(SoftItem), NEW b \in Seq(SoftItem)
  PROVE  a \o b \in Seq(SoftItem) /\ HardQueue(a \o b) = HardQueue(a) \o HardQueue(b)
<1> DEFINE c == a \o b
           x == HardQueue(a)
           y == HardQueue(b)
           z == HardQueue(c)
<1>1. /\ c \in Seq(SoftItem) /\ Len(c) = Len(a) + Len(b)
      /\ \A i \in 1..Len(a) : c[i] = a[i]
      /\ \A i \in 1..Len(b) : c[Len(a) + i] = b[i]
  BY JoinedHas
<1>2. Len(a) \in Nat /\ Len(b) \in Nat
  OBVIOUS
<1> HIDE DEF c
<1>3. /\ x \in Seq(Token) /\ Len(x) = Len(a) /\ \A i \in 1..Len(a) : x[i] = HardItem(a[i])
      /\ y \in Seq(Token) /\ Len(y) = Len(b) /\ \A i \in 1..Len(b) : y[i] = HardItem(b[i])
      /\ z \in Seq(Token) /\ Len(z) = Len(c) /\ \A i \in 1..Len(c) : z[i] = HardItem(c[i])
  BY <1>1, HardQueueIs
<1> HIDE DEF x, y, z
<1>4. \A i \in 1..Len(x) : z[i] = x[i]
  BY <1>1, <1>2, <1>3
<1>5. \A i \in 1..Len(y) : z[Len(x) + i] = y[i]
  <2> SUFFICES ASSUME NEW i \in 1..Len(b) PROVE z[Len(a) + i] = y[i]
    BY <1>3
  <2>1. Len(a) + i \in 1..Len(c)
    BY <1>1, <1>2
  <2> QED BY <1>1, <1>3, <2>1
<1>6. z = x \o y
  <2>1. Len(z) = Len(x) + Len(y)
    BY <1>1, <1>3
  <2>2. x \in Seq(Token) /\ y \in Seq(Token) /\ z \in Seq(Token)
    BY <1>1, <1>3
  <2> QED BY <1>4, <1>5, <2>1, <2>2, JoinedIs
<1> QED BY <1>1, <1>6 DEF x, y, z, c

LEMMA HardQueueCut ==
  ASSUME SoftConstants, NEW q \in Seq(SoftItem), NEW m \in Nat, m >= 1, NEW n \in 0..Len(q)
  PROVE  SubSeq(q, m, n) \in Seq(SoftItem) /\ HardQueue(SubSeq(q, m, n)) = SubSeq(HardQueue(q), m, n)
<1> DEFINE s == SubSeq(q, m, n)
           x == HardQueue(q)
           y == HardQueue(s)
           z == SubSeq(x, m, n)
<1>1. Len(q) \in Nat /\ n \in Nat
  OBVIOUS
<1>2. x \in Seq(Token) /\ Len(x) = Len(q) /\ \A i \in 1..Len(q) : x[i] = HardItem(q[i])
  BY HardQueueIs
<1> HIDE DEF x
<1>3. /\ s \in Seq(SoftItem) /\ Len(s) = (IF m <= n THEN n - m + 1 ELSE 0)
      /\ \A i \in 1..Len(s) : s[i] = q[m + i - 1]
  OBVIOUS
<1>4. /\ z \in Seq(Token) /\ Len(z) = (IF m <= n THEN n - m + 1 ELSE 0)
      /\ \A i \in 1..Len(z) : z[i] = x[m + i - 1]
  BY <1>1, <1>2
<1> HIDE DEF s, z
<1>5. y \in Seq(Token) /\ Len(y) = Len(s) /\ \A i \in 1..Len(s) : y[i] = HardItem(s[i])
  BY <1>3, HardQueueIs
<1> HIDE DEF y
<1>6. ASSUME NEW i \in 1..Len(y) PROVE y[i] = z[i]
  <2>1. i \in 1..Len(s) /\ i \in 1..Len(z)
    BY <1>3, <1>4, <1>5
  <2>2. m + i - 1 \in 1..Len(q)
    BY <1>1, <1>3, <2>1
  <2> QED BY <1>2, <1>3, <1>4, <1>5, <2>1, <2>2
<1>7. y = z
  BY <1>3, <1>4, <1>5, <1>6, SeqEqual
<1> QED BY <1>3, <1>7 DEF y, z, s, x

\* Records behind one another.
LEMMA AllDataIs ==
  ASSUME SoftConstants, NEW s \in Seq(SoftRecord)
  PROVE  /\ AllData(s) \in Seq(SoftItem) /\ Len(AllData(s)) = Len(s)
         /\ \A i \in 1..Len(s) : AllData(s)[i] = Data(s[i])
         /\ HardQueue(AllData(s)) = HardAll(s)
<1>1. \A i \in 1..Len(s) : Data(s[i]) \in SoftItem
  BY HardItems
<1>2. /\ AllData(s) \in Seq(SoftItem) /\ Len(AllData(s)) = Len(s)
      /\ \A i \in 1..Len(s) : AllData(s)[i] = Data(s[i])
  BY <1>1 DEF AllData
<1>3. \A i \in 1..Len(s) : HardItem(Data(s[i])) = Hardened(s[i])
  BY HardItems
<1>4. DOMAIN AllData(s) = 1..Len(s) /\ DOMAIN s = 1..Len(s)
  BY DEF AllData
<1>5. HardQueue(AllData(s)) = [i \in 1..Len(s) |-> HardItem(AllData(s)[i])]
  BY <1>4 DEF HardQueue
<1>6. HardQueue(AllData(s)) = [i \in 1..Len(s) |-> Hardened(s[i])]
  BY <1>2, <1>3, <1>5
<1> QED BY <1>2, <1>4, <1>6 DEF HardAll

LEMMA AllDataJoins ==
  ASSUME SoftConstants, NEW a \in Seq(SoftRecord), NEW b \in Seq(SoftRecord)
  PROVE  AllData(a \o b) = AllData(a) \o AllData(b) /\ HardAll(a \o b) = HardAll(a) \o HardAll(b)
<1> DEFINE c == a \o b
           x == AllData(a)
           y == AllData(b)
           z == AllData(c)
<1>1. /\ c \in Seq(SoftRecord) /\ Len(c) = Len(a) + Len(b)
      /\ \A i \in 1..Len(a) : c[i] = a[i]
      /\ \A i \in 1..Len(b) : c[Len(a) + i] = b[i]
  BY JoinedHas
<1>2. Len(a) \in Nat /\ Len(b) \in Nat
  OBVIOUS
<1> HIDE DEF c
<1>3. /\ x \in Seq(SoftItem) /\ Len(x) = Len(a) /\ \A i \in 1..Len(a) : x[i] = Data(a[i])
      /\ y \in Seq(SoftItem) /\ Len(y) = Len(b) /\ \A i \in 1..Len(b) : y[i] = Data(b[i])
      /\ z \in Seq(SoftItem) /\ Len(z) = Len(c) /\ \A i \in 1..Len(c) : z[i] = Data(c[i])
      /\ HardQueue(x) = HardAll(a) /\ HardQueue(y) = HardAll(b) /\ HardQueue(z) = HardAll(c)
  BY <1>1, AllDataIs
<1> HIDE DEF x, y, z
<1>4. \A i \in 1..Len(x) : z[i] = x[i]
  BY <1>1, <1>2, <1>3
<1>5. \A i \in 1..Len(y) : z[Len(x) + i] = y[i]
  <2> SUFFICES ASSUME NEW i \in 1..Len(b) PROVE z[Len(a) + i] = y[i]
    BY <1>3
  <2>1. Len(a) + i \in 1..Len(c)
    BY <1>1, <1>2
  <2> QED BY <1>1, <1>3, <2>1
<1>6. z = x \o y
  <2>1. Len(z) = Len(x) + Len(y)
    BY <1>1, <1>3
  <2>2. x \in Seq(SoftItem) /\ y \in Seq(SoftItem) /\ z \in Seq(SoftItem)
    BY <1>1, <1>3
  <2> QED BY <1>4, <1>5, <2>1, <2>2, JoinedIs
<1>7. HardQueue(z) = HardQueue(x) \o HardQueue(y)
  BY <1>3, <1>6, HardQueueJoins
<1> QED BY <1>3, <1>6, <1>7 DEF x, y, z, c

\* Held records are ones.
LEMMA HeldHarden ==
  ASSUME SoftConstants, NEW h \in Seq(HeldOnes)
  PROVE  h \in Seq(SoftRecord) /\ Len(h) \in Nat /\ HardAll(h) = Ones(Len(h))
<1>1. HeldOnes \subseteq SoftRecord /\ \A r \in HeldOnes : Hardened(r) = "1"
  BY DEF HeldOnes, SoftRecord
<1>2. h \in Seq(SoftRecord)
  BY <1>1
<1>3. \A i \in 1..Len(h) : Hardened(h[i]) = "1"
  BY <1>1
<1>4. HardAll(h) = [i \in 1..Len(h) |-> "1"]
  BY <1>3 DEF HardAll
<1> QED BY <1>2, <1>4 DEF Ones

\* What an escape is made up as, and the transitions a code announces.
LEMMA MadeUpHardens ==
  ASSUME SoftConstants, NEW x \in 0..3
  PROVE  MadeUp(x) \in Seq(SoftRecord) /\ HardAll(MadeUp(x)) = Unescaped(x)
<1> DEFINE a == IF x >= 2 THEN SoftOne ELSE SoftZero
           b == IF x % 2 = 1 THEN SoftOne ELSE SoftZero
           s == <<SoftZero, a, b>>
<1>1. SoftOne \in SoftRecord /\ SoftZero \in SoftRecord
  BY DEF SoftRecord
<1>2. MadeOnes \in Seq(SoftRecord) /\ HardAll(MadeOnes) = Ones(Run)
  <2>1. Run \in Nat
    BY FormatAssumption
  <2>2. MadeOnes \in Seq(SoftRecord) /\ DOMAIN MadeOnes = 1..Run
        /\ \A i \in 1..Run : MadeOnes[i] = SoftOne
    BY <1>1, <2>1 DEF MadeOnes
  <2>3. HardAll(MadeOnes) = [i \in 1..Run |-> "1"]
    BY <2>2, MadeHardened DEF HardAll
  <2> QED BY <2>2, <2>3 DEF Ones
<1>3. CASE x = 0
  <2>1. MadeUp(x) = MadeOnes \o <<>> /\ Unescaped(x) = Ones(Run) \o <<>>
    BY <1>3 DEF MadeUp, Unescaped
  <2>2. HardAll(<<>>) = <<>> /\ <<>> \in Seq(SoftRecord)
    BY DEF HardAll
  <2> QED BY <1>2, <2>1, <2>2, AllDataJoins, JoinedHas
<1>4. CASE x # 0
  <2>1. MadeUp(x) = MadeOnes \o s
    BY <1>4 DEF MadeUp
  <2>2. Unescaped(x) = Ones(Run) \o <<"0", Sym(x \div 2), Sym(x % 2)>>
    BY <1>4 DEF Unescaped
  <2>3. a \in SoftRecord /\ b \in SoftRecord /\ Hardened(a) = Sym(x \div 2) /\ Hardened(b) = Sym(x % 2)
    <3>1. CASE x = 1
      <4>1. x \div 2 = 0 /\ x % 2 = 1
        BY <3>1
      <4> QED BY <1>1, <3>1, <4>1, MadeHardened DEF Sym
    <3>2. CASE x = 2
      <4>1. x \div 2 = 1 /\ x % 2 = 0
        BY <3>2
      <4> QED BY <1>1, <3>2, <4>1, MadeHardened DEF Sym
    <3>3. CASE x = 3
      <4>1. x \div 2 = 1 /\ x % 2 = 1
        BY <3>3
      <4> QED BY <1>1, <3>3, <4>1, MadeHardened DEF Sym
    <3> QED BY <1>4, <3>1, <3>2, <3>3
  <2> HIDE DEF a, b
  <2>4. s \in Seq(SoftRecord) /\ DOMAIN s = 1..3 /\ s[1] = SoftZero /\ s[2] = a /\ s[3] = b
    BY <1>1, <2>3
  <2>5. HardAll(s) = <<"0", Sym(x \div 2), Sym(x % 2)>>
    <3>1. HardAll(s) = [i \in 1..3 |-> Hardened(s[i])]
      BY <2>4 DEF HardAll
    <3>2. Hardened(s[1]) = "0" /\ Hardened(s[2]) = Sym(x \div 2) /\ Hardened(s[3]) = Sym(x % 2)
      BY <2>3, <2>4, MadeHardened
    <3> HIDE DEF s
    <3> QED BY <3>1, <3>2
  <2> HIDE DEF s
  <2> QED BY <1>2, <2>1, <2>2, <2>4, <2>5, AllDataJoins, JoinedHas
<1> QED BY <1>3, <1>4

LEMMA AnnouncedHardens ==
  ASSUME SoftConstants, NEW x \in 1..3
  PROVE  Announced(x) \in Seq(SoftItem) /\ HardQueue(Announced(x)) = Transitions(x)
<1>1. \A s \in FState : State(s) \in SoftItem /\ HardItem(State(s)) = s
  BY HardItems
<1>2. "OUTSIDE" \in FState /\ "BEGIN" \in FState /\ "INSIDE" \in FState /\ "END" \in FState
  BY DEF FState
<1>3. ASSUME NEW s \in FState, NEW t \in FState
      PROVE  <<State(s), State(t)>> \in Seq(SoftItem)
             /\ HardQueue(<<State(s), State(t)>>) = <<s, t>>
  <2> DEFINE z == <<State(s), State(t)>>
  <2>1. z \in Seq(SoftItem) /\ DOMAIN z = 1..2 /\ z[1] = State(s) /\ z[2] = State(t)
    BY <1>1
  <2>2. HardItem(z[1]) = s /\ HardItem(z[2]) = t
    BY <1>1, <2>1
  <2>3. HardQueue(z) = [i \in 1..2 |-> HardItem(z[i])]
    BY <2>1 DEF HardQueue
  <2> HIDE DEF z
  <2>4. HardQueue(z) = <<s, t>>
    BY <2>2, <2>3
  <2> QED BY <2>1, <2>4 DEF z
<1>4. CASE x = 1
  <2>1. Announced(x) = <<State("BEGIN"), State("INSIDE")>> /\ Transitions(x) = <<"BEGIN", "INSIDE">>
    BY <1>4 DEF Announced, Transitions
  <2> QED BY <1>2, <1>3, <2>1
<1>5. CASE x = 2
  <2>1. Announced(x) = <<State("END"), State("OUTSIDE")>> /\ Transitions(x) = <<"END", "OUTSIDE">>
    BY <1>5 DEF Announced, Transitions
  <2> QED BY <1>2, <1>3, <2>1
<1>6. CASE x = 3
  <2> DEFINE z == <<State("END"), State("BEGIN"), State("INSIDE")>>
  <2>1. Announced(x) = z /\ Transitions(x) = <<"END", "BEGIN", "INSIDE">>
    BY <1>6 DEF Announced, Transitions
  <2>2. z \in Seq(SoftItem) /\ DOMAIN z = 1..3
        /\ z[1] = State("END") /\ z[2] = State("BEGIN") /\ z[3] = State("INSIDE")
    BY <1>1, <1>2
  <2>3. HardItem(z[1]) = "END" /\ HardItem(z[2]) = "BEGIN" /\ HardItem(z[3]) = "INSIDE"
    BY <1>1, <1>2, <2>2
  <2>4. HardQueue(z) = [i \in 1..3 |-> HardItem(z[i])]
    BY <2>2 DEF HardQueue
  <2> HIDE DEF z
  <2>5. HardQueue(z) = <<"END", "BEGIN", "INSIDE">>
    BY <2>3, <2>4
  <2> QED BY <2>1, <2>2, <2>5
<1> QED BY <1>4, <1>5, <1>6

\* A state's parts, and the hard decoder's from them.
LEMMA HasHard ==
  ASSUME NEW d, NEW h, NEW m, NEW c, NEW u, NEW f, NEW q, SoftHas(d, h, m, c, u, f, q)
  PROVE  HardOf(d) = HardParts(Len(h), m, c, u, f, HardQueue(q)) /\ Held(d)
<1>1. d = SoftParts(h, m, c, u, f, q)
  BY DEF SoftHas
<1>2. d.hold = h /\ d.bm = m /\ d.code = c /\ d.suf = u /\ d.fstate = f /\ d.out = q
  BY <1>1 DEF SoftParts
<1>3. Held(d)
  BY DEF Held
<1> QED BY <1>2, <1>3 DEF HardOf

\* One symbol, as the soft decoder and as the hard one is fed it.
SoftMoves(d, r, e) == Held(e) /\ HardOf(e) = Fed(HardOf(d), Hardened(r))

LEMMA SoftFedMoves ==
  ASSUME SoftConstants, NEW d, Held(d), NEW r \in Records
  PROVE  SoftMoves(d, r, SoftFed(d, r))
<1>1. PICK h, m, c, u, f, q : SoftHas(d, h, m, c, u, f, q)
  BY DEF Held
<1>2. /\ d = [hold |-> h, bm |-> m, code |-> c, suf |-> u, fstate |-> f, out |-> q]
      /\ h \in Seq(HeldOnes) /\ Len(h) <= Run /\ Len(h) \in Nat /\ Run \in Nat \ {0}
      /\ m \in Modes /\ c \in 0..3 /\ u \in 0..1 /\ f \in FState /\ q \in Seq(SoftItem)
      /\ m = "CODE2" => c = 0
      /\ m = "CODE3" => c \in 0..1
  BY <1>1, FormatAssumption DEF SoftHas, SoftParts
<1>21. d = [hold |-> h, bm |-> m, code |-> c, suf |-> u, fstate |-> f, out |-> q]
  BY <1>2
<1>22. d.hold = h /\ d.bm = m /\ d.code = c /\ d.suf = u /\ d.out = q
  BY <1>21
<1>23. ASSUME NEW s, NEW z, z = q \o AllData(s)
       PROVE  Put(d, s) = [hold |-> h, bm |-> m, code |-> c, suf |-> u, fstate |-> f, out |-> z]
  <2>1. PICK y : y = [d EXCEPT !.out = d.out \o AllData(s)]
    OBVIOUS
  <2>2. y = [hold |-> h, bm |-> m, code |-> c, suf |-> u, fstate |-> f, out |-> z]
    BY <1>21, <1>23, <2>1
  <2> QED BY <2>1, <2>2 DEF Put
<1>3. PICK x \in Bit : x = Classified(r) /\ x = Hardened(r)
  BY HardenedIsRead
<1>4. PICK n \in Nat : n = Len(h)
  BY <1>2
<1>5. PICK Q : Q = HardQueue(q)
  OBVIOUS
<1>6. PICK g : g = HardOf(d)
  OBVIOUS
<1>7. g = [t |-> n, bm |-> m, code |-> c, suf |-> u, fstate |-> f, out |-> Q]
  BY <1>1, <1>4, <1>5, <1>6, HasHard DEF HardParts
<1>8. h \in Seq(SoftRecord) /\ HardAll(h) = Ones(n) /\ r \in SoftRecord
  BY <1>2, <1>4, HeldHarden DEF SoftRecord
<1>9. ASSUME NEW e, NEW h2, NEW m2, NEW c2, NEW u2, NEW q2, SoftHas(e, h2, m2, c2, u2, f, q2),
             NEW n2, n2 = Len(h2), NEW Q2, HardQueue(q2) = Q2,
             SoftFed(d, r) = e,
             Fed(g, x) = [t |-> n2, bm |-> m2, code |-> c2, suf |-> u2, fstate |-> f, out |-> Q2]
      PROVE  SoftMoves(d, r, SoftFed(d, r))
  <2>1. HardOf(e) = HardParts(n2, m2, c2, u2, f, Q2) /\ Held(e)
    BY <1>9, HasHard
  <2> QED BY <1>3, <1>6, <1>9, <2>1 DEF SoftMoves, HardParts
<1>10. CASE m = "SCAN" /\ x = "1" /\ n < Run
  <2>1. PICK k : k = Append(h, r)
    OBVIOUS
  <2>2. k \in Seq(HeldOnes) /\ Len(k) = n + 1
    <3>1. r \in HeldOnes
      BY <1>3, <1>10 DEF HeldOnes
    <3>2. h \in Seq(HeldOnes) /\ Len(h) = n
      BY <1>2, <1>4
    <3> QED BY <2>1, <3>1, <3>2
  <2>3. PICK e : e = SoftParts(k, m, c, u, f, q)
    OBVIOUS
  <2>4. SoftHas(e, k, m, c, u, f, q)
    BY <1>2, <1>4, <1>10, <2>2, <2>3 DEF SoftHas
  <2>5. SoftFed(d, r) = e
    <3>1. SoftFed(d, r) = [d EXCEPT !.hold = Append(d.hold, r)]
      BY <1>3, <1>4, <1>10, <1>22 DEF SoftFed, SoftScan
    <3> QED BY <1>21, <1>22, <2>1, <2>3, <3>1 DEF SoftParts
  <2>6. Fed(g, x) = [t |-> n + 1, bm |-> m, code |-> c, suf |-> u, fstate |-> f, out |-> Q]
    BY <1>7, <1>10 DEF Fed, Scan
  <2> QED BY <1>5, <1>9, <2>2, <2>4, <2>5, <2>6
<1>11. CASE m = "SCAN" /\ x = "1" /\ n = Run
  <2>1. PICK k : k = Append(SubSeq(h, 2, Run), r)
    OBVIOUS
  <2>2. k \in Seq(HeldOnes) /\ Len(k) = Run
    <3>1. SubSeq(h, 2, Run) \in Seq(HeldOnes) /\ Len(SubSeq(h, 2, Run)) = Run - 1
      <4>1. h \in Seq(HeldOnes) /\ Len(h) = Run /\ Run \in Nat \ {0}
        BY <1>2, <1>4, <1>11
      <4> QED BY <4>1
    <3>2. r \in HeldOnes
      BY <1>3, <1>11 DEF HeldOnes
    <3> QED BY <1>2, <2>1, <3>1, <3>2
  <2>3. h[1] \in SoftRecord /\ h[1] \in HeldOnes /\ Hardened(h[1]) = "1"
    <3>1. h \in Seq(HeldOnes) /\ Len(h) = Run /\ Run \in Nat \ {0}
      BY <1>2, <1>4, <1>11
    <3>2. h[1] \in HeldOnes
      BY <3>1
    <3> QED BY <3>2 DEF HeldOnes, SoftRecord
  <2>4. PICK s : s = <<h[1]>>
    OBVIOUS
  <2>5. s \in Seq(SoftRecord) /\ HardAll(s) = <<"1">>
    BY <2>3, <2>4 DEF HardAll
  <2>6. PICK z : z = q \o AllData(s)
    OBVIOUS
  <2>7. z \in Seq(SoftItem) /\ HardQueue(z) = Q \o <<"1">>
    BY <1>2, <1>5, <2>5, <2>6, AllDataIs, HardQueueJoins
  <2>8. PICK e : e = SoftParts(k, m, c, u, f, z)
    OBVIOUS
  <2>9. SoftHas(e, k, m, c, u, f, z)
    BY <1>2, <1>11, <2>2, <2>7, <2>8 DEF SoftHas
  <2>10. Put(d, s) = [hold |-> h, bm |-> m, code |-> c, suf |-> u, fstate |-> f, out |-> z]
    BY <1>23, <2>6
  <2>11. Peeled(d, r) = e
    <3>1. PICK p : p = Put(d, s)
      OBVIOUS
    <3>2. p = [hold |-> h, bm |-> m, code |-> c, suf |-> u, fstate |-> f, out |-> z] /\ p.hold = h
      BY <2>10, <3>1
    <3>3. Peeled(d, r) = [p EXCEPT !.hold = Append(SubSeq(p.hold, 2, Run), r)]
      BY <1>22, <2>4, <3>1 DEF Peeled
    <3> QED BY <2>1, <2>8, <3>2, <3>3 DEF SoftParts
  <2>12. SoftFed(d, r) = e
    <3>1. Len(d.hold) = Run /\ ~(Len(d.hold) < Run)
      <4>1. Run \in Nat /\ n = Run /\ Len(d.hold) = n
        BY <1>2, <1>4, <1>11, <1>22
      <4> QED BY <4>1
    <3> QED BY <1>3, <1>11, <1>22, <2>11, <3>1 DEF SoftFed, SoftScan
  <2>13. Fed(g, x) = [t |-> n, bm |-> m, code |-> c, suf |-> u, fstate |-> f, out |-> Q \o <<"1">>]
    <3>1. g.bm = m /\ g.t = n /\ g.out = Q
      BY <1>7
    <3>2. Fed(g, x) = [g EXCEPT !.out = g.out \o <<"1">>]
      BY <1>11, <3>1 DEF Fed, Scan, Queued
    <3> QED BY <1>7, <3>1, <3>2
  <2> QED BY <1>9, <1>11, <2>2, <2>7, <2>9, <2>12, <2>13
<1>12. CASE m = "SCAN" /\ x = "0" /\ n = Run
  <2>1. PICK e : e = SoftParts(h, "CODE2", 0, u, f, q)
    OBVIOUS
  <2>2. SoftHas(e, h, "CODE2", 0, u, f, q)
    BY <1>2, <2>1 DEF SoftHas, Modes
  <2>3. SoftFed(d, r) = e
    BY <1>2, <1>3, <1>4, <1>12, <2>1 DEF SoftFed, SoftScan, SoftParts
  <2>4. Fed(g, x) = [t |-> n, bm |-> "CODE2", code |-> 0, suf |-> u, fstate |-> f, out |-> Q]
    BY <1>7, <1>12 DEF Fed, Scan
  <2> QED BY <1>4, <1>5, <1>9, <2>2, <2>3, <2>4
<1>13. CASE m = "SCAN" /\ x # "1" /\ ~(x = "0" /\ n = Run)
  <2>1. PICK s : s = Append(h, r)
    OBVIOUS
  <2>2. s = h \o <<r>> /\ s \in Seq(SoftRecord)
    BY <1>8, <2>1
  <2>3. HardAll(<<r>>) = <<x>> /\ <<r>> \in Seq(SoftRecord)
    BY <1>3, <1>8 DEF HardAll
  <2>4. HardAll(s) = Ones(n) \o <<x>>
    BY <1>8, <2>2, <2>3, AllDataJoins
  <2>5. PICK z : z = q \o AllData(s)
    OBVIOUS
  <2>6. z \in Seq(SoftItem) /\ HardQueue(z) = Q \o (Ones(n) \o <<x>>)
    BY <1>2, <1>5, <2>2, <2>4, <2>5, AllDataIs, HardQueueJoins
  <2>7. PICK e : e = SoftParts(<<>>, m, c, u, f, z)
    OBVIOUS
  <2>8. SoftHas(e, <<>>, m, c, u, f, z)
    <3>1. <<>> \in Seq(HeldOnes) /\ Len(<<>>) = 0
      OBVIOUS
    <3> QED BY <1>2, <1>13, <2>6, <2>7, <3>1 DEF SoftHas
  <2>9. SoftFed(d, r) = e
    <3>1. SoftFed(d, r) = [Put(d, s) EXCEPT !.hold = <<>>]
      BY <1>3, <1>4, <1>13, <1>22, <2>1 DEF SoftFed, SoftScan
    <3>2. Put(d, s) = [hold |-> h, bm |-> m, code |-> c, suf |-> u, fstate |-> f, out |-> z]
      BY <1>23, <2>5
    <3> QED BY <2>7, <3>1, <3>2 DEF SoftParts
  <2>10. Fed(g, x) = [t |-> 0, bm |-> m, code |-> c, suf |-> u, fstate |-> f,
                      out |-> Q \o (Ones(n) \o <<x>>)]
    BY <1>7, <1>13 DEF Fed, Scan, Queued
  <2>11. Len(<<>>) = 0
    OBVIOUS
  <2> QED BY <1>9, <2>6, <2>8, <2>9, <2>10, <2>11
<1>14. PICK b \in 0..1 : b = Digit(x) /\ b = IF Classified(r) = "1" THEN 1 ELSE 0
  BY <1>3 DEF Digit
<1>15. CASE m = "CODE2"
  <2>1. PICK k \in 0..1 : k = c * 2 + b
    BY <1>2, <1>14, <1>15
  <2>2. PICK e : e = SoftParts(h, "CODE3", k, u, f, q)
    OBVIOUS
  <2>3. SoftHas(e, h, "CODE3", k, u, f, q)
    BY <1>2, <2>1, <2>2 DEF SoftHas, Modes
  <2>4. SoftFed(d, r) = e
    BY <1>2, <1>14, <1>15, <2>1, <2>2 DEF SoftFed, SoftParts
  <2>5. Fed(g, x) = [t |-> n, bm |-> "CODE3", code |-> k, suf |-> u, fstate |-> f, out |-> Q]
    BY <1>7, <1>14, <1>15, <2>1 DEF Fed
  <2> QED BY <1>4, <1>5, <1>9, <2>3, <2>4, <2>5
<1>16. CASE m = "CODE3"
  <2>1. PICK k \in 0..3 : k = c * 2 + b
    BY <1>2, <1>14, <1>16
  <2>2. CASE k = 0
    <3>1. PICK e : e = SoftParts(h, "SUF1", 0, u, f, q)
      OBVIOUS
    <3>2. SoftHas(e, h, "SUF1", 0, u, f, q)
      BY <1>2, <3>1 DEF SoftHas, Modes
    <3>3. SoftFed(d, r) = e
      BY <1>2, <1>14, <1>16, <2>1, <2>2, <3>1 DEF SoftFed, SoftParts
    <3>4. Fed(g, x) = [t |-> n, bm |-> "SUF1", code |-> 0, suf |-> u, fstate |-> f, out |-> Q]
      BY <1>7, <1>14, <1>16, <2>1, <2>2 DEF Fed
    <3> QED BY <1>4, <1>5, <1>9, <3>2, <3>3, <3>4
  <2>3. CASE k # 0
    <3>1. PICK a : a = Announced(k)
      OBVIOUS
    <3>2. PICK w : w = Transitions(k)
      OBVIOUS
    <3>3. a \in Seq(SoftItem) /\ HardQueue(a) = w
      BY <2>1, <2>3, <3>1, <3>2, AnnouncedHardens
    <3>4. PICK z : z = q \o a
      OBVIOUS
    <3>5. z \in Seq(SoftItem) /\ HardQueue(z) = Q \o w
      BY <1>2, <1>5, <3>3, <3>4, HardQueueJoins
    <3>6. PICK e : e = SoftParts(<<>>, "SCAN", k, u, f, z)
      OBVIOUS
    <3>7. SoftHas(e, <<>>, "SCAN", k, u, f, z) /\ Len(<<>>) = 0
      <4>1. <<>> \in Seq(HeldOnes) /\ Len(<<>>) = 0
        OBVIOUS
      <4> QED BY <1>2, <2>1, <3>5, <3>6, <4>1 DEF SoftHas, Modes
    <3>8. SoftFed(d, r) = e
      BY <1>2, <1>14, <1>16, <2>1, <2>3, <3>1, <3>4, <3>6 DEF SoftFed, SoftParts
    <3>9. Fed(g, x) = [t |-> 0, bm |-> "SCAN", code |-> k, suf |-> u, fstate |-> f, out |-> Q \o w]
      <4>1. g.bm = m /\ g.code = c /\ g.out = Q
        BY <1>7
      <4>2. PICK p : p = [g EXCEPT !.out = g.out \o w]
        OBVIOUS
      <4>3. p = [t |-> n, bm |-> m, code |-> c, suf |-> u, fstate |-> f, out |-> Q \o w]
        BY <1>7, <4>1, <4>2
      <4>4. Fed(g, x) = [p EXCEPT !.code = k, !.t = 0, !.bm = "SCAN"]
        BY <1>14, <1>16, <2>1, <2>3, <3>2, <4>1, <4>2 DEF Fed, Queued
      <4> QED BY <4>3, <4>4
    <3> QED BY <1>9, <3>5, <3>7, <3>8, <3>9
  <2> QED BY <2>2, <2>3
<1>17. CASE m = "SUF1"
  <2>1. PICK e : e = SoftParts(h, "SUF2", c, b, f, q)
    OBVIOUS
  <2>2. SoftHas(e, h, "SUF2", c, b, f, q)
    BY <1>2, <2>1 DEF SoftHas, Modes
  <2>3. SoftFed(d, r) = e
    BY <1>2, <1>14, <1>17, <2>1 DEF SoftFed, SoftParts
  <2>4. Fed(g, x) = [t |-> n, bm |-> "SUF2", code |-> c, suf |-> b, fstate |-> f, out |-> Q]
    BY <1>7, <1>14, <1>17 DEF Fed
  <2> QED BY <1>4, <1>5, <1>9, <2>2, <2>3, <2>4
<1>18. CASE m = "SUF2"
  <2>1. PICK k \in 0..3 : k = u * 2 + b
    BY <1>2, <1>14
  <2>2. PICK s : s = MadeUp(k)
    OBVIOUS
  <2>3. PICK w : w = Unescaped(k)
    OBVIOUS
  <2>4. s \in Seq(SoftRecord) /\ HardAll(s) = w
    BY <2>2, <2>3, MadeUpHardens
  <2>5. PICK z : z = q \o AllData(s)
    OBVIOUS
  <2>6. z \in Seq(SoftItem) /\ HardQueue(z) = Q \o w
    BY <1>2, <1>5, <2>4, <2>5, AllDataIs, HardQueueJoins
  <2>7. PICK e : e = SoftParts(<<>>, "SCAN", c, u, f, z)
    OBVIOUS
  <2>8. SoftHas(e, <<>>, "SCAN", c, u, f, z) /\ Len(<<>>) = 0
    <3>1. <<>> \in Seq(HeldOnes) /\ Len(<<>>) = 0
      OBVIOUS
    <3> QED BY <1>2, <2>6, <2>7, <3>1 DEF SoftHas, Modes
  <2>9. SoftFed(d, r) = e
    <3>1. SoftFed(d, r) = [Put(d, s) EXCEPT !.hold = <<>>, !.bm = "SCAN"]
      BY <1>14, <1>18, <1>22, <2>1, <2>2 DEF SoftFed
    <3>2. Put(d, s) = [hold |-> h, bm |-> m, code |-> c, suf |-> u, fstate |-> f, out |-> z]
      BY <1>23, <2>5
    <3>3. PICK p : p = Put(d, s)
      OBVIOUS
    <3>4. p = [hold |-> h, bm |-> m, code |-> c, suf |-> u, fstate |-> f, out |-> z]
          /\ SoftFed(d, r) = [p EXCEPT !.hold = <<>>, !.bm = "SCAN"]
      BY <3>1, <3>2, <3>3
    <3> QED BY <2>7, <3>4 DEF SoftParts
  <2>10. Fed(g, x) = [t |-> 0, bm |-> "SCAN", code |-> c, suf |-> u, fstate |-> f, out |-> Q \o w]
    BY <1>7, <1>14, <1>18, <2>1, <2>3 DEF Fed, Queued
  <2> QED BY <1>9, <2>6, <2>8, <2>9, <2>10
<1>19. n = Run \/ n < Run
  BY <1>2, <1>4
<1> QED BY <1>2, <1>10, <1>11, <1>12, <1>13, <1>15, <1>16, <1>17, <1>18, <1>19 DEF Modes

\* The end of a call, seen by either.
SoftAnswers(d, room) ==
  \E w \in Stops(HardOf(d), room) :
    /\ HardOf(soft') = Drained(HardOf(d), w)
    /\ HardAll(sgot') = SubSeq(HardOf(d).out, 1, w)
    /\ sfeeding' = FALSE

LEMMA SoftReturnsMoves ==
  ASSUME SoftConstants, NEW d, Held(d), NEW room \in Nat, SoftReturns(d, room)
  PROVE  SoftAnswers(d, room) /\ Held(soft')
<1>1. PICK h, m, c, u, f, q : SoftHas(d, h, m, c, u, f, q)
  BY DEF Held
<1>2. /\ d = [hold |-> h, bm |-> m, code |-> c, suf |-> u, fstate |-> f, out |-> q]
      /\ f \in FState /\ q \in Seq(SoftItem) /\ Len(q) \in Nat
  BY <1>1 DEF SoftHas, SoftParts
<1>3. d.out = q
  BY <1>2
<1>4. PICK Q : Q = HardQueue(q)
  OBVIOUS
<1>5. Q \in Seq(Token) /\ Len(Q) = Len(q) /\ \A i \in 1..Len(q) : Q[i] = HardItem(q[i])
  BY <1>2, <1>4, HardQueueIs
<1>6. \A i \in 1..Len(q) : q[i] \in SoftItem
  BY <1>2
<1>7. PICK g : g = HardOf(d)
  OBVIOUS
<1>8. g = [t |-> Len(h), bm |-> m, code |-> c, suf |-> u, fstate |-> f, out |-> Q] /\ g.out = Q
  BY <1>1, <1>4, <1>7, HasHard DEF HardParts
<1>9. PICK w \in 0..Len(q) :
        LET stop == IF w = Len(q) THEN "empty" ELSE q[w + 1].kind
        IN  /\ w <= room /\ \A i \in 1..w : q[i].kind = "data"
            /\ stop = "data" => w = room
            /\ soft' = IF stop = "state"
                       THEN [d EXCEPT !.fstate = q[w + 1].is, !.out = SubSeq(@, w + 2, Len(@))]
                       ELSE [d EXCEPT !.out = SubSeq(@, w + 1, Len(@))]
            /\ sgot' = [i \in 1..w |-> q[i].is]
            /\ sfeeding' = FALSE
  BY <1>3 DEF SoftReturns
<1>10. \A i \in 1..w : q[i].kind = "data" /\ Q[i] = Hardened(q[i].is) /\ Q[i] \notin FState
  <2> SUFFICES ASSUME NEW i \in 1..w
               PROVE  q[i].kind = "data" /\ Q[i] = Hardened(q[i].is) /\ Q[i] \notin FState
    OBVIOUS
  <2>1. i \in 1..Len(q) /\ q[i].kind = "data"
    BY <1>2, <1>9
  <2> QED BY <1>5, <1>6, <2>1, HardItems
<1>11. HardAll(sgot') = SubSeq(Q, 1, w)
  <2>1. DOMAIN sgot' = 1..w /\ \A i \in 1..w : sgot'[i] = q[i].is
    BY <1>9
  <2>2. HardAll(sgot') = [i \in 1..w |-> Q[i]]
    BY <1>10, <2>1 DEF HardAll
  <2>3. SubSeq(Q, 1, w) = [i \in 1..w |-> Q[i]]
    BY <1>2, <1>5
  <2> QED BY <2>2, <2>3
<1>12. CASE w < Len(q) /\ q[w + 1].kind = "state"
  <2>1. w + 1 \in 1..Len(q) /\ q[w + 1] \in SoftItem
    BY <1>2, <1>6, <1>12
  <2>2. PICK s \in FState : s = q[w + 1].is /\ s = Q[w + 1]
    BY <1>5, <1>12, <2>1, HardItems
  <2>3. PICK z : z = SubSeq(q, w + 2, Len(q))
    OBVIOUS
  <2>4. z \in Seq(SoftItem) /\ HardQueue(z) = SubSeq(Q, w + 2, Len(Q))
    <3>1. w + 2 \in Nat /\ w + 2 >= 1 /\ Len(q) \in 0..Len(q)
      BY <1>2
    <3> QED BY <1>2, <1>4, <1>5, <2>3, <3>1, HardQueueCut
  <2>5. soft' = SoftParts(h, m, c, u, s, z)
    <3>1. soft' = [d EXCEPT !.fstate = q[w + 1].is, !.out = SubSeq(@, w + 2, Len(@))]
      BY <1>9, <1>12
    <3> QED BY <1>2, <1>3, <2>2, <2>3, <3>1 DEF SoftParts
  <2>6. SoftHas(soft', h, m, c, u, s, z)
    BY <1>1, <2>4, <2>5 DEF SoftHas
  <2>7. HardOf(soft') = HardParts(Len(h), m, c, u, s, SubSeq(Q, w + 2, Len(Q))) /\ Held(soft')
    BY <2>4, <2>6, HasHard
  <2>8. w < Len(Q) /\ Q[w + 1] \in FState
    BY <1>5, <1>12, <2>2
  <2>9. Drained(g, w) = HardParts(Len(h), m, c, u, s, SubSeq(Q, w + 2, Len(Q)))
    BY <1>8, <2>2, <2>8 DEF Drained, HardParts
  <2>10. w \in Stops(g, room)
    BY <1>5, <1>8, <1>9, <1>10, <2>8 DEF Stops
  <2> QED BY <1>7, <1>8, <1>9, <1>11, <2>7, <2>9, <2>10 DEF SoftAnswers
<1>13. CASE ~(w < Len(q) /\ q[w + 1].kind = "state")
  <2>1. PICK z : z = SubSeq(q, w + 1, Len(q))
    OBVIOUS
  <2>2. z \in Seq(SoftItem) /\ HardQueue(z) = SubSeq(Q, w + 1, Len(Q))
    <3>1. w + 1 \in Nat /\ w + 1 >= 1 /\ Len(q) \in 0..Len(q)
      BY <1>2
    <3> QED BY <1>2, <1>4, <1>5, <2>1, <3>1, HardQueueCut
  <2>3. soft' = SoftParts(h, m, c, u, f, z)
    <3>1. soft' = [d EXCEPT !.out = SubSeq(@, w + 1, Len(@))]
      BY <1>2, <1>9, <1>13
    <3> QED BY <1>2, <1>3, <2>1, <3>1 DEF SoftParts
  <2>4. SoftHas(soft', h, m, c, u, f, z)
    BY <1>1, <2>2, <2>3 DEF SoftHas
  <2>5. HardOf(soft') = HardParts(Len(h), m, c, u, f, SubSeq(Q, w + 1, Len(Q))) /\ Held(soft')
    BY <2>2, <2>4, HasHard
  <2>6. w < Len(Q) => w = room /\ Q[w + 1] \notin FState
    <3> SUFFICES ASSUME w < Len(Q) PROVE w = room /\ Q[w + 1] \notin FState
      OBVIOUS
    <3>1. w + 1 \in 1..Len(q) /\ q[w + 1] \in SoftItem /\ w < Len(q)
      BY <1>2, <1>5, <1>6
    <3>2. q[w + 1].kind = "data" /\ Q[w + 1] \notin FState
      BY <1>5, <1>13, <3>1, HardItems
    <3>3. w # Len(q)
      BY <1>2, <3>1
    <3> QED BY <1>9, <3>2, <3>3
  <2>7. Drained(g, w) = HardParts(Len(h), m, c, u, f, SubSeq(Q, w + 1, Len(Q)))
    BY <1>8, <2>6 DEF Drained, HardParts
  <2>8. w \in Stops(g, room)
    BY <1>2, <1>5, <1>8, <1>9, <1>10, <2>6 DEF Stops
  <2> QED BY <1>7, <1>8, <1>9, <1>11, <2>5, <2>7, <2>8 DEF SoftAnswers
<1> QED BY <1>12, <1>13

\* msd_finalize before its drain.
SoftClosed(d) ==
  LET held == IF d.bm = "SCAN" THEN d.hold
              ELSE MadeOnes \o IF d.bm = "CODE2" THEN <<>> ELSE <<SoftZero>>
  IN  [Put(d, held) EXCEPT !.bm = "SCAN", !.hold = <<>>]

LEMMA SoftClosedMoves ==
  ASSUME SoftConstants, NEW d, Held(d)
  PROVE  Held(SoftClosed(d)) /\ HardOf(SoftClosed(d)) = Closed(HardOf(d))
<1>1. PICK h, m, c, u, f, q : SoftHas(d, h, m, c, u, f, q)
  BY DEF Held
<1>2. /\ d = [hold |-> h, bm |-> m, code |-> c, suf |-> u, fstate |-> f, out |-> q]
      /\ h \in Seq(HeldOnes) /\ f \in FState /\ q \in Seq(SoftItem) /\ c \in 0..3 /\ u \in 0..1
  BY <1>1 DEF SoftHas, SoftParts
<1>3. d.out = q /\ d.bm = m /\ d.hold = h
  BY <1>2
<1>4. PICK Q : Q = HardQueue(q)
  OBVIOUS
<1>5. PICK g : g = HardOf(d)
  OBVIOUS
<1>6. g = [t |-> Len(h), bm |-> m, code |-> c, suf |-> u, fstate |-> f, out |-> Q]
  BY <1>1, <1>4, <1>5, HasHard DEF HardParts
<1>7. g.bm = m /\ g.t = Len(h) /\ g.out = Q
  BY <1>6
<1>8. PICK s : s = IF m = "SCAN" THEN h
                   ELSE MadeOnes \o IF m = "CODE2" THEN <<>> ELSE <<SoftZero>>
  OBVIOUS
<1>9. PICK b : b = IF m = "SCAN" THEN Ones(Len(h))
                   ELSE Ones(Run) \o IF m = "CODE2" THEN <<>> ELSE <<"0">>
  OBVIOUS
<1>10. s \in Seq(SoftRecord) /\ HardAll(s) = b
  <2>1. CASE m = "SCAN"
    BY <1>2, <1>8, <1>9, <2>1, HeldHarden
  <2>2. CASE m # "SCAN"
    <3>1. MadeOnes \in Seq(SoftRecord) /\ HardAll(MadeOnes) = Ones(Run)
      <4>1. Run \in Nat
        BY FormatAssumption
      <4>2. MadeOnes \in Seq(SoftRecord) /\ DOMAIN MadeOnes = 1..Run
            /\ \A i \in 1..Run : MadeOnes[i] = SoftOne
        BY <4>1 DEF MadeOnes, SoftRecord
      <4>3. HardAll(MadeOnes) = [i \in 1..Run |-> "1"]
        BY <4>2, MadeHardened DEF HardAll
      <4> QED BY <4>2, <4>3 DEF Ones
    <3>2. <<>> \in Seq(SoftRecord) /\ HardAll(<<>>) = <<>>
      BY DEF HardAll
    <3>3. <<SoftZero>> \in Seq(SoftRecord) /\ HardAll(<<SoftZero>>) = <<"0">>
      BY MadeHardened DEF HardAll, SoftRecord
    <3> QED BY <1>8, <1>9, <2>2, <3>1, <3>2, <3>3, AllDataJoins, JoinedHas
  <2> QED BY <2>1, <2>2
<1>11. PICK z : z = q \o AllData(s)
  OBVIOUS
<1>12. z \in Seq(SoftItem) /\ HardQueue(z) = Q \o b
  BY <1>2, <1>4, <1>10, <1>11, AllDataIs, HardQueueJoins
<1>13. SoftClosed(d) = SoftParts(<<>>, "SCAN", c, u, f, z)
  <2>1. PICK p : p = [d EXCEPT !.out = d.out \o AllData(s)]
    OBVIOUS
  <2>2. p = [hold |-> h, bm |-> m, code |-> c, suf |-> u, fstate |-> f, out |-> z]
    BY <1>2, <1>3, <1>11, <2>1
  <2>3. p = Put(d, s)
    BY <2>1 DEF Put
  <2>4. SoftClosed(d) = [p EXCEPT !.bm = "SCAN", !.hold = <<>>]
    BY <1>3, <1>8, <2>3 DEF SoftClosed
  <2> QED BY <2>2, <2>4 DEF SoftParts
<1>14. SoftHas(SoftClosed(d), <<>>, "SCAN", c, u, f, z) /\ Len(<<>>) = 0
  <2>1. <<>> \in Seq(HeldOnes) /\ Len(<<>>) = 0 /\ 0 <= Run
    BY FormatAssumption
  <2> QED BY <1>2, <1>12, <1>13, <2>1 DEF SoftHas, Modes
<1>15. HardOf(SoftClosed(d)) = HardParts(0, "SCAN", c, u, f, Q \o b) /\ Held(SoftClosed(d))
  BY <1>12, <1>14, HasHard
<1>16. Closed(g) = HardParts(0, "SCAN", c, u, f, Q \o b)
  <2>1. PICK p : p = [g EXCEPT !.out = g.out \o b]
    OBVIOUS
  <2>2. p = [t |-> Len(h), bm |-> m, code |-> c, suf |-> u, fstate |-> f, out |-> Q \o b]
    BY <1>6, <1>7, <2>1
  <2>3. Closed(g) = [p EXCEPT !.t = 0, !.bm = "SCAN"]
    BY <1>7, <1>9, <2>1 DEF Closed, Queued
  <2> QED BY <2>2, <2>3 DEF HardParts
<1> QED BY <1>5, <1>15, <1>16

\* The hard decoder that SoftMarker compares with is that of this module.
LEMMA SameMachine ==
  /\ Hard!Bit = Bit /\ Hard!FreshDecoder = FreshDecoder
  /\ \A d, b : Hard!Fed(d, b) = Fed(d, b)
  /\ \A d : Hard!Closed(d) = Closed(d)
  /\ \A d, room : Hard!Stops(d, room) = Stops(d, room)
  /\ \A d, w : Hard!Drained(d, w) = Drained(d, w)
<1>1. Hard!Bit = Bit /\ Hard!FreshDecoder = FreshDecoder /\ Hard!FState = FState
  BY DEF Hard!Bit, Bit, Hard!FreshDecoder, FreshDecoder, Hard!FState, FState
<1>2. /\ \A d, s : Hard!Queued(d, s) = Queued(d, s)
      /\ \A n : Hard!Ones(n) = Ones(n)
      /\ \A b : Hard!Digit(b) = Digit(b)
      /\ \A n : Hard!Sym(n) = Sym(n)
      /\ \A x : Hard!Transitions(x) = Transitions(x)
  BY DEF Hard!Queued, Queued, Hard!Ones, Ones, Hard!Digit, Digit, Hard!Sym, Sym,
         Hard!Transitions, Transitions
<1>3. /\ \A x : Hard!Unescaped(x) = Unescaped(x)
      /\ \A d, b : Hard!Scan(d, b) = Scan(d, b)
  BY <1>2 DEF Hard!Unescaped, Unescaped, Hard!Scan, Scan
<1>4. \A d, b : Hard!Fed(d, b) = Fed(d, b)
  BY <1>2, <1>3 DEF Hard!Fed, Fed
<1>5. \A d : Hard!Closed(d) = Closed(d)
  BY <1>2 DEF Hard!Closed, Closed
<1>6. \A d, room : Hard!Stops(d, room) = Stops(d, room)
  BY <1>1 DEF Hard!Stops, Stops
<1>7. \A d, w : Hard!Drained(d, w) = Drained(d, w)
  BY <1>1 DEF Hard!Drained, Drained
<1> QED BY <1>1, <1>4, <1>5, <1>6, <1>7

\* Its variables, in a state of the soft decoder.
LEMMA MappedIs ==
  /\ HardOf(soft) = [t |-> Len(soft.hold), bm |-> soft.bm, code |-> soft.code,
                     suf |-> soft.suf, fstate |-> soft.fstate, out |-> HardTokens]
  /\ HardAll(sgot) = [i \in DOMAIN sgot |-> Hardened(sgot[i])]
  /\ HardOf(soft') = [t |-> Len(soft'.hold), bm |-> soft'.bm, code |-> soft'.code,
                      suf |-> soft'.suf, fstate |-> soft'.fstate, out |-> HardTokens']
  /\ HardAll(sgot') = [i \in DOMAIN sgot' |-> Hardened(sgot'[i])]
  /\ Len(HardTokens) = Len(HardOf(soft).out)
  BY DEF HardOf, HardParts, HardTokens, HardQueue, HardItem, HardAll

\* Step for step.
LEMMA SoftStepFollows ==
  ASSUME SoftConstants, Held(soft), [SoftNext]_softvars
  PROVE  Held(soft') /\ [Hard!DecNext]_(Hard!decvars)
<1>1. ASSUME NEW r \in Records, SoftFeed(r)
      PROVE  Held(soft') /\ Hard!DecNext
  <2>1. /\ Held(soft') /\ HardOf(soft') = Fed(HardOf(soft), Hardened(r))
        /\ Hardened(r) \in Bit
    BY <1>1, SoftFedMoves, HardenedIsRead DEF SoftFeed, SoftMoves
  <2>2. HardAll(sgot') = <<>> /\ sfeeding' = TRUE
    BY <1>1 DEF SoftFeed, HardAll
  <2>3. Len(HardTokens) <= SoftQueue
    <3>1. Len(HardOf(soft).out) = Len(soft.out)
      <4>1. PICK h, m, c, u, f, q : SoftHas(soft, h, m, c, u, f, q)
        BY DEF Held
      <4>2. soft.out = q /\ q \in Seq(SoftItem)
        BY <4>1 DEF SoftHas, SoftParts
      <4>3. HardOf(soft).out = HardQueue(q)
        BY <4>2 DEF HardOf, HardParts
      <4> QED BY <4>2, <4>3, HardQueueIs
    <3> QED BY <1>1, <3>1, MappedIs DEF SoftFeed
  <2>4. Hard!Feed(Hardened(r))
    BY <2>1, <2>2, <2>3, MappedIs, SameMachine DEF Hard!Feed
  <2> QED BY <2>1, <2>4, SameMachine DEF Hard!DecNext
<1>2. ASSUME NEW room \in 0..SoftRoom, SoftReturn(room)
      PROVE  Held(soft') /\ Hard!DecNext
  <2>1. room \in Nat
    BY DEF SoftConstants
  <2>2. SoftAnswers(soft, room) /\ Held(soft')
    BY <1>2, <2>1, SoftReturnsMoves DEF SoftReturn
  <2>3. Hard!Return(room)
    BY <2>2, MappedIs, SameMachine DEF SoftAnswers, Hard!Return, Hard!Returns
  <2> QED BY <2>2, <2>3 DEF Hard!DecNext
<1>3. ASSUME NEW room \in 0..SoftRoom, SoftFinalize(room)
      PROVE  Held(soft') /\ Hard!DecNext
  <2>1. room \in Nat
    BY DEF SoftConstants
  <2>2. ~sfeeding /\ Len(soft.out) <= SoftQueue /\ SoftReturns(SoftClosed(soft), room)
    BY <1>3 DEF SoftFinalize, SoftClosed
  <2>3. Held(SoftClosed(soft)) /\ HardOf(SoftClosed(soft)) = Closed(HardOf(soft))
    BY SoftClosedMoves
  <2>4. SoftAnswers(SoftClosed(soft), room) /\ Held(soft')
    BY <2>1, <2>2, <2>3, SoftReturnsMoves
  <2>5. Len(HardTokens) <= SoftQueue
    <3>1. Len(HardOf(soft).out) = Len(soft.out)
      <4>1. PICK h, m, c, u, f, q : SoftHas(soft, h, m, c, u, f, q)
        BY DEF Held
      <4>2. soft.out = q /\ q \in Seq(SoftItem)
        BY <4>1 DEF SoftHas, SoftParts
      <4>3. HardOf(soft).out = HardQueue(q)
        BY <4>2 DEF HardOf, HardParts
      <4> QED BY <4>2, <4>3, HardQueueIs
    <3> QED BY <2>2, <3>1, MappedIs
  <2>6. \E w \in Stops(Closed(HardOf(soft)), room) :
          /\ HardOf(soft') = Drained(Closed(HardOf(soft)), w)
          /\ HardAll(sgot') = SubSeq(Closed(HardOf(soft)).out, 1, w)
          /\ sfeeding' = FALSE
    BY <2>3, <2>4 DEF SoftAnswers
  <2>7. Hard!Finalize(room)
    BY <2>2, <2>5, <2>6, MappedIs, SameMachine DEF Hard!Finalize, Hard!Returns
  <2> QED BY <2>4, <2>7 DEF Hard!DecNext
<1>4. CASE UNCHANGED softvars
  <2>1. soft' = soft /\ sgot' = sgot /\ sfeeding' = sfeeding
    BY <1>4 DEF softvars
  <2>2. HardTokens' = HardTokens
    BY <2>1 DEF HardTokens
  <2> QED BY <2>1, <2>2 DEF Hard!decvars
<1> QED BY <1>1, <1>2, <1>3, <1>4 DEF SoftNext

\* Between markers the records still to come out, queued and held, are those
\* that came in.
LEMMA SoftPassesOn ==
  ASSUME SoftConstants, Held(soft), NEW r \in Records,
         SoftFeed(r), soft.bm = "SCAN", soft'.bm = "SCAN"
  PROVE  soft'.out \o AllData(soft'.hold) = Append(soft.out \o AllData(soft.hold), Data(r))
<1>1. PICK h, m, c, u, f, q : SoftHas(soft, h, m, c, u, f, q)
  BY DEF Held
<1>2. /\ soft = [hold |-> h, bm |-> m, code |-> c, suf |-> u, fstate |-> f, out |-> q]
      /\ h \in Seq(HeldOnes) /\ Len(h) <= Run /\ q \in Seq(SoftItem) /\ Run \in Nat \ {0}
  BY <1>1, FormatAssumption DEF SoftHas, SoftParts
<1>3. /\ soft.hold = h /\ soft.bm = m /\ soft.out = q /\ m = "SCAN"
      /\ h \in Seq(SoftRecord) /\ r \in SoftRecord /\ <<r>> \in Seq(SoftRecord)
  BY <1>2, HeldHarden DEF SoftRecord
<1>4. soft' = SoftScan(soft, r)
  BY <1>3 DEF SoftFeed, SoftFed
<1>5. PICK H \in Seq(SoftItem) : H = AllData(h)
  BY <1>3, AllDataIs
<1>6. AllData(<<r>>) = <<Data(r)>> /\ Data(r) \in SoftItem /\ <<Data(r)>> \in Seq(SoftItem)
  <2>1. Data(r) \in SoftItem
    BY <1>3, HardItems
  <2> QED BY <2>1 DEF AllData
<1>7. AllData(h \o <<r>>) = H \o <<Data(r)>> /\ Append(h, r) = h \o <<r>>
  <2>1. AllData(h \o <<r>>) = AllData(h) \o AllData(<<r>>)
    BY <1>3, AllDataJoins
  <2>2. h \in Seq(SoftRecord) /\ r \in SoftRecord
    BY <1>3
  <2>3. Append(h, r) = h \o <<r>>
    BY <2>2
  <2> QED BY <1>5, <1>6, <2>1, <2>3
<1>8. Append(q \o H, Data(r)) = q \o (H \o <<Data(r)>>)
  <2>1. q \o H \in Seq(SoftItem) /\ Append(q \o H, Data(r)) = (q \o H) \o <<Data(r)>>
    BY <1>2, <1>5, <1>6
  <2>2. (q \o H) \o <<Data(r)>> = q \o (H \o <<Data(r)>>)
    BY <1>2, <1>5, <1>6, Assoc
  <2> QED BY <2>1, <2>2
<1>9. CASE Classified(r) = "1" /\ Len(h) < Run
  <2>1. soft' = [soft EXCEPT !.hold = Append(soft.hold, r)]
    BY <1>3, <1>4, <1>9 DEF SoftScan
  <2>2. soft'.hold = Append(h, r) /\ soft'.out = q
    BY <1>2, <1>3, <2>1
  <2> QED BY <1>3, <1>5, <1>7, <1>8, <2>2
<1>10. CASE Classified(r) = "1" /\ Len(h) = Run
  <2>1. PICK s : s = <<h[1]>>
    OBVIOUS
  <2>2. PICK b : b = SubSeq(h, 2, Run)
    OBVIOUS
  <2>3. s \in Seq(SoftRecord) /\ b \in Seq(SoftRecord) /\ s \o b = h
    <3>1. h \in Seq(SoftRecord) /\ Len(h) = Run /\ Run \in Nat /\ Run >= 1
      BY <1>2, <1>3, <1>10
    <3>2. s \in Seq(SoftRecord) /\ Len(s) = 1 /\ s[1] = h[1]
      BY <2>1, <3>1
    <3>3. b \in Seq(SoftRecord) /\ Len(b) = Run - 1 /\ \A i \in 1..Len(b) : b[i] = h[1 + i]
      BY <2>2, <3>1
    <3>4. \A i \in 1..Len(s) : h[i] = s[i]
      BY <3>2
    <3>5. Len(h) = Len(s) + Len(b) /\ \A i \in 1..Len(b) : h[Len(s) + i] = b[i]
      BY <3>1, <3>2, <3>3
    <3>6. h = s \o b
      BY <3>1, <3>2, <3>3, <3>4, <3>5, JoinedIs
    <3> QED BY <3>2, <3>3, <3>6
  <2>4. PICK S \in Seq(SoftItem) : S = AllData(s)
    BY <2>3, AllDataIs
  <2>5. PICK B \in Seq(SoftItem) : B = AllData(b)
    BY <2>3, AllDataIs
  <2>6. H = S \o B
    BY <1>5, <2>3, <2>4, <2>5, AllDataJoins
  <2>7. soft' = Peeled(soft, r)
    <3>1. ~(Len(h) < Run)
      BY <1>2, <1>10
    <3> QED BY <1>3, <1>4, <1>10, <3>1 DEF SoftScan
  <2>8. soft'.out = q \o S /\ soft'.hold = Append(b, r)
    <3>1. PICK p : p = [soft EXCEPT !.out = soft.out \o AllData(s)]
      OBVIOUS
    <3>2. p.out = q \o S /\ p.hold = h /\ DOMAIN p = {"hold", "bm", "code", "suf", "fstate", "out"}
      BY <1>2, <1>3, <2>4, <3>1
    <3>3. soft' = [p EXCEPT !.hold = Append(SubSeq(p.hold, 2, Run), r)]
      BY <1>3, <2>1, <2>7, <3>1 DEF Peeled, Put
    <3> QED BY <2>2, <3>2, <3>3
  <2>9. AllData(soft'.hold) = B \o <<Data(r)>>
    <3>1. Append(b, r) = b \o <<r>>
      BY <2>3
    <3> QED BY <1>3, <1>6, <2>3, <2>5, <2>8, <3>1, AllDataJoins
  <2>10. B \o <<Data(r)>> \in Seq(SoftItem)
    BY <1>6, <2>5
  <2>11. (q \o S) \o (B \o <<Data(r)>>) = q \o (S \o (B \o <<Data(r)>>))
    BY <1>2, <2>4, <2>10, Assoc
  <2>12. S \o (B \o <<Data(r)>>) = (S \o B) \o <<Data(r)>>
    BY <1>6, <2>4, <2>5, Assoc
  <2> QED BY <1>3, <1>5, <1>8, <2>6, <2>8, <2>9, <2>11, <2>12
<1>11. CASE Classified(r) # "1" /\ ~(Classified(r) = "0" /\ Len(h) = Run)
  <2>1. PICK s : s = Append(h, r)
    OBVIOUS
  <2>2. soft' = [Put(soft, s) EXCEPT !.hold = <<>>]
    BY <1>3, <1>4, <1>11, <2>1 DEF SoftScan
  <2>3. PICK p : p = [soft EXCEPT !.out = soft.out \o AllData(s)]
    OBVIOUS
  <2>4. p.out = q \o AllData(s) /\ DOMAIN p = {"hold", "bm", "code", "suf", "fstate", "out"}
    BY <1>2, <1>3, <2>3
  <2>5. soft' = [p EXCEPT !.hold = <<>>]
    BY <2>2, <2>3 DEF Put
  <2>6. soft'.out = q \o (H \o <<Data(r)>>) /\ soft'.hold = <<>>
    BY <1>7, <2>1, <2>4, <2>5
  <2>7. AllData(<<>>) = <<>>
    BY DEF AllData
  <2>8. q \o (H \o <<Data(r)>>) \in Seq(SoftItem)
    BY <1>2, <1>5, <1>6, JoinedHas
  <2>9. (q \o (H \o <<Data(r)>>)) \o <<>> = q \o (H \o <<Data(r)>>)
    BY <2>8, ConcatEmptySeq
  <2> QED BY <1>3, <1>5, <1>8, <2>6, <2>7, <2>9
<1>12. CASE Classified(r) = "0" /\ Len(h) = Run
  <2>1. soft' = [soft EXCEPT !.code = 0, !.bm = "CODE2"]
    BY <1>3, <1>4, <1>12 DEF SoftScan
  <2>2. soft'.bm = "CODE2"
    BY <1>2, <2>1
  <2> QED BY <2>2
<1>13. Len(h) < Run \/ Len(h) = Run
  BY <1>2
<1> QED BY <1>9, <1>10, <1>11, <1>12, <1>13

-----------------------------------------------------------------------------
(* The theorems.                                                           *)

\* The inductive invariant.
DecoderInv == Steady(dec) /\ got \in Seq(Bit) /\ feeding \in BOOLEAN

LEMMA InitSteady ==
  ASSUME DecInit
  PROVE  DecoderInv
<1>1. dec = FreshDecoder /\ got = <<>> /\ feeding = FALSE
  BY DEF DecInit
<1>2. <<>> \in Seq(Bit)
  OBVIOUS
<1> QED BY <1>1, <1>2, FreshSteady DEF DecoderInv

\* One step per action.
LEMMA NextSteady ==
  ASSUME DecoderInv, [DecNext]_decvars
  PROVE  DecoderInv'
<1>1. Steady(dec) /\ got \in Seq(Bit) /\ feeding \in BOOLEAN
  BY DEF DecoderInv
<1>2. ASSUME NEW b \in Bit, Feed(b) PROVE DecoderInv'
  <2>1. Steady(dec')
    BY <1>1, <1>2, FedSteady DEF Feed
  <2> QED BY <1>2, <2>1 DEF Feed, DecoderInv
<1>3. ASSUME NEW room \in 0..MaxRoom, Return(room) PROVE DecoderInv'
  <2>1. room \in Nat /\ Returns(dec, room)
    BY <1>3, BoundsAssumption DEF Return
  <2> QED BY <1>1, <2>1, ReturnsSteady DEF DecoderInv
<1>4. ASSUME NEW room \in 0..MaxRoom, Finalize(room) PROVE DecoderInv'
  <2>1. room \in Nat /\ Returns(Closed(dec), room)
    BY <1>4, BoundsAssumption DEF Finalize
  <2>2. Steady(Closed(dec))
    BY <1>1, ClosedSteady
  <2> QED BY <2>1, <2>2, ReturnsSteady DEF DecoderInv
<1>5. CASE UNCHANGED decvars
  BY <1>1, <1>5 DEF decvars, DecoderInv
<1> QED BY <1>2, <1>3, <1>4, <1>5 DEF DecNext

\* Whatever arrives and however the calls are cut, the decoder stays steady.
THEOREM MarkerSteady == DecSpec => []DecoderInv
<1>1. DecInit => DecoderInv
  BY InitSteady
<1>2. DecoderInv /\ [DecNext]_decvars => DecoderInv'
  BY NextSteady
<1> QED BY <1>1, <1>2, PTL DEF DecSpec

\* The decoder's registers and queue keep their types: in particular the held
\* ones never pass Run (marker.c d_feed) and no code leaves 0..3.
THEOREM MarkerTypeOK == DecSpec => []DecoderTypeOK
<1>1. DecoderInv => DecoderTypeOK
  BY DEF DecoderInv, Steady, DecoderTypeOK
<1> QED BY <1>1, MarkerSteady, PTL

\* The decoder never rests in BEGIN or END, nor reports a bit in them.
THEOREM MarkerMomentary == DecSpec => []MomentaryStates
<1>1. DecoderInv => MomentaryStates
  BY DEF DecoderInv, Steady, WalkOf, Walk, Regular, MomentaryStates
<1> QED BY <1>1, MarkerSteady, PTL

\* Comparing get_state() before and after a call sees every transition.
THEOREM MarkerMoves == DecSpec => []EveryTransitionMoves
<1>1. DecoderInv => EveryTransitionMoves
  <2> SUFFICES ASSUME DecoderInv,
                      NEW i \in 1..Len(Walk), NEW j \in 1..Len(Walk), i < j,
                      Walk[i] \in FState, Walk[j] \in FState,
                      \A k \in (i + 1)..(j - 1) : Walk[k] \notin FState
               PROVE  Walk[i] # Walk[j]
    BY DEF EveryTransitionMoves
  <2>1. Walk \in Seq(Token)
    <3>1. dec.fstate \in FState /\ dec.out \in Seq(Token)
      BY DEF DecoderInv, Steady, DecoderState
    <3> QED BY <3>1, WalkItems DEF Walk
  <2>2. Regular(Walk)
    BY DEF DecoderInv, Steady, WalkOf, Walk
  <2> QED BY <2>1, <2>2, RegularMoves
<1> QED BY <1>1, MarkerSteady, PTL

\* The frame decoder pipe keeps its invariant.
THEOREM FramePipeSafe == PipeSpec => []PipeInv
<1>1. Pipe!Init => PipeInv
  BY PipeInitInv
<1>2. PipeInv /\ [Pipe!Next]_(Pipe!vars) => PipeInv'
  BY PipeNextInv DEF Pipe!vars, pipevars
<1> QED BY <1>1, <1>2, PTL DEF PipeSpec, Pipe!Spec

\* Its registers, its FIFOs and its handlers' locals keep their types.
THEOREM FramePipeTypeOK == PipeSpec => []PipeTypeOK
<1>1. PipeInv => PipeTypeOK
  BY DEF PipeInv
<1> QED BY <1>1, FramePipeSafe, PTL

\* No bit from behind a boundary joins the run in front of it, even when that
\* run fills the room of its decode() and the tick's loop goes on.
THEOREM FrameRunsNeverMerge == PipeSpec => RunsNeverMerge
<1>1. ASSUME PipeInv, [Pipe!Next]_(Pipe!vars), pc = "tick", MarkerState(pdec) # prev
      PROVE  pout' = pout
  <2>1. pdec.fstate # prev /\ MovedIsOver /\ Steady(pdec) /\ pout \in Seq(Bit)
    BY <1>1 DEF MarkerState, PipeInv, PipeTypeOK
  <2>2. pin = <<>> /\ (pdec.out = <<>> \/ pdec.out[1] \in FState)
    BY <1>1, <2>1 DEF MovedIsOver
  <2>3. ASSUME NEW room \in Reserve..(Reserve + Slack), Pipe!Call(room)
        PROVE  pout' = pout
    <3>1. PICK e, w, s : CallDid(room, e, w, s)
      BY <1>1, <2>3, RoomIs, CallDoes
    <3>2. /\ e = FedAll(pdec, pin) /\ w \in Stops(e, room) /\ s \in Seq(Bit) /\ Len(s) = w
          /\ pout' = pout \o s
      BY <3>1 DEF CallDid
    <3>3. e = pdec
      BY <2>1, <2>2, <3>2, FedNone
    <3>4. w \in 0..Len(pdec.out) /\ \A i \in 1..w : pdec.out[i] \notin FState
      BY <3>2, <3>3 DEF Stops
    <3>5. w = 0
      <4>1. CASE pdec.out = <<>>
        BY <3>4, <4>1
      <4>2. CASE pdec.out[1] \in FState
        BY <3>4, <4>2
      <4> QED BY <2>2, <4>1, <4>2
    <3>6. s = <<>>
      BY <3>2, <3>5
    <3> QED BY <2>1, <3>2, <3>6
  <2>4. CASE UNCHANGED Pipe!vars
    BY <2>4 DEF Pipe!vars
  <2>5. CASE Pipe!Next
    BY <1>1, <2>3, <2>5
       DEF Pipe!Next, Pipe!Push, Pipe!Pull, Pipe!Tick, Pipe!Finalize, Pipe!Advance,
           Pipe!Edge, Pipe!NoMemory
  <2> QED BY <1>1, <2>4, <2>5
<1>2. PipeInv /\ [Pipe!Next]_(Pipe!vars) =>
        [pc = "tick" /\ MarkerState(pdec) # prev => pout' = pout]_(Pipe!vars)
  BY <1>1
<1> QED BY <1>2, FramePipeSafe, PTL DEF PipeSpec, Pipe!Spec, RunsNeverMerge, Pipe!RunsNeverMerge

\* Bits and boundaries pass the pipe in order, each once: by ticks that stop
\* at a boundary, by decodes that fill their room, by handlers that run out of
\* memory half way, and by a finalize() whose drain finds its own end.
THEOREM FramePipeReads == PipeSpec => ImplementsFrameReader
<1>1. Pipe!Init => Reader!RInit
  <2> SUFFICES ASSUME Pipe!Init PROVE Reader!RInit
    OBVIOUS
  <2>1. pdec = FreshDecoder /\ pin = <<>> /\ pout = <<>>
    BY DEF Pipe!Init
  <2>2. Unread = <<>> /\ pdec.fstate = "OUTSIDE"
    <3>1. FedAll(FreshDecoder, <<>>) = FreshDecoder
      BY FreshSteady, FedNone
    <3> QED BY <2>1, <3>1 DEF Unread, FreshDecoder
  <2> QED BY <2>1, <2>2 DEF Reader!RInit
<1>2. PipeInv /\ [Pipe!Next]_(Pipe!vars) => [Reader!RNext]_(Reader!rvars)
  <2> SUFFICES ASSUME PipeInv, [Pipe!Next]_(Pipe!vars)
               PROVE  [Reader!RNext]_(Reader!rvars)
    OBVIOUS
  <2>1. ASSUME NEW b \in Bit, Pipe!Push(b) PROVE Reader!RNext
    BY <2>1, PushReads DEF Reader!RNext
  <2>2. ASSUME NEW n \in 1..Len(pout), Pipe!Pull(n) PROVE Reader!RNext
    <3>1. Reader!Read(n)
      BY <2>2 DEF Pipe!Pull, Reader!Read, Unread
    <3> QED BY <3>1 DEF Reader!RNext
  <2>3. ASSUME UNCHANGED <<pin, pout, pdec>> PROVE UNCHANGED Reader!rvars
    BY <2>3 DEF Reader!rvars, Unread
  <2>4. ASSUME NEW room \in Reserve..(Reserve + Slack), Pipe!Call(room)
        PROVE  Reader!RNext
    BY <2>4, RoomIs, CallReads DEF Reader!RNext
  <2>5. ASSUME NEW room \in EdgeRoom..(EdgeRoom + Slack), Pipe!Edge(room)
        PROVE  Reader!RNext
    BY <2>5, RoomIs, EdgeReads DEF Reader!RNext
  <2>6. CASE Pipe!Tick \/ Pipe!Finalize \/ Pipe!Advance \/ Pipe!NoMemory
    BY <2>3, <2>6 DEF Pipe!Tick, Pipe!Finalize, Pipe!Advance, Pipe!NoMemory
  <2>7. CASE UNCHANGED Pipe!vars
    BY <2>3, <2>7 DEF Pipe!vars
  <2> QED BY <2>1, <2>2, <2>4, <2>5, <2>6, <2>7 DEF Pipe!Next
<1> QED BY <1>1, <1>2, FramePipeSafe, PTL
        DEF PipeSpec, Pipe!Spec, ImplementsFrameReader, Reader!RSpec

\* The soft decoder sees the frames that the hard one sees behind a hardening
\* pipe, step for step, and passes on the records it received, in order and
\* unchanged - for every run length and any set of records without a tie.
THEOREM SoftMarkerFollows ==
  ASSUME SoftConstants
  PROVE  SoftSpec => SoftFollowsHard
<1>1. SoftInit => Held(soft) /\ Hard!DecInit
  <2> SUFFICES ASSUME SoftInit PROVE Held(soft) /\ Hard!DecInit
    OBVIOUS
  <2>1. <<>> \in Seq(HeldOnes) /\ <<>> \in Seq(SoftItem) /\ Len(<<>>) = 0 /\ 0 <= Run
    BY FormatAssumption
  <2>2. soft = SoftParts(<<>>, "SCAN", 0, 0, "OUTSIDE", <<>>) /\ sgot = <<>> /\ sfeeding = FALSE
    BY DEF SoftInit, SoftParts
  <2>3. SoftHas(soft, <<>>, "SCAN", 0, 0, "OUTSIDE", <<>>)
    BY <2>1, <2>2 DEF SoftHas, Modes, FState
  <2>4. HardOf(soft) = HardParts(0, "SCAN", 0, 0, "OUTSIDE", HardQueue(<<>>)) /\ Held(soft)
    BY <2>1, <2>3, HasHard
  <2>5. HardQueue(<<>>) = <<>> /\ HardAll(<<>>) = <<>>
    BY DEF HardQueue, HardAll
  <2>6. HardOf(soft) = FreshDecoder
    BY <2>4, <2>5 DEF HardParts, FreshDecoder
  <2>7. HardAll(sgot) = <<>>
    BY <2>2, <2>5
  <2> QED BY <2>2, <2>4, <2>6, <2>7, MappedIs, SameMachine DEF Hard!DecInit
<1>2. Held(soft) /\ [SoftNext]_softvars => Held(soft)'
  BY SoftStepFollows
<1>3. Held(soft) /\ [SoftNext]_softvars => [Hard!DecNext]_(Hard!decvars)
  BY SoftStepFollows
<1>4. Held(soft) /\ [SoftNext]_softvars => [PassesOn]_softvars
  <2> SUFFICES ASSUME Held(soft) PROVE PassesOn
    OBVIOUS
  <2> QED BY SoftPassesOn DEF PassesOn
<1> QED BY <1>1, <1>2, <1>3, <1>4, PTL
        DEF SoftSpec, SoftFollowsHard, SameStructure, Hard!DecSpec

=============================================================================
