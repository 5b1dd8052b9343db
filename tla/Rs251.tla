------------------------------- MODULE Rs251 -------------------------------
(***************************************************************************)
(* The Reed-Solomon block codec of src/bc/rs251.c over the library in      *)
(* contrib/rs251: a block of bytes becomes k symbols of a prime field,     *)
(* which are the first of n values of a polynomial of degree below k.      *)
(* Decoding interpolates what was received and runs Euclid's algorithm     *)
(* part of the way (Gao); the soft decoder erases the symbol it trusts     *)
(* least and tries again.  Prime stands for 251, Base for 256.             *)
(***************************************************************************)
EXTENDS Integers, Sequences, FiniteSets

CONSTANTS Prime, Base,     \* the field, and what fits a byte
          Codes,           \* [n, k, spare]
          Blocks,          \* blocks that may be received, of symbols in 0..Base
          Trusts           \* and how little the soft decoder trusts each symbol

ASSUME Rs251Assumption ==
  /\ Prime \in Nat /\ Base \in Nat /\ Prime > 1 /\ Base > Prime
  /\ \A c \in Codes : c.k \in 1..c.n /\ c.n <= Prime /\ c.spare \in 0..(c.n - c.k)

VARIABLES code, hard,     \* the code, and which decoder
          heard, trust,   \* the received block, and what the soft decoder thinks of it
          known,          \* its symbols, some erased since
          answer, decoded \* "pending", "decoded" or "failed", and the bytes

rsvars == <<code, hard, heard, trust, known, answer, decoded>>

Field   == 0..(Prime - 1)
Unread  == Base    \* eight bits of which one is no boolean
Erased  == Prime   \* RS251_ERASURE: no element of the field

-----------------------------------------------------------------------------
(* The field, and polynomials as coefficients in ascending degree.         *)
Power(a, exp) ==
  LET up[e \in 0..exp] == IF e = 0 THEN 1 ELSE (up[e-1] * a) % Prime IN up[exp]

Over(a, b) == (a * Power(b, Prime - 2)) % Prime

Trim(p) == SubSeq(p, 1, CHOOSE l \in 0..Len(p) :
                          (l > 0 => p[l] # 0) /\ \A i \in (l+1)..Len(p) : p[i] = 0)

Degree(p) == Len(p) - 1

Eval(p, x) ==
  LET upTo[i \in 1..(Len(p)+1)] == IF i > Len(p) THEN 0 ELSE (upTo[i+1] * x + p[i]) % Prime
  IN  upTo[1]

Coeff(p, i) == IF i \in DOMAIN p THEN p[i] ELSE 0

TimesLinear(p, root) ==
  [i \in 1..(Len(p)+1) |-> (Coeff(p, i-1) + (Prime - root) * Coeff(p, i)) % Prime]

Times(a, b) ==
  IF a = <<>> \/ b = <<>> THEN <<>>
  ELSE [i \in 1..(Len(a) + Len(b) - 1) |->
          LET upTo[j \in 0..Len(a)] ==
                IF j = 0 THEN 0 ELSE (upTo[j-1] + a[j] * Coeff(b, i - j + 1)) % Prime
          IN  upTo[Len(a)]]

Minus(a, b) ==
  Trim([i \in 1..(IF Len(a) > Len(b) THEN Len(a) ELSE Len(b)) |->
          (Coeff(a, i) + Prime - Coeff(b, i)) % Prime])

\* poly_divmod: quotient and remainder, from the leading term down.
DivMod(a, b) ==
  LET turns == IF Len(a) < Len(b) THEN 0 ELSE Len(a) - Len(b) + 1
      at[t \in 0..turns] ==
        IF t = 0 THEN <<[i \in 1..turns |-> 0], a>>
        ELSE LET before == at[t-1]
                 d      == turns - t
                 factor == Over(before[2][d + Len(b)], b[Len(b)])
             IN  <<[before[1] EXCEPT ![d+1] = factor],
                   [i \in DOMAIN a |-> (before[2][i] + (Prime - factor) * Coeff(b, i - d)) % Prime]>>
  IN  [q |-> at[turns][1], r |-> Trim(at[turns][2])]

\* poly_vanishing.
Vanishing(xs) ==
  LET upTo[i \in 0..Len(xs)] == IF i = 0 THEN <<1>> ELSE TimesLinear(upTo[i-1], xs[i])
  IN  upTo[Len(xs)]

\* poly_interpolate.
Interpolated(xs, ys) ==
  LET basis == [i \in DOMAIN xs |->
                  Vanishing(SubSeq(xs, 1, i - 1) \o SubSeq(xs, i + 1, Len(xs)))]
      scale == [i \in DOMAIN xs |-> Over(ys[i], Eval(basis[i], xs[i]))]
  IN  Trim([j \in DOMAIN xs |->
              LET upTo[i \in 0..Len(xs)] ==
                    IF i = 0 THEN 0 ELSE (upTo[i-1] + scale[i] * basis[i][j]) % Prime
              IN  upTo[Len(xs)]])

\* partial_eea: the remainder at which it stops, and its coefficient.
PartialEuclid(g0, g1, stop) ==
  LET at[t \in 0..Len(g0)] ==
        IF t = 0 THEN [prev |-> g0, cur |-> g1, vprev |-> <<>>, v |-> <<1>>]
        ELSE LET b == at[t-1]
             IN  IF Degree(b.cur) < stop THEN b
                 ELSE LET qr == DivMod(b.prev, b.cur)
                      IN  [prev |-> b.cur, cur |-> qr.r, vprev |-> b.v,
                           v |-> Minus(b.vprev, Times(qr.q, b.v))]
  IN  at[Len(g0)]

-----------------------------------------------------------------------------
(* Digits, most significant first.                                         *)
Number(digits, base) ==
  LET upTo[i \in 0..Len(digits)] == IF i = 0 THEN 0 ELSE upTo[i-1] * base + digits[i]
  IN  upTo[Len(digits)]

Digits(value, base, len) ==
  LET rest[i \in 0..len] == IF i = 0 THEN value ELSE rest[i-1] \div base
  IN  [i \in 1..len |-> rest[len-i] % base]

Bytes(c) == c.k - 1

\* rs251_bytes_to_message.
ToMessage(c, bytes) == Digits(Number(bytes, Base), Prime, c.k)

\* rs251_message_to_bytes refuses what is no block of bytes.
HasBytes(c, msg) == Number(msg, Prime) < Base ^ Bytes(c)

ToBytes(c, msg) == Digits(Number(msg, Prime), Base, Bytes(c))

\* rs251_encoder_encode with rs251_encode: systematic.
Encoded(c, bytes) ==
  LET msg == ToMessage(c, bytes)
      f   == Interpolated([i \in 1..c.k |-> i - 1], msg)
  IN  [i \in 1..c.n |-> IF i <= c.k THEN msg[i] ELSE Eval(f, i - 1)]

-----------------------------------------------------------------------------
Surviving(c, word) == SelectSeq([i \in 1..c.n |-> i], LAMBDA i : word[i] # Erased)

Erasures(c, word) == c.n - Len(Surviving(c, word))

Wrong(c, word, f) == Cardinality({i \in 1..c.n : word[i] # Erased /\ word[i] # Eval(f, i - 1)})

Budget(c) == c.n - c.k

Refused == [ok |-> FALSE]

WithinBound(c, word, f) == 2 * Wrong(c, word, f) + Erasures(c, word) <= Budget(c)

\* rs251_decode.
Corrected(c, word) ==
  LET left == Surviving(c, word)
      xs   == [i \in DOMAIN left |-> left[i] - 1]
      ys   == [i \in DOMAIN left |-> word[left[i]]]
      e    == PartialEuclid(Vanishing(xs), Interpolated(xs, ys), (Len(left) + c.k + 1) \div 2)
      fr   == DivMod(e.cur, e.v)
  IN  IF Erasures(c, word) > Budget(c) THEN Refused
      ELSE IF e.v = <<>> \/ fr.r # <<>> \/ Degree(fr.q) >= c.k THEN Refused
      ELSE IF ~WithinBound(c, word, fr.q) THEN Refused
      ELSE [ok |-> TRUE, errors |-> Wrong(c, word, fr.q),
            msg |-> [i \in 1..c.k |-> Eval(fr.q, i - 1)]]

\* What the decoders of src/bc/rs251.c keep back of the budget.
SparesLeft(c, errors, erasures) == 2 * errors + erasures + c.spare <= Budget(c)

\* A decode that the block decoders accept.
Accepts(c, word, result) ==
  result.ok /\ SparesLeft(c, result.errors, Erasures(c, word)) /\ HasBytes(c, result.msg)

\* pack_symbol, soft_pack_symbol.
Packed(symbol) == IF symbol \in Field THEN symbol ELSE Erased

RsInit ==
  /\ code \in Codes /\ hard \in BOOLEAN
  /\ heard \in {b \in Blocks : Len(b) = code.n}
  /\ trust \in (IF hard THEN {<<>>} ELSE {t \in Trusts : Len(t) = code.n})
  /\ known = [i \in 1..code.n |-> Packed(heard[i])]
  /\ answer = "pending" /\ decoded = <<>>

Deliver(result) == answer' = "decoded" /\ decoded' = ToBytes(code, result.msg)
Fail            == answer' = "failed" /\ UNCHANGED decoded

\* rs251_decoder_decode.
DecodeHard ==
  /\ hard /\ answer = "pending"
  /\ \E result \in {Corrected(code, known)} :
       IF Accepts(code, known, result) THEN Deliver(result) ELSE Fail
  /\ UNCHANGED <<code, hard, heard, trust, known>>

VictimMostTrusted(word) ==   \* slip: the wrong end
  CHOOSE i \in {j \in 1..code.n : word[j] # Erased} :
    \A j \in {l \in 1..code.n : word[l] # Erased} \ {i} :
      trust[i] < trust[j] \/ (trust[i] = trust[j] /\ i < j)

\* The least trusted symbol that is left, the first of those.
Victim(word) ==
  CHOOSE i \in {j \in 1..code.n : word[j] # Erased} :
    \A j \in {l \in 1..code.n : word[l] # Erased} \ {i} :
      trust[i] > trust[j] \/ (trust[i] = trust[j] /\ i < j)

Without(word) == [word EXCEPT ![Victim(word)] = Erased]

\* A round of rs251_soft_decoder_decode.
DecodeSoft ==
  /\ ~hard /\ answer = "pending"
  /\ \E result \in {Corrected(code, known)} :
       IF Accepts(code, known, result)
       THEN Deliver(result) /\ UNCHANGED known
       ELSE IF Erasures(code, known) >= Budget(code)
       THEN Fail /\ UNCHANGED known
       ELSE known' = Without(known) /\ UNCHANGED <<answer, decoded>>
  /\ UNCHANGED <<code, hard, heard, trust>>

RsNext == DecodeHard \/ DecodeSoft

-----------------------------------------------------------------------------
(* The reference: the words of the code, as values of a polynomial, that    *)
(* stand for a block of bytes.                                             *)
Sent == [c \in Codes |->
  {w \in {[i \in 1..c.n |->
             LET upTo[d \in 0..c.k] == IF d = 0 THEN 0 ELSE upTo[d-1] + f[d] * Power(i - 1, d - 1)
             IN  upTo[c.k] % Prime] : f \in [1..c.k -> Field]} :
     Number(SubSeq(w, 1, c.k), Prime) < Base ^ Bytes(c)}]

\* Those a received word is within reach of, spares kept.
Reachable(word) ==
  {w \in Sent[code] :
     2 * Cardinality({i \in DOMAIN word : word[i] \notin {Erased, w[i]}})
       + Cardinality({i \in DOMAIN word : word[i] = Erased}) <= code.n - code.k - code.spare}

AnswersFor(word) ==
  IF Reachable(word) = {} THEN answer = "failed"
  ELSE answer = "decoded" /\ \A w \in Reachable(word) : ToMessage(code, decoded) = SubSeq(w, 1, code.k)
                                                    /\ Encoded(code, decoded) = w

Received == [i \in 1..code.n |-> Packed(heard[i])]

\* The block decoder answers with the one block of bytes whose code word the
\* received block is within reach of, errors costing two, erasures one and the
\* spares kept (rs251.h), and with a failure when there is none; the encoder
\* takes the bytes back to that word.
RsHardExact == hard /\ answer # "pending" => AnswersFor(Received)

\* The received block without its j least trusted symbols.
WithoutLeast(j) ==
  LET readable == {i \in 1..code.n : Received[i] # Erased}
      before(i) == {l \in readable : trust[l] > trust[i] \/ (trust[l] = trust[i] /\ l < i)}
  IN  [i \in 1..code.n |-> IF i \in readable /\ Cardinality(before(i)) < j THEN Erased
                           ELSE Received[i]]

\* The soft decoder gives up as few symbols as it can: it answers for the
\* first word within reach, taking away one symbol at a time from the least
\* trusted on, and fails only when the whole budget went on erasures.
RsSoftExact ==
  ~hard /\ answer # "pending" =>
    LET reached(j) == Reachable(WithoutLeast(j)) # {}
        rounds     == 0..code.n
    IN  IF \E j \in rounds : reached(j)
        THEN \E j \in rounds : /\ reached(j) /\ \A i \in 0..(j-1) : ~reached(i)
                              /\ AnswersFor(WithoutLeast(j))
        ELSE answer = "failed"

\* Both block decoders answer as rs251.h has them answer.
RsExact == RsHardExact /\ RsSoftExact
=============================================================================
