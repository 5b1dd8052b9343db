----------------------------- MODULE Detector -----------------------------
(***************************************************************************)
(* The acquisition detectors of src/cc/detect_clean and detect_noisy: a    *)
(* window slides over the input, each window adds its evidence to every    *)
(* position it covers, and a position is reported once no later window can *)
(* cover it.  detect_clean looks through a window for every stride and     *)
(* keeps the evidence of each; detect_noisy takes one window and the best  *)
(* of its strides.  The last windows of a stream are the shorter ones that *)
(* still fit.  src holds the whole stream a run is fed, fed how much of it *)
(* has been.                                                               *)
(***************************************************************************)
EXTENDS Integers, Sequences, FiniteSets

(* The evidence.  detect_clean: how far the rows of a window stay below    *)
(* full rank over GF(2).  detect_noisy: how strongly a parity check is     *)
(* biased over them.  Both: where the invalid symbols lie.  A row with a   *)
(* symbol that is no boolean is left out.                                  *)
CONSTANTS Width    \* DET_W, DET_LC: symbols of a row

Binary == {0, 1}
NotBit == 2   \* DET_NOTBIT: an erasure or an absence
Inval  == 3   \* DET_INVAL

\* The rows of a window, one every stride, those of booleans alone.
Rows(win, stride) ==
  LET turns   == IF Len(win) < Width THEN 0 ELSE (Len(win) - Width) \div stride + 1
      slice(t) == SubSeq(win, (t - 1) * stride + 1, (t - 1) * stride + Width)
  IN  SelectSeq([t \in 1..turns |-> slice(t)], LAMBDA r : \A i \in 1..Width : r[i] \in Binary)

-----------------------------------------------------------------------------
(* detect_clean: the rank, row by row against the pivots found so far.     *)
Xor(a, b) == [i \in 1..Width |-> (a[i] + b[i]) % 2]

Leads(row, i) == row[i] = 1 /\ \A j \in 1..(i-1) : row[j] = 0

NoRow == [i \in 1..Width |-> 0]

\* The row, as long as some pivot leads like it, less that pivot.
Reduced(row, pivots) ==
  LET after[i \in 0..Width] ==
        IF i = 0 THEN row
        ELSE LET r == after[i-1]
             IN  IF Leads(r, i) /\ pivots[i] # NoRow THEN Xor(r, pivots[i]) ELSE r
  IN  after[Width]

\* gf2_rank.
Rank(rows) ==
  LET pivots[t \in 0..Len(rows)] ==
        IF t = 0 THEN [i \in 1..Width |-> NoRow]
        ELSE LET r == Reduced(rows[t], pivots[t-1])
             IN  IF r = NoRow THEN pivots[t-1] ELSE [i \in 1..Width |-> IF Leads(r, i) THEN r ELSE pivots[t-1][i]]
  IN  Cardinality({i \in 1..Width : pivots[Len(rows)][i] # NoRow})

\* What a full rank would have and these rows have not.
Deficiency(rows) == (IF Len(rows) < Width THEN Len(rows) ELSE Width) - Rank(rows)

-----------------------------------------------------------------------------
(* detect_noisy: a histogram of the rows and its Walsh-Hadamard transform. *)
Size == 2 ^ Width

Value(row) ==
  LET upTo[i \in 0..Width] == IF i = 0 THEN 0 ELSE 2 * upTo[i-1] + row[i] IN upTo[Width]

Histogram(rows) == [v \in 0..(Size-1) |-> Cardinality({t \in DOMAIN rows : Value(rows[t]) = v})]

\* fwht: butterflies of 1, 2, 4, ...
Transformed(acc) ==
  LET after[l \in 0..Width] ==
        IF l = 0 THEN acc
        ELSE LET half   == 2 ^ (l - 1)
                 before == after[l-1]
             IN  [v \in 0..(Size-1) |->
                    IF (v \div half) % 2 = 0 THEN before[v] + before[v + half]
                    ELSE before[v - half] - before[v]]
  IN  after[Width]

Magnitude(x) == IF x < 0 THEN -x ELSE x

\* window_max_bias: the largest coefficient but the first.
MaxBias(rows) ==
  LET spectrum == Transformed(Histogram(rows))
  IN  CHOOSE b \in {Magnitude(spectrum[c]) : c \in 1..(Size-1)} :
        \A c \in 1..(Size-1) : Magnitude(spectrum[c]) <= b

-----------------------------------------------------------------------------
(* invalid_units: lone invalid symbols, and runs of unlike lengths.        *)
RunsOf(win) ==
  {r \in (DOMAIN win) \X (DOMAIN win) :
     /\ r[1] <= r[2] /\ \A i \in r[1]..r[2] : win[i] = Inval
     /\ r[1] > 1 => win[r[1] - 1] # Inval
     /\ r[2] < Len(win) => win[r[2] + 1] # Inval}

InvalidUnits(win) ==
  LET lengths == {r[2] - r[1] + 1 : r \in RunsOf(win)}
      singles == Cardinality({r \in RunsOf(win) : r[1] = r[2]})
  IN  singles + (IF Cardinality(lengths) > 1 THEN Cardinality(lengths) - 1 ELSE 0)

-----------------------------------------------------------------------------
(* The windows.                                                            *)
CONSTANTS Strides,           \* 2..DET_SMAX, an interval
          Margin,            \* DET_MARGIN: rows a window of detect_clean has beyond Width
          Span, MinSpan,     \* DET_L and DET_MINL of detect_noisy
          Step,              \* DET_STEP
          Floor,             \* <<num, den>>: bias^2 * rows over which detect_noisy sees a peak
          Streams,           \* streams that may be fed
          FirstHold,          \* the first growth of a buffer
          Chunk,             \* DETECT_SOFT_CHUNK
          MaxFeed, MaxAsk   \* bounds: symbols fed and records asked for in one call

\* A row takes a symbol; strides are an interval from two; the shorter windows
\* are no longer than the full one, nor is the slide.
ASSUME DetectorAssumption ==
  /\ Width \in Nat \ {0} /\ Margin \in Nat /\ Span \in Nat /\ MinSpan \in 0..Span
  /\ \E top \in Strides : top >= 2 /\ Strides = 2..top
  /\ Step \in 1..Span /\ \E s \in Strides : Step <= s * (Width + Margin) + Width
  /\ Chunk \in Nat \ {0} /\ MaxFeed \in Nat /\ MaxAsk \in Nat

VARIABLES kind,             \* "clean" or "noisy"
          src, fed,         \* the stream and how much of it was fed
          window,           \* the symbols buffered and the evidence on each
          incap,            \* what the buffer holds before it grows
          next,             \* next_start
          out, outcap,      \* records waiting to be collected
          given,            \* records collected
          finalized,        \* the tail was worked off
          failed            \* the last call ran out of memory

detvars == <<kind, src, fed, window, incap, next, out, outcap, given, finalized, failed>>

Larger(a, b)  == IF a > b THEN a ELSE b
Smaller(a, b) == IF a < b THEN a ELSE b

\* DET_LWIN.
CleanLength(s) == s * (Width + Margin) + Width

Widest   == CHOOSE s \in Strides : \A t \in Strides : t <= s
LongestWindow  == IF kind = "clean" THEN CleanLength(Widest) ELSE Span
ShortestWindow == IF kind = "clean" THEN CleanLength(2) ELSE MinSpan

\* Index of window[1] in the stream, counted from 0.
FirstHeld == fed - Len(window)

-----------------------------------------------------------------------------
(* Evidence on a position.  clean: the largest deficiency and the largest  *)
(* number of rows; noisy: the strongest peak, as the square of the bias    *)
(* over its random floor.  units: of invalid symbols badly placed.         *)
Uncovered == [peak |-> <<-1, 1>>, rows |-> -1, units |-> 0]

Stronger(p, q) == IF p[1] * q[2] >= q[1] * p[2] THEN p ELSE q

PooledLatest(e, f) == f   \* slip: the latest window's evidence, the strongest or not

\* What two windows show together.
Pooled(e, f) == [peak |-> Stronger(e.peak, f.peak), rows |-> Larger(e.rows, f.rows),
                 units |-> Larger(e.units, f.units)]

\* One window and stride; nothing when no row is usable.
Measured(win, stride) ==
  LET rows == Rows(win, stride)
      n    == Len(rows)
  IN  IF n = 0 THEN Uncovered
      ELSE [peak |-> IF kind = "clean" THEN <<Deficiency(rows), 1>>
                     ELSE <<MaxBias(rows) ^ 2, n>>,
            rows |-> IF kind = "clean" THEN n ELSE 0, units |-> 0]

\* The windows of a start with end symbols from it on: length -> strides.
CleanWindows(end) == {<<CleanLength(s), s>> : s \in {t \in Strides : CleanLength(t) <= end}}

NoisyWindows(end) ==
  IF end < MinSpan THEN {} ELSE {<<Smaller(Span, end), s>> : s \in Strides}

WindowsFrom(end) == IF kind = "clean" THEN CleanWindows(end) ELSE NoisyWindows(end)

\* process_start, on the symbols from its start on.
Scored(from) ==
  LET symbols == [i \in DOMAIN from |-> from[i].symbol]
      windows == WindowsFrom(Len(from))
      reach   == CHOOSE l \in {0} \cup {w[1] : w \in windows} : \A w \in windows : w[1] <= l
      units   == InvalidUnits(SubSeq(symbols, 1, reach))
      found   == [w \in windows |-> Measured(SubSeq(symbols, 1, w[1]), w[2])]
      pool(i) == LET upTo[s \in {1} \cup Strides] ==
                       LET at == {w \in windows : w[2] = s /\ i <= w[1]}
                       IN  IF s = 1 THEN from[i].seen
                           ELSE IF at = {} THEN upTo[s-1]
                           ELSE Pooled(upTo[s-1], found[CHOOSE w \in at : TRUE])
                 IN  upTo[Widest]
  IN  [i \in DOMAIN from |->
         [symbol |-> from[i].symbol,
          seen   |-> IF i > reach THEN from[i].seen
                     ELSE LET p == pool(i) IN [p EXCEPT !.units = Larger(p.units, units)]]]

TurnsStrict(end, start, least) ==   \* slip: a window that ends with the buffer has to wait
  IF end - start <= least THEN 0 ELSE (end - start - least - 1) \div Step + 1

\* How many windows are slid over from start on, least symbols long or longer.
Turns(end, start, least) ==
  IF end - start < least THEN 0 ELSE (end - start - least) \div Step + 1

Slid(win, base, start, least) ==
  LET turns == Turns(base + Len(win), start, least)
      after[t \in 0..turns] ==
        IF t = 0 THEN win
        ELSE LET w  == after[t-1]
                 lo == start + (t - 1) * Step - base
             IN  SubSeq(w, 1, lo) \o Scored(SubSeq(w, lo + 1, Len(w)))
  IN  [window |-> after[turns], next |-> start + turns * Step]

-----------------------------------------------------------------------------
(* The verdict, as what verdict_from looks at: nothing; the deficiency; or *)
(* how many rows confirm a full rank.  For detect_noisy, how often over    *)
(* its floor the strongest peak is, up to where both verdicts saturate.    *)
CleanVerdict(e) ==
  IF e.rows < 0 THEN <<"open", 0, e.units>>
  ELSE IF e.peak[1] > 0 THEN <<"code", e.peak[1], e.units>>
  ELSE <<"filled", Larger(0, e.rows - Width + 1), e.units>>

NoisyVerdict(e) ==
  IF e.peak[1] < 0 THEN <<"open", 0, 0>>
  ELSE <<"peak", Cardinality({k \in 1..3 : e.peak[1] * Floor[2] >= k * k * Floor[1] * e.peak[2]}),
         e.units>>

Verdict(e) == IF kind = "clean" THEN CleanVerdict(e) ELSE NoisyVerdict(e)

\* What a buffer holds once it has room for need.
CapFor(held, need) ==
  IF need <= held THEN held
  ELSE LET first == IF held = 0 THEN FirstHold ELSE 2 * held
       IN  first * (CHOOSE f \in {2 ^ e : e \in 0..need} :
                      first * f >= need /\ (f > 1 => first * (f \div 2) < need))

\* buf_reserve and out_reserve, for n more symbols and for n verdicts.
InputCap(n) == CapFor(incap, Len(window) + n)
OutputCap(n) == CapFor(outcap, n)

\* drain, in the portions the soft decoder asks for.
Collected(there, room) ==
  LET after[t \in 0..(room + 1)] ==
        IF t = 0 THEN [n |-> 0, on |-> TRUE]
        ELSE LET b    == after[t-1]
                 want == Smaller(Chunk, room - b.n)
                 got  == Smaller(want, there - b.n)
             IN  IF ~b.on THEN b ELSE [n |-> b.n + got, on |-> got = want /\ b.n + got < room]
  IN  after[room + 1].n

DetInit ==
  /\ kind \in {"clean", "noisy"} /\ src \in Streams /\ fed = 0
  /\ window = <<>> /\ incap = 0 /\ next = 0 /\ out = <<>> /\ outcap = 0 /\ given = <<>>
  /\ finalized = FALSE /\ failed = FALSE

\* emit_upto of count positions, and what the caller then collects.
Emit(win, count, room) ==
  LET queued == out \o [i \in 1..count |-> Verdict(win[i].seen)]
  IN  IF count > 0 /\ Len(queued) > outcap
      THEN \/ /\ outcap' = OutputCap(Len(queued)) /\ failed' = FALSE
              /\ window' = SubSeq(win, count + 1, Len(win))
              /\ \E n \in {Collected(Len(queued), room)} :
                   given' = given \o SubSeq(queued, 1, n) /\ out' = SubSeq(queued, n + 1, Len(queued))
           \/ window' = win /\ failed' = TRUE /\ UNCHANGED <<outcap, out, given>>
      ELSE /\ window' = SubSeq(win, count + 1, Len(win)) /\ failed' = FALSE /\ UNCHANGED outcap
           /\ \E n \in {Collected(Len(queued), room)} :
                given' = given \o SubSeq(queued, 1, n) /\ out' = SubSeq(queued, n + 1, Len(queued))

\* The first position a window still to come may cover.
Settled(start) == start

\* decode; without memory for its input it changes nothing.
Listen(n, room) ==
  /\ ~finalized /\ fed + n <= Len(src)
  /\ fed' = fed + n
  /\ incap' = IF n = 0 THEN incap ELSE InputCap(n)
  /\ LET more == window \o [i \in 1..n |-> [symbol |-> src[fed + i], seen |-> Uncovered]]
     IN  \E s \in {Slid(more, FirstHeld, next, LongestWindow)} :
           next' = s.next /\ Emit(s.window, Larger(0, Settled(s.next) - FirstHeld), room)
  /\ UNCHANGED <<kind, src, finalized>>

\* The end of the stream: the full windows, the shorter ones, and all that is left.
ListenNoMore(room) ==
  /\ fed = Len(src) /\ room > 0
  /\ IF finalized
     THEN UNCHANGED next /\ Emit(window, 0, room)
     ELSE LET full == Slid(window, FirstHeld, next, LongestWindow)
          IN  \E s \in {Slid(full.window, FirstHeld, full.next, ShortestWindow)} :
                next' = s.next /\ Emit(s.window, Len(s.window), room)
  /\ finalized' = TRUE
  /\ UNCHANGED <<kind, src, fed, incap>>

DetNext == \/ \E n \in 0..MaxFeed, room \in 0..MaxAsk : Listen(n, room)
           \/ \E room \in 1..MaxAsk : ListenNoMore(room)

DetSpec == DetInit /\ [][DetNext]_detvars

-----------------------------------------------------------------------------
(* The reference: the evidence of every window over the whole stream.      *)
Heard == SubSeq(src, 1, fed)

\* Every combination of rows, one for each subset of them.
Spanned(rows) ==
  {[i \in 1..Width |-> Cardinality({t \in chosen : rows[t][i] = 1}) % 2] :
     chosen \in SUBSET (DOMAIN rows)}

\* By how much a check holds more often than not.
Bias(rows, check) ==
  LET odd == {t \in DOMAIN rows : Cardinality({i \in check : rows[t][i] = 1}) % 2 = 1}
  IN  Magnitude(Len(rows) - 2 * Cardinality(odd))

\* <<start, length, stride>> of the windows over position at, counted from 0.
Covering(at) ==
  {w \in UNION {{<<start, l[1], l[2]>> : l \in WindowsFrom(fed - start)} :
                start \in {s \in 0..at : s % Step = 0}} : at < w[1] + w[2]}

Greatest(values, least) == CHOOSE v \in values \cup {least} : \A u \in values : u <= v

\* What is to be reported of a position.
Reference(at) ==
  LET covering == Covering(at)
      part(w)  == SubSeq(Heard, w[1] + 1, w[1] + w[2])
      rows     == [w \in covering |-> Rows(part(w), w[3])]
      usable   == {w \in covering : rows[w] # <<>>}
      units    == Greatest({InvalidUnits(part(w)) : w \in
                    {v \in covering : \A u \in covering : u[1] = v[1] => u[2] <= v[2]}}, 0)
      lacking(r) == CHOOSE d \in 0..Width : Smaller(Len(r), Width) - d >= 0
                      /\ 2 ^ (Smaller(Len(r), Width) - d) = Cardinality(Spanned(r))
      peaks    == {<<Greatest({Bias(rows[w], c) : c \in (SUBSET (1..Width)) \ {{}}}, 0) ^ 2,
                     Len(rows[w])>> : w \in usable}
  IN  IF usable = {} THEN [Uncovered EXCEPT !.units = units]
      ELSE IF kind = "clean"
      THEN [peak  |-> <<Greatest({lacking(rows[w]) : w \in usable}, 0), 1>>,
            rows  |-> Greatest({Len(rows[w]) : w \in usable}, 0), units |-> units]
      ELSE [peak  |-> CHOOSE p \in peaks : \A q \in peaks : p[1] * q[2] >= q[1] * p[2],
            rows  |-> 0, units |-> units]

\* There is one record of each position no longer held.
RecordEach == Len(given \o out) = FirstHeld

\* However the stream was cut into calls, and whatever ran out of memory
\* between them, the records are those of its first positions in order, and
\* each tells what all the windows over its position show together: the rank
\* and the transform are those of their definitions, no record was given
\* before its last window and no window of the tail is missing.
DetSettled ==
  LET reported == given \o out
  IN  /\ RecordEach
      /\ \A i \in DOMAIN reported : reported[i] = Verdict(Reference(i - 1))

\* A call that had the memory it needed leaves less than the longest window
\* unreported (DET_MAXL, DET_L), and the flush that ends the stream nothing.
DetComplete ==
  [][~failed' => IF finalized' THEN finalized \/ window' = <<>>
                 ELSE Len(window') < LongestWindow]_detvars
=============================================================================
