---------------------------- MODULE EditDistance ----------------------------
(***************************************************************************)
(* How the metrics programs count mistakes: the edit distance of what was  *)
(* decoded and what was sent, row by row, in a band around the diagonal    *)
(* that doubles until the distance fits in it.  The two rows of scratch    *)
(* are never cleared: not when they are allocated, between two rows or     *)
(* between two bands.                                                      *)
(***************************************************************************)
EXTENDS Integers, Sequences

CONSTANTS Texts,       \* the sequences that are compared
          FirstBand,   \* bound: the first band, 8 in the code
          Infinite     \* INF of edit_threshold

\* Texts are of uint8_t, and INF is out of their reach.
ASSUME EditAssumption ==
  /\ FirstBand \in Nat /\ Infinite \in Nat
  /\ \A t \in Texts : t \in Seq(0..255) /\ Len(t) < Infinite

VARIABLES seqA, seqB,           \* what was decoded, what was sent
          band, tableRow,       \* row -1: the band has still to start
          swapped,              \* which scratch row the caller knows as prev
          prev, cur,
          distance              \* -1 until edit_distance returns

editvars == <<seqA, seqB, band, tableRow, swapped, prev, cur, distance>>

LenA == Len(seqA)
LenB == Len(seqB)

Least(x, y) == IF x < y THEN x ELSE y
Most(x, y)  == IF x > y THEN x ELSE y

MaxDist == Most(LenA, LenB)

EditInit ==
  /\ seqA \in Texts /\ seqB \in Texts
  /\ band = Least(FirstBand, MaxDist) /\ tableRow = -1 /\ swapped = FALSE /\ distance = -1
  /\ \E garbage \in {0, Infinite} :
       prev = [c \in 0..LenB |-> garbage] /\ cur = [c \in 0..LenB |-> garbage]

\* edit_threshold: what it returns ends the search or doubles the band.
Concludes(d) ==
  IF d <= band \/ band >= MaxDist THEN distance' = d /\ UNCHANGED <<band, tableRow>>
  ELSE band' = Least(2 * band, MaxDist) /\ tableRow' = -1 /\ UNCHANGED distance

\* By their lengths alone the two are more than a band apart.
TooFar ==
  /\ distance = -1 /\ tableRow = -1 /\ (LenA - LenB > band \/ LenB - LenA > band)
  /\ Concludes(band + 1)
  /\ UNCHANGED <<seqA, seqB, swapped, prev, cur>>

\* Row 0, and the cell past its end; the rows are in their caller's order.
FirstRow ==
  /\ distance = -1 /\ tableRow = -1 /\ LenA - LenB <= band /\ LenB - LenA <= band
  /\ \E first \in {IF swapped THEN cur ELSE prev}, other \in {IF swapped THEN prev ELSE cur} :
       /\ prev' = [c \in 0..LenB |-> IF c > Least(band + 1, LenB) THEN first[c]
                                     ELSE IF c <= band THEN c ELSE Infinite]
       /\ cur' = other
  /\ tableRow' = 0 /\ swapped' = FALSE
  /\ UNCHANGED <<seqA, seqB, band, distance>>

RightBoundAtBand(hi) == hi     \* slip: the cell past the band keeps what it had

\* The last cell that is cleared, which the next row reads.
RightBound(hi) == Least(hi + 1, LenB)

Low(r)  == Most(r - band, 1)
High(r) == Least(r + band, LenB)

Cleared(r) ==
  [c \in 0..LenB |-> IF r <= band /\ c = 0 THEN r
                     ELSE IF c \in (Low(r) - 1)..RightBound(High(r)) THEN Infinite
                     ELSE cur[c]]

\* Row r from the one before, which prev holds, left to right.
RowFrom(r) ==
  LET cell[c \in 0..LenB] ==
        IF c \in Low(r)..High(r)
        THEN Least(Least(prev[c-1] + (IF seqA[r] # seqB[c] THEN 1 ELSE 0), prev[c] + 1),
                   cell[c-1] + 1)
        ELSE Cleared(r)[c]
  IN  cell

NextRow ==
  /\ distance = -1 /\ tableRow \in 0..(LenA - 1)
  /\ tableRow' = tableRow + 1 /\ prev' = RowFrom(tableRow + 1)
  /\ cur' = prev /\ swapped' = ~swapped
  /\ UNCHANGED <<seqA, seqB, band, distance>>

LastRow ==
  /\ distance = -1 /\ tableRow = LenA
  /\ Concludes(IF prev[LenB] > band THEN band + 1 ELSE prev[LenB])
  /\ UNCHANGED <<seqA, seqB, swapped, prev, cur>>

EditNext == TooFar \/ FirstRow \/ NextRow \/ LastRow

EditSpec == EditInit /\ [][EditNext]_editvars

-----------------------------------------------------------------------------
\* The number of insertions, deletions and substitutions between the first i
\* symbols of a and the first j of b, at <<i, j>>.
EditTable(a, b) ==
  LET d[p \in (0..Len(a)) \X (0..Len(b))] ==
        LET i == p[1]
            j == p[2]
        IN  IF i = 0 THEN j
            ELSE IF j = 0 THEN i
            ELSE IF a[i] = b[j] THEN d[<<i-1, j-1>>]
            ELSE 1 + Least(d[<<i-1, j-1>>], Least(d[<<i-1, j>>], d[<<i, j-1>>]))
  IN  d

Edits(a, b) == EditTable(a, b)[<<Len(a), Len(b)>>]

\* Whatever the scratch rows held, the banded search returns the edit
\* distance, as if it had computed the whole table.
EditExact == distance # -1 => distance = Edits(seqA, seqB)
=============================================================================
