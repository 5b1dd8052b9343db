----------------------------- MODULE SoftMarker -----------------------------
(***************************************************************************)
(* The soft decoder of the marker frame codec (src/fc/marker.c): the hard  *)
(* decoder's machine on records of five consistencies.  A record is read   *)
(* as the symbol it favours and passed on as it came; what stands for an   *)
(* escape is made up.  The hard decoder counts the ones it holds back,     *)
(* this one keeps the records themselves.                                  *)
(***************************************************************************)
EXTENDS MarkerCodec

CONSTANTS Records,               \* <<false, true, erasure, invalid, absent>>, 2 for 1.0
          SoftRoom, SoftQueue    \* bounds: dst_len of a call; as MaxQueue of MarkerDecoder

VARIABLES soft,     \* the machine: hold, bm, code, suf, fstate, out
          sgot,     \* the records the last call returned
          sfeeding  \* inside the loop of a decode call

softvars == <<soft, sgot, sfeeding>>

Symbols == <<"0", "1", "erasure", "invalid", "absent">>

\* classify_soft: the first of the greatest consistencies.
Classified(r) ==
  LET i == CHOOSE i \in 1..5 : \A j \in 1..5 : r[j] < r[i] \/ (r[j] = r[i] /\ i <= j)
  IN  Symbols[i]

\* What a token of the queue holds, a record or a frame state.
Data(r)  == [kind |-> "data", is |-> r]
State(s) == [kind |-> "state", is |-> s]

SoftOne  == <<0, 2, 0, 0, 0>>
SoftZero == <<2, 0, 0, 0, 0>>

AllData(records) == [i \in DOMAIN records |-> Data(records[i])]
MadeOnes == [i \in 1..Run |-> SoftOne]

Put(d, records) == [d EXCEPT !.out = @ \o AllData(records)]

SoftInit ==
  /\ soft = [hold |-> <<>>, bm |-> "SCAN", code |-> 0, suf |-> 0,
             fstate |-> "OUTSIDE", out |-> <<>>]
  /\ sgot = <<>> /\ sfeeding = FALSE

PeeledNewest(d, r) == Put(d, <<r>>)    \* slip: the one that arrives is passed on, ahead of the held

\* A one behind Run held ones: the oldest of them was data.
Peeled(d, r) == [Put(d, <<d.hold[1]>>) EXCEPT !.hold = Append(SubSeq(@, 2, Run), r)]

SoftScan(d, r) ==
  CASE Classified(r) = "1" /\ Len(d.hold) < Run -> [d EXCEPT !.hold = Append(@, r)]
    [] Classified(r) = "1" /\ Len(d.hold) = Run -> Peeled(d, r)
    [] Classified(r) = "0" /\ Len(d.hold) = Run -> [d EXCEPT !.code = 0, !.bm = "CODE2"]
    [] OTHER -> [Put(d, Append(d.hold, r)) EXCEPT !.hold = <<>>]

\* sd_marker.
Announced(code) ==
  CASE code = 1 -> <<State("BEGIN"), State("INSIDE")>>
    [] code = 2 -> <<State("END"), State("OUTSIDE")>>
    [] code = 3 -> <<State("END"), State("BEGIN"), State("INSIDE")>>

\* The records that a complete escape stands for.
MadeUp(suffix) ==
  MadeOnes \o IF suffix = 0 THEN <<>>
              ELSE <<SoftZero, IF suffix >= 2 THEN SoftOne ELSE SoftZero,
                     IF suffix % 2 = 1 THEN SoftOne ELSE SoftZero>>

\* sd_feed.
SoftFed(d, r) ==
  LET bit    == IF Classified(r) = "1" THEN 1 ELSE 0
      code   == d.code * 2 + bit
      suffix == d.suf * 2 + bit
  IN  CASE d.bm = "SCAN"  -> SoftScan(d, r)
        [] d.bm = "CODE2" -> [d EXCEPT !.code = code, !.bm = "CODE3"]
        [] d.bm = "CODE3" /\ code = 0 -> [d EXCEPT !.code = 0, !.bm = "SUF1"]
        [] d.bm = "CODE3" /\ code # 0 ->
             [d EXCEPT !.code = code, !.out = @ \o Announced(code), !.hold = <<>>, !.bm = "SCAN"]
        [] d.bm = "SUF1"  -> [d EXCEPT !.suf = bit, !.bm = "SUF2"]
        [] d.bm = "SUF2"  -> [Put(d, MadeUp(suffix)) EXCEPT !.hold = <<>>, !.bm = "SCAN"]

\* sd_drain ends a call: records up to the next transition, or to dst's end.
SoftReturns(d, room) ==
  \E w \in 0..Len(d.out) :
    LET stop == IF w = Len(d.out) THEN "empty" ELSE d.out[w + 1].kind IN
    /\ w <= room /\ \A i \in 1..w : d.out[i].kind = "data"
    /\ stop = "data" => w = room
    /\ soft' = IF stop = "state"
               THEN [d EXCEPT !.fstate = d.out[w + 1].is, !.out = SubSeq(@, w + 2, Len(@))]
               ELSE [d EXCEPT !.out = SubSeq(@, w + 1, Len(@))]
    /\ sgot' = [i \in 1..w |-> d.out[i].is]
    /\ sfeeding' = FALSE

\* One iteration of msd_decode's loop.
SoftFeed(r) ==
  /\ Len(soft.out) <= SoftQueue
  /\ soft' = SoftFed(soft, r)
  /\ sfeeding' = TRUE /\ sgot' = <<>>

SoftReturn(room) == SoftReturns(soft, room)

\* msd_finalize.
SoftFinalize(room) ==
  LET held == IF soft.bm = "SCAN" THEN soft.hold
              ELSE MadeOnes \o IF soft.bm = "CODE2" THEN <<>> ELSE <<SoftZero>>
  IN  /\ ~sfeeding /\ Len(soft.out) <= SoftQueue
      /\ SoftReturns([Put(soft, held) EXCEPT !.bm = "SCAN", !.hold = <<>>], room)

SoftNext ==
  \/ \E r \in Records : SoftFeed(r)
  \/ \E room \in 0..SoftRoom : SoftReturn(room) \/ SoftFinalize(room)

SoftSpec == SoftInit /\ [][SoftNext]_softvars

-----------------------------------------------------------------------------
\* The hardening pipe's reading of a record (pipes.c, harden): the greatest
\* consistency again, and true before false.
Hardened(r) == IF r[2] = r[1] /\ \A j \in 3..5 : r[j] <= r[2] THEN "1" ELSE Classified(r)

HardTokens ==
  [i \in DOMAIN soft.out |->
     IF soft.out[i].kind = "data" THEN Hardened(soft.out[i].is) ELSE soft.out[i].is]

Hard == INSTANCE MarkerDecoder
          WITH MaxRoom <- SoftRoom, MaxQueue <- SoftQueue, feeding <- sfeeding,
               got <- [i \in DOMAIN sgot |-> Hardened(sgot[i])],
               dec <- [t |-> Len(soft.hold), bm |-> soft.bm, code |-> soft.code,
                       suf |-> soft.suf, fstate |-> soft.fstate, out |-> HardTokens]

\* The soft decoder recovers the structure that the hard decoder recovers
\* from the hardened stream (marker.h).
SameStructure == Hard!DecSpec

\* Between markers what is still to come out is what came in, record by
\* record and in order: none is replaced, overtaken or read for another.
PassesOn ==
  \A r \in Records :
    SoftFeed(r) /\ soft.bm = "SCAN" /\ soft'.bm = "SCAN" =>
      soft'.out \o AllData(soft'.hold) = Append(soft.out \o AllData(soft.hold), Data(r))

\* The soft decoder follows the hard decoder step for step, and the records
\* it passes on are the ones it received.
SoftFollowsHard == SameStructure /\ [][PassesOn]_softvars
=============================================================================
