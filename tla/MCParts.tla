------------------------------ MODULE MCParts ------------------------------
(***************************************************************************)
(* Components that share nothing, each in behaviours of its own: `part`    *)
(* names the one that acts, the others stand idle.                         *)
(*   fifo      a FIFO that starts with one cell and may double twice       *)
(*   naive     naive frames of two symbols, in the caller's loop           *)
(*   rs        block codes of five symbols over the field of five          *)
(*   detector  detectors with rows of two symbols, on streams of ten       *)
(*   life      one object of each kind, with two failed allocations        *)
(*   search    the standard codes and the candidates of three families are *)
(*             scored, presets picked from samples of three and four codes *)
(*   link      marker frames from encoder pipe to decoder, at most one bit *)
(*             waiting in the pipe, nothing in flight when it writes       *)
(*   soft      the soft marker decoder, records of five kinds              *)
(*   edit      texts of up to four bits, from a band of one                *)
(***************************************************************************)
EXTENDS Fifo, MarkerLink, Rs251, Detector, Lifecycle, CodeSearch, NaiveLoop, SoftMarker,
        EditDistance

CONSTANT Parts    \* the components that act

VARIABLE part

all   == <<part, vars, loopvars, linkvars, softvars, editvars, rsvars, detvars, lifevars, cvars>>

MCRecords ==
  {<<2, 0, 0, 0, 0>>, <<0, 2, 0, 0, 0>>, <<1, 2, 0, 0, 0>>, <<1, 1, 2, 0, 0>>, <<1, 2, 2, 1, 0>>}

\* A clear zero, a clear one and a record that favours neither.
MCTies == {<<2, 0, 0, 0, 0>>, <<0, 2, 0, 0, 0>>, <<1, 1, 0, 0, 0>>}

MCTexts == UNION {[1..n -> {0, 1}] : n \in 0..4}

\* The doubling loop (fifo.h:75-78) stops at exactly one capacity.
ASSUME DoublingIsDetermined ==
  \A c \in {0} \cup {FirstCap * 2^k : k \in 0..3}, n \in 0..9, t \in 0..4 :
    Cardinality(NewCaps([cap |-> c, head |-> 0, tail |-> t], n)) = 1

MCCodes == {[n |-> 5, k |-> 2, spare |-> 1], [n |-> 5, k |-> 3, spare |-> 0]}

\* Unread is 5.
MCBlocks == {b \in [1..5 -> 0..5] : b[1] \in {0, 3} /\ b[2] \in {0, 2, 5} /\ b[5] # 4}

MCTrusts == {<<0, 1, 2, 1, 0>>, <<2, 0, 0, 1, 3>>}

\* NotBit is 2, Inval 3.
MCStreams ==
  {s \in [1..10 -> 0..3] :
     /\ s[1] = 0 /\ s[10] = 1 /\ s[4] = s[2] /\ s[7] = s[3] /\ s[8] = s[6]
     /\ \A i \in {2, 5, 9} : s[i] \in Binary
     /\ s[3] # 0 /\ s[6] # 2}

MCFloor == <<1, 1>>

RsIdle ==
  /\ code = [n |-> 1, k |-> 1, spare |-> 0] /\ hard = TRUE
  /\ heard = <<0>> /\ trust = <<>> /\ known = <<0>> /\ answer = "pending" /\ decoded = <<>>

DetIdle ==
  /\ kind = "clean" /\ src = <<>> /\ fed = 0
  /\ window = <<>> /\ incap = 0 /\ next = 0 /\ out = <<>> /\ outcap = 0 /\ given = <<>>
  /\ finalized = FALSE /\ failed = FALSE

LifeIdle ==
  /\ made = <<>> /\ pc = 0 /\ phase = "idle"
  /\ cell = <<>> /\ fails = 0 /\ stray = FALSE

MCFamilies == {[k |-> 3, n |-> 2], [k |-> 4, n |-> 2], [k |-> 3, n |-> 3]}

Pairs(size) == {{p[1], p[2]} : p \in {q \in (1..size) \X (1..size) : q[1] < q[2]}}

MCSamples ==
  {[pin |-> p, wide |-> FALSE, self |-> s, cross |-> x] :
     p \in {0, 2}, s \in [1..4 -> BOOLEAN], x \in [Pairs(4) -> {0, 2}]}
  \cup
  {[pin |-> p, wide |-> TRUE, self |-> s, cross |-> x] :
     p \in {0, 3}, s \in [1..3 -> BOOLEAN], x \in [Pairs(3) -> 0..2]}

SearchIdle == PickIdle /\ stage = "idle" /\ sample = <<>>

EditIdle ==
  /\ seqA = <<>> /\ seqB = <<>> /\ band = 0 /\ tableRow = -1 /\ swapped = FALSE
  /\ prev = <<>> /\ cur = <<>> /\ distance = -1

MCInit ==
  /\ part \in Parts
  /\ Init /\ LoopInit /\ LinkInit /\ SoftInit
  /\ IF part = "edit" THEN EditInit ELSE EditIdle
  /\ IF part = "rs" THEN RsInit ELSE RsIdle
  /\ IF part = "detector" THEN DetInit ELSE DetIdle
  /\ IF part = "life" THEN LifeInit ELSE LifeIdle
  /\ IF part = "search" THEN ScoreInit \/ PickInit ELSE SearchIdle

streams == <<vars, loopvars, linkvars, softvars>>
blocks  == <<rsvars, detvars, lifevars, cvars>>

FifoActs ==
  /\ part = "fifo" /\ Next
  /\ UNCHANGED <<part, loopvars, linkvars, softvars, editvars, blocks>>
NaiveActs ==
  /\ part = "naive" /\ LoopNext
  /\ UNCHANGED <<part, vars, linkvars, softvars, editvars, blocks>>
LinkedActs ==
  /\ part = "link" /\ LinkNext
  /\ UNCHANGED <<part, vars, loopvars, softvars, editvars, blocks>>
SoftActs ==
  /\ part = "soft" /\ SoftNext
  /\ UNCHANGED <<part, vars, loopvars, linkvars, editvars, blocks>>
EditActs ==
  /\ part = "edit" /\ EditNext
  /\ UNCHANGED <<part, streams, blocks>>
RsActs ==
  /\ part = "rs" /\ RsNext
  /\ UNCHANGED <<part, streams, editvars, detvars, lifevars, cvars>>
DetectorActs ==
  /\ part = "detector" /\ DetNext
  /\ UNCHANGED <<part, streams, editvars, rsvars, lifevars, cvars>>
LifeActs ==
  /\ part = "life" /\ LifeNext
  /\ UNCHANGED <<part, streams, editvars, rsvars, detvars, cvars>>
SearchActs ==
  /\ part = "search" /\ SearchNext
  /\ UNCHANGED <<part, streams, editvars, rsvars, detvars, lifevars>>

MCNext ==
  \/ FifoActs \/ NaiveActs \/ LinkedActs \/ RsActs \/ DetectorActs \/ LifeActs
  \/ SearchActs \/ SoftActs \/ EditActs

MCSpec == MCInit /\ [][MCNext]_all

=============================================================================
