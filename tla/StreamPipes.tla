---------------------------- MODULE StreamPipes ----------------------------
(***************************************************************************)
(* The encoder pipe and the decoder pipe of src/pipe/streams.c; the soft   *)
(* decoder pipe is the same code over soft records.  begin() neither emits *)
(* nor consumes anything with the codecs of the repository and is left     *)
(* out.  Both sides agree on the format of a rate 1/N code: an information *)
(* bit is coded as a group of N symbols.  Bits are told apart by what they *)
(* are, not by their value: a bit is its number in the stream, and the     *)
(* encoder's trailing zeros are 0.  Symbol j of the group of bit b is      *)
(* <<b, j>>.                                                               *)
(***************************************************************************)
EXTENDS Integers, Sequences

CONSTANTS N,         \* symbols per group (dt_cc_code_n)
          MaxInfo    \* bound: information bits in the stream

ASSUME StreamFormatAssumption == N \in Nat \ {0} /\ MaxInfo \in Nat

Info   == 0..MaxInfo
Symbol == Info \X (1..N)

AtMost(a, b) == IF a <= b THEN a ELSE b

\* The groups of the bits s, one behind the other.
Coded(s) == [i \in 1..(N * Len(s)) |-> <<s[((i - 1) \div N) + 1], ((i - 1) % N) + 1>>]

Groups(syms) == Len(syms) \div N

Group(syms, i) == SubSeq(syms, N * (i - 1) + 1, N * i)

Garbled == MaxInfo + 1   \* decoded from a group that no one encoded

\* The bit a decoder that corrects nothing finds in a group.
BitOf(group) ==
  IF group = Coded(<<group[1][1]>>) THEN group[1][1] ELSE Garbled

\* The bits of the first k groups, and what lies behind those groups.
Decided(syms, k) == [i \in 1..k |-> BitOf(Group(syms, i))]

Behind(syms, k)  == SubSeq(syms, N * k + 1, Len(syms))

-----------------------------------------------------------------------------
(* The encoder pipe, over a convolutional encoder.  tick() encodes all     *)
(* buffered bits; finalize() does the same and then writes the encoder's   *)
(* tail.  Neither knows how much room the encoder wants: an encoder that   *)
(* lacks room writes nothing and answers an error, the pipe doubles the    *)
(* room and calls again.                                                   *)
CONSTANTS TailBits,         \* zero bits that finalize() adds (K - 1)
          SpareRoom,    \* spare room asked for (64 in the code)
          EncEdgeRoom,  \* room asked for before finalize() (4096)
          EncSlack      \* bound: spare cells beyond the room asked for

ASSUME EncoderPipeAssumption ==
  TailBits \in Nat /\ SpareRoom \in Nat /\ EncEdgeRoom \in Nat \ {0} /\ EncSlack \in Nat

VARIABLES ein,    \* information bits not yet encoded
          eout,   \* coded symbols not yet pulled
          epc,    \* "idle", or the loop that runs: "tick", "drain" or "edge"
          room,   \* what the next reserve asks for
          ended   \* finalize() has succeeded

evars == <<ein, eout, epc, room, ended>>

EInit == ein = <<>> /\ eout = <<>> /\ epc = "idle" /\ room = 0 /\ ended = FALSE

EIdle == epc' = "idle" /\ room' = 0

ToEdge == epc' = "edge" /\ room' = EncEdgeRoom

\* enc_push, one bit of it.
PushInfo(b) ==
  /\ epc = "idle" /\ ~ended
  /\ ein' = Append(ein, b)
  /\ UNCHANGED <<eout, epc, room, ended>>

\* enc_tick up to the loop of enc_run; with no input it does nothing.
TickEncoder ==
  /\ epc = "idle" /\ ~ended
  /\ ein # <<>>
  /\ epc' = "tick" /\ room' = 2 * Len(ein) + SpareRoom
  /\ UNCHANGED <<ein, eout, ended>>

\* enc_finalize up to its first loop.
FinalizeEncoder ==
  /\ epc = "idle" /\ ~ended
  /\ \/ ein # <<>> /\ epc' = "drain" /\ room' = 2 * Len(ein) + SpareRoom
     \/ ein = <<>> /\ ToEdge
  /\ UNCHANGED <<ein, eout, ended>>

\* Too little room: the loop asks for twice as much.
Doubled(r) == 2 * r

\* Whether cc_encoder_encode has room for k bits; it writes all or nothing.
Encodes(k, cap) == N * k <= cap

\* An iteration of enc_run, with cap cells spare in the output.
EncodeCall(cap) ==
  /\ epc \in {"tick", "drain"}
  /\ \/ /\ ~Encodes(Len(ein), cap)
        /\ room' = Doubled(room)
        /\ UNCHANGED <<ein, eout, epc>>
     \/ /\ Encodes(Len(ein), cap)
        /\ eout' = eout \o Coded(ein)
        /\ ein' = <<>>
        /\ \/ epc = "tick" /\ EIdle
           \/ epc = "drain" /\ ToEdge
  /\ UNCHANGED ended

\* An iteration of enc_finalize's own loop.
EncodeTail(cap) ==
  /\ epc = "edge"
  /\ \/ /\ ~Encodes(TailBits, cap)
        /\ room' = Doubled(room)
        /\ UNCHANGED <<eout, epc, ended>>
     \/ /\ Encodes(TailBits, cap)
        /\ eout' = eout \o Coded([i \in 1..TailBits |-> 0])
        /\ EIdle
        /\ ended' = TRUE
  /\ UNCHANGED ein

\* The output cannot be grown: the handler gives up.
EncoderNoMemory ==
  /\ epc # "idle"
  /\ EIdle
  /\ UNCHANGED <<ein, eout, ended>>

\* What the C call does next, memory permitting.
EncoderGoesOn ==
  \E cap \in room..(room + EncSlack) : EncodeCall(cap) \/ EncodeTail(cap)

-----------------------------------------------------------------------------
(* The decoder pipe, and the cadence of the decoder it wraps: a decoder    *)
(* keeps all symbols it is fed and decides a group only when Depth younger *)
(* ones are there, or at finalize().  tick() calls decode() until it       *)
(* leaves room unfilled, and only then clears the input it fed in the      *)
(* first of the calls.                                                     *)
CONSTANTS Depth,        \* decision depth, in groups
          DecRoom,      \* room asked for before each decode() (512 in the code)
          DecEdgeRoom,  \* room asked for before finalize() (4096)
          DecSlack,     \* bound: spare cells beyond the room asked for
          LateFailure   \* memory may run out between two decode() calls of a tick

ASSUME DecoderPipeAssumption ==
  /\ DecRoom \in Nat \ {0} /\ Depth \in Nat /\ DecEdgeRoom \in Nat /\ DecSlack \in Nat
  /\ Depth <= DecEdgeRoom
  /\ LateFailure \in BOOLEAN

VARIABLES din,    \* received symbols buffered on the sink
          held,   \* symbols in the decoder whose groups are not decided
          dout,   \* recovered bits not yet pulled
          dpc,    \* "idle", or what runs: "tick", "drain" or "edge"
          fed,    \* the input has been fed in this handler
          over    \* finalize() has succeeded

dvars == <<din, held, dout, dpc, fed, over>>

DInit ==
  /\ din = <<>> /\ held = <<>> /\ dout = <<>>
  /\ dpc = "idle" /\ fed = FALSE /\ over = FALSE

DIdle == dpc' = "idle" /\ fed' = FALSE

\* dec_push.
PushReceived(syms) ==
  /\ dpc = "idle" /\ ~over
  /\ din' = din \o syms
  /\ UNCHANGED <<held, dout, dpc, fed, over>>

\* dec_pull.
PullRecovered(k) ==
  /\ dpc = "idle"
  /\ k <= Len(dout)
  /\ dout' = SubSeq(dout, k + 1, Len(dout))
  /\ UNCHANGED <<din, held, dpc, fed, over>>

\* dec_tick up to the loop of dec_run; with no input it does nothing.
TickDecoder ==
  /\ dpc = "idle" /\ ~over
  /\ din # <<>>
  /\ dpc' = "tick"
  /\ UNCHANGED <<din, held, dout, fed, over>>

FinalizeDecoderAtOnce ==   \* slip: the buffered input is forgotten
  /\ dpc = "idle" /\ ~over
  /\ dpc' = "edge"
  /\ UNCHANGED <<din, held, dout, fed, over>>

\* dec_finalize up to its first loop.
FinalizeDecoder ==
  /\ dpc = "idle" /\ ~over
  /\ dpc' = IF din = <<>> THEN "edge" ELSE "drain"
  /\ UNCHANGED <<din, held, dout, fed, over>>

\* How many of the groups held a decode() call with cap cells decides.
Decides(syms, cap) == AtMost(cap, Groups(syms) - AtMost(Depth, Groups(syms)))

UnfilledAtOnce(w, cap) == TRUE   \* slip: one decode() call a handler

\* dec_run's test that the decoder has nothing more to give.
Unfilled(w, cap) == w < cap

\* An iteration of dec_run, with cap cells spare in the output.
DecodeCall(cap) ==
  /\ dpc \in {"tick", "drain"}
  /\ LET now == held \o (IF fed THEN <<>> ELSE din)
         w   == Decides(now, cap)
     IN  /\ dout' = dout \o Decided(now, w)
         /\ held' = Behind(now, w)
         /\ \/ /\ ~Unfilled(w, cap)
               /\ fed' = TRUE
               /\ UNCHANGED <<din, dpc>>
            \/ /\ Unfilled(w, cap)
               /\ din' = <<>> /\ fed' = FALSE
               /\ dpc' = IF dpc = "tick" THEN "idle" ELSE "edge"
  /\ UNCHANGED over

\* dec_finalize behind its loop: the groups still in flight are decided, in
\* one call of the decoder's finalize().
FlushCall(cap) ==
  /\ dpc = "edge"
  /\ LET w == AtMost(cap, Groups(held))
     IN  dout' = dout \o Decided(held, w) /\ held' = Behind(held, w)
  /\ DIdle
  /\ over' = TRUE
  /\ UNCHANGED din

DecoderNoMemoryClears ==   \* slip: the input is given up with the handler
  /\ dpc # "idle"
  /\ fed => LateFailure
  /\ DIdle
  /\ din' = <<>>
  /\ UNCHANGED <<held, dout, over>>

\* The output cannot be grown: the handler gives up, the input stays.
DecoderNoMemory ==
  /\ dpc # "idle"
  /\ fed => LateFailure
  /\ DIdle
  /\ UNCHANGED <<din, held, dout, over>>

\* What the C call does next, memory permitting.
DecoderGoesOn ==
  \/ \E cap \in DecRoom..(DecRoom + DecSlack) : DecodeCall(cap)
  \/ \E cap \in DecEdgeRoom..(DecEdgeRoom + DecSlack) : FlushCall(cap)
=============================================================================
