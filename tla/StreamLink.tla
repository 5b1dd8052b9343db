----------------------------- MODULE StreamLink -----------------------------
(***************************************************************************)
(* An encoder pipe and a decoder pipe with a clean channel between them:   *)
(* the caller pushes bits in at one end, carries coded symbols across in   *)
(* pieces of any length and pulls recovered bits out at the other end,     *)
(* calling tick() and finalize() of either pipe when it likes.             *)
(***************************************************************************)
EXTENDS StreamPipes

VARIABLE sent   \* information bits pushed

vars == <<ein, eout, epc, room, ended, din, held, dout, dpc, fed, over, sent>>

Init == EInit /\ DInit /\ sent = 0

Push ==
  /\ sent < MaxInfo
  /\ PushInfo(sent + 1)
  /\ sent' = sent + 1
  /\ UNCHANGED dvars

\* enc_pull of k symbols, which dec_push takes.
Carry(k) ==
  /\ epc = "idle"
  /\ k <= Len(eout)
  /\ eout' = SubSeq(eout, k + 1, Len(eout))
  /\ PushReceived(SubSeq(eout, 1, k))
  /\ UNCHANGED <<ein, epc, room, ended, sent>>

EncoderStep ==
  /\ TickEncoder \/ FinalizeEncoder \/ EncoderGoesOn \/ EncoderNoMemory
  /\ UNCHANGED <<dvars, sent>>

DecoderStep ==
  /\ \/ TickDecoder \/ FinalizeDecoder \/ DecoderGoesOn \/ DecoderNoMemory
     \/ \E k \in 1..Len(dout) : PullRecovered(k)
  /\ UNCHANGED <<evars, sent>>

\* One thread drives both pipes: no call begins while another runs.
Next ==
  \/ epc = "idle" /\ dpc = "idle" /\ (Push \/ \E k \in 1..Len(eout) : Carry(k))
  \/ dpc = "idle" /\ EncoderStep
  \/ epc = "idle" /\ DecoderStep

\* A handler that was entered goes on: it is one C call.
GoesOn ==
  /\ WF_vars(EncoderGoesOn /\ UNCHANGED <<dvars, sent>>)
  /\ WF_vars(DecoderGoesOn /\ UNCHANGED <<evars, sent>>)

Spec == Init /\ [][Next]_vars /\ GoesOn

-----------------------------------------------------------------------------
(* Types; a handler's locals are set only while it runs.                   *)
TypeOK ==
  /\ ein \in Seq(Info) /\ eout \in Seq(Symbol)
  /\ din \in Seq(Symbol) /\ held \in Seq(Symbol)
  /\ dout \in Seq(Info)
  /\ epc \in {"idle", "tick", "drain", "edge"} /\ room \in Nat
  /\ dpc \in {"idle", "tick", "drain", "edge"} /\ fed \in BOOLEAN
  /\ ended \in BOOLEAN /\ over \in BOOLEAN
  /\ sent \in 0..MaxInfo
  /\ (epc = "idle") = (room = 0)
  /\ fed => dpc \in {"tick", "drain"}

\* The symbols sent and not decided, in order.  While a decoder's handler
\* runs, what it has fed lies both in the decoder and in the input.
InFlight == held \o (IF fed THEN <<>> ELSE din) \o eout

\* The bits pushed, or added as a tail, and not recovered.
Pending == Decided(InFlight, Groups(InFlight)) \o ein

\* Bits go through both pipes late, once each and in order, wherever the
\* coded stream is cut, however little room a call has, and whichever calls
\* run out of memory (enc_run, dec_run, enc_finalize, dec_finalize).
Line == INSTANCE DelayLine WITH pending <- Pending, readable <- dout
ImplementsDelayLine == Line!LSpec

\* Between calls the decoder pipe lags by no more than the decision depth and
\* what nobody has ticked yet: a tick that filled its room does not leave
\* decisions behind that only the next input would bring out (dec_run).
LagIsDepth == dpc = "idle" => Groups(held) <= Depth

\* finalize() calls the decoder's finalize once, with the room at hand, and
\* yet leaves no whole group behind (dec_finalize).
FinalizeDelivers == over => din = <<>> /\ Groups(held) = 0

\* The loops that enlarge the room and those that empty the decoder end,
\* although nothing counts their rounds (enc_run, enc_finalize, dec_run).
HandlersReturn == epc # "idle" \/ dpc # "idle" ~> epc = "idle" /\ dpc = "idle"
=============================================================================
