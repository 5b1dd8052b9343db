----------------------------- MODULE Lifecycle -----------------------------
(***************************************************************************)
(* Every factory of the library with the destroy function beside it, as    *)
(* the allocator sees them, and the life of one object, from its factory   *)
(* to its destruction, on an allocator that may fail at any call.          *)
(* `make` is the create function: a sequence of allocations, of pointers   *)
(* set to NULL and of checks that undo what was done and return NULL.      *)
(* `unmake` is what destroy frees, in order.  A cell is named by the field *)
(* or variable that points to it and reached through the cell that field   *)
(* is in, or through a local variable: `of`.                               *)
(***************************************************************************)
EXTENDS Integers, Sequences, SequencesExt

Local == "local"

Does(op, of, cells, undo) == [op |-> op, of |-> of, cells |-> cells, undo |-> undo]

\* of->c = dt_malloc(...) for one c after the other, the answers not looked at.
Take(of, cells) == [i \in 1..Len(cells) |-> Does("malloc", of, <<cells[i]>>, <<>>)]

\* c = dt_calloc(1, ...): every pointer in it is NULL.
TakeZeroed(c) == <<Does("calloc", Local, <<c>>, <<>>)>>

\* of->c = NULL.
SetNull(of, cells) == <<Does("null", of, cells, <<>>)>>

\* An argument that is refused: what is undone before NULL is returned.
Args(undo) == <<Does("args", Local, <<>>, undo)>>

\* One of the cells is NULL.
Need(cells, undo) == <<Does("need", Local, cells, undo)>>

\* dt_free of each, and dt_free with the pointer set to NULL.
Free(of, cells) == [i \in 1..Len(cells) |-> [of |-> of, cell |-> cells[i], reset |-> FALSE]]
Drop(of, cells) == [i \in 1..Len(cells) |-> [of |-> of, cell |-> cells[i], reset |-> TRUE]]

Kind(make, unmake) == [make |-> make, unmake |-> unmake]

-----------------------------------------------------------------------------
(* The code tables and the encoder.                                        *)
CodeTables == <<"generators", "next_state", "output">>

FreeCode == Free("code", CodeTables) \o Free(Local, <<"code">>)

Code == Kind(Args(<<>>) \o TakeZeroed("code") \o Need(<<"code">>, <<>>)
               \o Take("code", CodeTables) \o Need(CodeTables, FreeCode),
             FreeCode)

\* A handle and its state, both taken before either is looked at.
HandleAndState == Take(Local, <<"handle", "st">>)
                    \o Need(<<"handle", "st">>, Free(Local, <<"handle", "st">>))

FreeHandleAndState == Free("handle", <<"st">>) \o Free(Local, <<"handle">>)

Encoder == Kind(Args(<<>>) \o HandleAndState, FreeHandleAndState)

-----------------------------------------------------------------------------
(* The decoders: an engine d behind a handle.                              *)
EngineCells(d, cells, of) == Free(d, cells) \o Free(of, <<d>>)

ViterbiBuffers == <<"backpointers", "next_metric", "metric", "received">>

FreeViterbi(of) == EngineCells("d", ViterbiBuffers, of)

\* received stays NULL until the first symbols arrive.
ViterbiEngine ==
  Args(<<>>) \o TakeZeroed("d") \o Need(<<"d">>, <<>>)
    \o Take("d", <<"metric", "next_metric", "backpointers">>)
    \o Need(<<"metric", "next_metric", "backpointers">>, FreeViterbi(Local))

BcjrBuffers == <<"received", "metric", "next_metric", "beta_tilde", "beta_cur", "branch",
                 "alpha_ring", "lock_ring", "fifo_sym", "fifo_det">>

FreeBcjr(of) == EngineCells("d", BcjrBuffers, of)

\* decoder_init undoes nothing: the caller frees, whatever it got to.
InitBcjr == Args(FreeBcjr(Local)) \o Take("d", BcjrBuffers) \o Need(BcjrBuffers, FreeBcjr(Local))

BcjrEngineUncleared ==        \* slip: the engine is not zeroed
  Args(<<>>) \o Take(Local, <<"d">>) \o Need(<<"d">>, <<>>) \o InitBcjr

BcjrEngine == Args(<<>>) \o TakeZeroed("d") \o Need(<<"d">>, <<>>) \o InitBcjr

MaxirBuffers == <<"received", "metric", "next_metric", "beta_tilde", "beta_cur", "pattern_bits",
                  "group_of", "alignment", "match_cost0", "match_cost1", "ins_cost", "in_range",
                  "alpha_ring", "shift", "lock_ring", "inv_ring", "fifo_sym", "fifo_det">>
MaxirShared == <<"align_shared", "branch_ring">>

FreeMaxir(of) == EngineCells("d", MaxirBuffers \o MaxirShared, of)

\* register_patterns stands between the two: an edge has one pattern, and
\* pattern_bits has room for one an edge, so it never grows them.
InitMaxir ==
  Args(FreeMaxir(Local)) \o SetNull("d", MaxirShared)
    \o Take("d", MaxirBuffers) \o Need(MaxirBuffers, FreeMaxir(Local))
    \o Take("d", MaxirShared) \o Need(MaxirShared, FreeMaxir(Local))

MaxirEngine == Args(<<>>) \o TakeZeroed("d") \o Need(<<"d">>, <<>>) \o InitMaxir

VindelBuffers == <<"shift", "received", "alignment", "match_cost0", "match_cost1", "in_range",
                   "metric", "next_metric", "backpointers", "group_of", "pattern_bits">>

FreeVindel(of) == EngineCells("d", Append(VindelBuffers, "align_shared"), of)

InitVindel ==
  Args(FreeVindel(Local)) \o Take("d", VindelBuffers) \o Need(VindelBuffers, FreeVindel(Local))
    \o Take("d", <<"align_shared">>) \o Need(<<"align_shared">>, FreeVindel(Local))

VindelEngine == Args(<<>>) \o TakeZeroed("d") \o Need(<<"d">>, <<>>) \o InitVindel

ContextBuffers == <<"shift", "inv_ring", "received", "pattern_bits", "alignment", "match_cost0",
                    "match_cost1", "ins_cost", "in_range", "beta_a", "beta_b">>
ContextShared  == <<"align_shared", "branch_ring">>
TrellisBuffers == <<"t_metric", "t_next_metric", "t_group_of", "t_alpha_ring", "t_smoothed_ring">>

\* dt_cc_decode_ctx_free and dt_cc_trellis_free leave NULLs.
DropContext == Drop("d", ContextBuffers \o ContextShared)
DropTrellis == Drop("d", TrellisBuffers)

FreeHybrid(of) == DropTrellis \o DropContext \o Free(of, <<"d">>)

\* A context that could not be initialised has cleaned up after itself, unless
\* it refused its arguments and had taken nothing.
InitContext ==
  Args(Free(Local, <<"d">>)) \o SetNull("d", <<"align_shared">>) \o Take("d", ContextBuffers)
    \o Need(ContextBuffers, DropContext \o Free(Local, <<"d">>))

InitTrellis == Take("d", TrellisBuffers)
                 \o Need(TrellisBuffers, DropTrellis \o DropContext \o Free(Local, <<"d">>))

FinalizeContext ==
  <<Does("free", "d", <<>>, Free("d", ContextShared))>> \o Take("d", ContextShared)
    \o Need(ContextShared, FreeHybrid(Local))

HybridEngine == Args(<<>>) \o TakeZeroed("d") \o Need(<<"d">>, <<>>)
                  \o InitContext \o InitTrellis \o FinalizeContext

CleanBuffers == <<"in", "dmax", "cmax", "imax", "out">>

FreeClean(of) == EngineCells("d", CleanBuffers, of)

CleanEngine == Args(<<>>) \o Take(Local, <<"d">>) \o Need(<<"d">>, <<>>)
                 \o SetNull("d", CleanBuffers)

NoisyBuffers == <<"in", "emax", "imax", "out">>

FreeNoisy(of) == EngineCells("d", Append(NoisyBuffers, "acc"), of)

NoisyEngine == Args(<<>>) \o Take(Local, <<"d">>) \o Need(<<"d">>, <<>>)
                 \o Take("d", <<"acc">>) \o Need(<<"acc">>, Free(Local, <<"d">>))
                 \o SetNull("d", NoisyBuffers)

-----------------------------------------------------------------------------
\* The handle in front of an engine, the hard decoder's or the soft one's.
Handled(engine, free(_)) ==
  Kind(engine \o Take(Local, <<"dec">>) \o Need(<<"dec">>, free(Local)),
       free("dec") \o Free(Local, <<"dec">>))

ViterbiDecoder     == Handled(ViterbiEngine, FreeViterbi)
BcjrDecoder        == Handled(BcjrEngine, FreeBcjr)
BcjrSoftDecoder    == Handled(BcjrEngine, FreeBcjr)
MaxirDecoder       == Handled(MaxirEngine, FreeMaxir)
MaxirSoftDecoder   == Handled(MaxirEngine, FreeMaxir)
VindelDecoder      == Handled(VindelEngine, FreeVindel)
HybridDecoder      == Handled(HybridEngine, FreeHybrid)
HybridSoftDecoder  == Handled(HybridEngine, FreeHybrid)
CleanDetector      == Handled(CleanEngine, FreeClean)
NoisyDetector      == Handled(NoisyEngine, FreeNoisy)

-----------------------------------------------------------------------------
(* Block codecs.  A code whose blocks hold no bytes has no decoded buffer. *)
BlockBuffers == <<"decoded", "encoded">>

UndoBlock == Free("st", BlockBuffers) \o Free(Local, <<"handle", "st">>)

FreeBlock == Free("st", BlockBuffers) \o Free("handle", <<"st">>) \o Free(Local, <<"handle">>)

TakeBlock(bytes) ==
  IF bytes THEN Take("st", BlockBuffers) \o Need(BlockBuffers, UndoBlock)
  ELSE SetNull("st", <<"decoded">>) \o Take("st", <<"encoded">>) \o Need(<<"encoded">>, UndoBlock)

RefusesArgs == Args(Free(Local, <<"handle", "st">>))

BlockEncoder(bytes) == Kind(HandleAndState \o RefusesArgs \o TakeBlock(bytes), FreeBlock)

\* Two refusals: of n and k, and of more spares than there are check symbols.
BlockDecoder(bytes) == Kind(HandleAndState \o RefusesArgs \o RefusesArgs \o TakeBlock(bytes), FreeBlock)

BlockSoftDecoder(bytes) ==
  Kind(HandleAndState \o RefusesArgs \o RefusesArgs \o TakeBlock(bytes), FreeBlock)

-----------------------------------------------------------------------------
(* Frame codecs.  The marker codec's state has a FIFO that grows in use.   *)
NaiveEncoder     == Kind(HandleAndState, FreeHandleAndState)
NaiveDecoderKind == Kind(HandleAndState, FreeHandleAndState)
NaiveSoftDecoder == Kind(HandleAndState, FreeHandleAndState)

\* fifo_init, fifo_free: the state is reached through the handle.
WithFifo == Kind(HandleAndState \o SetNull("st", <<"fifo">>),
                 Drop("st", <<"fifo">>) \o FreeHandleAndState)

MarkerEncoderKind == WithFifo
MarkerDecoderKind == WithFifo
MarkerSoftDecoder == WithFifo

-----------------------------------------------------------------------------
(* Pipes.                                                                  *)
TakeOne(c) == Take(Local, <<c>>) \o Need(<<c>>, <<>>)

EndsFifos == <<"in_hard", "in_soft", "out_hard", "out_soft">>

\* dt_pipe_ends_init, dt_pipe_ends_free.
EndsInit(c) == SetNull(c, EndsFifos)
EndsFree(c) == Free(c, EndsFifos)

\* A pipe of two FIFOs of its own.
TwoFifos(c) == Kind(TakeOne(c) \o SetNull(c, <<"in", "out">>),
                    Free(c, <<"in", "out">>) \o Free(Local, <<c>>))

WithArgs(kind) == Kind(Args(<<>>) \o kind.make, kind.unmake)

EncoderPipeKind     == WithArgs(TwoFifos("c"))
DecoderPipeKind     == WithArgs(TwoFifos("c"))
SoftDecoderPipe     == WithArgs(TwoFifos("c"))
FrameEncoderKind    == WithArgs(TwoFifos("c"))
FrameDecoderKind    == WithArgs(TwoFifos("c"))
FrameSoftDecoder    == WithArgs(TwoFifos("c"))
Hardening           == TwoFifos("c")
Softening           == TwoFifos("c")

\* A pipe with buffered ends and nothing else.
Ended(c) == Kind(TakeOne(c) \o EndsInit(c), EndsFree(c) \o Free(Local, <<c>>))

Executor == Ended("c")
Valve    == Ended("v")
DrainKind == Ended("d")
PushTo   == WithArgs(Ended("p"))
PullFrom == WithArgs(Ended("p"))

ArrayedUnowned(c, array, some) ==    \* slip: the copy of the array is not freed
  Kind(Args(<<>>) \o TakeOne(c)
         \o (IF some THEN Take(c, <<array>>) \o Need(<<array>>, Free(Local, <<c>>))
             ELSE SetNull(c, <<array>>))
         \o EndsInit(c),
       EndsFree(c) \o Free(Local, <<c>>))

\* And with its own copy of an array of neighbours, if there are some.
Arrayed(c, array, some) ==
  Kind(Args(<<>>) \o TakeOne(c)
         \o (IF some THEN Take(c, <<array>>) \o Need(<<array>>, Free(Local, <<c>>))
             ELSE SetNull(c, <<array>>))
         \o EndsInit(c),
       EndsFree(c) \o Free(c, <<array>>) \o Free(Local, <<c>>))

Splitter(some)     == Arrayed("s", "sinks", some)
Diverter(some)     == Arrayed("d", "sinks", some)
Selector(some)     == Arrayed("s", "sources", some)
Combiner(some)     == Arrayed("c", "sources", some)
PipelineKind(some) == Arrayed("pl", "stages", some)

-----------------------------------------------------------------------------
(* Containers: the entries grow in use.                                    *)
Entries(c) == Kind(TakeOne(c) \o SetNull(c, <<"entries">>),
                   Free(c, <<"entries">>) \o Free(Local, <<c>>))

Bag           == Entries("c")
PipeContainer == Entries("self")

-----------------------------------------------------------------------------
Kinds ==
  [code |-> Code, encoder |-> Encoder,
   viterbi |-> ViterbiDecoder, bcjr |-> BcjrDecoder, bcjr_soft |-> BcjrSoftDecoder,
   maxir |-> MaxirDecoder, maxir_soft |-> MaxirSoftDecoder, vindel |-> VindelDecoder,
   hybrid |-> HybridDecoder, hybrid_soft |-> HybridSoftDecoder,
   clean |-> CleanDetector, noisy |-> NoisyDetector,
   block_encoder |-> BlockEncoder(TRUE), block_encoder_empty |-> BlockEncoder(FALSE),
   block_decoder |-> BlockDecoder(TRUE), block_decoder_empty |-> BlockDecoder(FALSE),
   block_soft |-> BlockSoftDecoder(TRUE), block_soft_empty |-> BlockSoftDecoder(FALSE),
   naive_encoder |-> NaiveEncoder, naive_decoder |-> NaiveDecoderKind,
   naive_soft |-> NaiveSoftDecoder, marker_encoder |-> MarkerEncoderKind,
   marker_decoder |-> MarkerDecoderKind, marker_soft |-> MarkerSoftDecoder,
   encoder_pipe |-> EncoderPipeKind, decoder_pipe |-> DecoderPipeKind,
   soft_decoder_pipe |-> SoftDecoderPipe, frame_encoder_pipe |-> FrameEncoderKind,
   frame_decoder_pipe |-> FrameDecoderKind, frame_soft_pipe |-> FrameSoftDecoder,
   hardening |-> Hardening, softening |-> Softening, executor |-> Executor,
   valve |-> Valve, drain |-> DrainKind, push_to |-> PushTo, pull_from |-> PullFrom,
   splitter |-> Splitter(TRUE), splitter_alone |-> Splitter(FALSE),
   diverter |-> Diverter(TRUE), diverter_alone |-> Diverter(FALSE),
   selector |-> Selector(TRUE), selector_alone |-> Selector(FALSE),
   combiner |-> Combiner(TRUE), combiner_alone |-> Combiner(FALSE),
   pipeline |-> PipelineKind(TRUE), pipeline_empty |-> PipelineKind(FALSE),
   bag |-> Bag, pipe_container |-> PipeContainer]

-----------------------------------------------------------------------------
(* One life.  The factory runs its steps one by one; what it returned is   *)
(* then used, which may allocate buffers that were NULL, and destroyed.    *)

CONSTANT MaxFails    \* bound: failed allocations in one life

VARIABLES made,      \* what is made, one of Kinds
          pc,        \* steps of the factory that were taken
          phase,     \* "making", "living", "refused" or "destroyed"
          cell,      \* the pointer to each cell
          fails,     \* failed allocations
          stray      \* a pointer was used that points to nothing that is there

lifevars == <<made, pc, phase, cell, fails, stray>>

Make   == made.make
Unmake == made.unmake

Names(steps)  == UNION {{steps[i].cells[j] : j \in DOMAIN steps[i].cells} : i \in DOMAIN steps}
Freed(frees)  == {frees[i].cell : i \in DOMAIN frees}
CellsOf(kind) == Names(kind.make) \cup Freed(kind.unmake)

\* The cells a factory takes, and the pointers that are in cell h.
Eager == {c \in Freed(Unmake) : \E i \in DOMAIN Make :
                Make[i].op \in {"malloc", "calloc"} /\ Make[i].cells = <<c>>}
Fields(h) == {c \in CellsOf(made) :
                \/ \E i \in DOMAIN Make : Make[i].of = h /\ c \in ToSet(Make[i].cells)
                \/ \E i \in DOMAIN Unmake : Unmake[i].of = h /\ Unmake[i].cell = c}

IsThere(ptr, h) == h = Local \/ ptr[h] = "held"

\* dt_free of one cell: NULL is fine, anything else has to be there.
Release(heap, f) ==
  [ptr   |-> IF heap.ptr[f.cell] = "held"
             THEN [heap.ptr EXCEPT ![f.cell] = IF f.reset THEN "null" ELSE "gone"]
             ELSE heap.ptr,
   stray |-> \/ heap.stray
             \/ ~IsThere(heap.ptr, f.of)
             \/ heap.ptr[f.cell] \notin {"held", "null"}]

Released(frees) == FoldLeft(Release, [ptr |-> cell, stray |-> stray], frees)

LifeInit ==
  /\ made \in {Kinds[k] : k \in DOMAIN Kinds} /\ pc = 0 /\ phase = "making"
  /\ cell = [c \in CellsOf(made) |-> "none"]
  /\ fails = 0 /\ stray = FALSE

At(op) == phase = "making" /\ pc < Len(Make) /\ Make[pc + 1].op = op

\* The pointers in a new cell are garbage, or NULL if it is zeroed; those of
\* cells that were taken before are kept in local variables.
Allocated(h, zeroed) ==
  [c \in DOMAIN cell |->
     IF c = h THEN "held"
     ELSE IF c \in Fields(h) /\ cell[c] = "none" THEN (IF zeroed THEN "null" ELSE "unset")
     ELSE cell[c]]

Allocate ==
  /\ At("malloc") \/ At("calloc")
  /\ \E s \in {Make[pc + 1]} :
       /\ stray' = (stray \/ ~IsThere(cell, s.of))
       /\ \/ cell' = Allocated(s.cells[1], s.op = "calloc") /\ UNCHANGED fails
          \/ fails < MaxFails /\ fails' = fails + 1
             /\ cell' = [cell EXCEPT ![s.cells[1]] = "null"]
  /\ pc' = pc + 1 /\ UNCHANGED <<made, phase>>

SetsNull ==
  /\ At("null")
  /\ \E s \in {Make[pc + 1]} :
       /\ stray' = (stray \/ ~IsThere(cell, s.of))
       /\ cell' = [c \in DOMAIN cell |-> IF c \in ToSet(s.cells) THEN "null" ELSE cell[c]]
  /\ pc' = pc + 1 /\ UNCHANGED <<made, phase, fails>>

\* The frees of a step, taken for good or on the way out.
Frees(s, then) ==
  \E heap \in {Released(s.undo)} :
    cell' = heap.ptr /\ stray' = heap.stray /\ phase' = then

FreesFirst ==
  At("free") /\ Frees(Make[pc + 1], "making") /\ pc' = pc + 1 /\ UNCHANGED <<made, fails>>

ChecksArgs ==
  /\ At("args")
  /\ \/ pc' = pc + 1 /\ UNCHANGED <<phase, cell, stray>>
     \/ Frees(Make[pc + 1], "refused") /\ pc' = 0
  /\ UNCHANGED <<made, fails>>

ChecksCells ==
  /\ At("need")
  /\ IF \A c \in ToSet(Make[pc + 1].cells) : cell[c] # "null"
     THEN pc' = pc + 1 /\ UNCHANGED <<phase, cell, stray>>
     ELSE Frees(Make[pc + 1], "refused") /\ pc' = 0
  /\ UNCHANGED <<made, fails>>

HandsOver ==
  /\ phase = "making" /\ pc = Len(Make)
  /\ phase' = "living" /\ pc' = 0 /\ UNCHANGED <<made, cell, fails, stray>>

\* A FIFO or a buffer that was empty grows: dt_realloc of the pointer.
Grow(c) ==
  /\ phase = "living" /\ c \in Freed(Unmake) \ Eager
  /\ stray' = (stray \/ cell[c] \notin {"null", "held"})
  /\ cell' = [cell EXCEPT ![c] = "held"]
  /\ UNCHANGED <<made, pc, phase, fails>>

Destroy == phase = "living" /\ Frees([undo |-> Unmake], "destroyed") /\ UNCHANGED <<made, pc, fails>>

LifeNext ==
  \/ Allocate \/ SetsNull \/ FreesFirst \/ ChecksArgs \/ ChecksCells \/ HandsOver
  \/ \E c \in DOMAIN cell : Grow(c)
  \/ Destroy

-----------------------------------------------------------------------------
\* Whichever allocations fail and whichever argument is refused, a factory
\* gives back all it took or returns an object that has everything, and its
\* destroy function gives back everything, what grew in use with it.
AllOrNothing ==
  /\ phase \in {"refused", "destroyed"} => \A c \in DOMAIN cell : cell[c] # "held"
  /\ phase = "living" => \A c \in Eager : cell[c] = "held"

\* On no path is a pointer used before it is set or after what it points to
\* was freed, a cell freed twice, or a field reached through a failed
\* allocation: the clean-up code may free what it never came to.
NothingStray == ~stray
=============================================================================
