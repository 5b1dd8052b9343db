# A TLA+ development of drifty

drifty is a freestanding C library of forward-error-correction codecs for channels
that flip, lose and insert bits, with a pipe layer that connects them.  This
directory holds TLA+ models of its code, TLC configurations that check them on
small instances, and proofs of their main theorems.

Contents: [the system](#the-system) · [the models](#the-models) ·
[the runs](#the-runs) · [bounds](#bounds-and-why-they-suffice) ·
[fairness](#fairness) · [the proofs](#the-proofs) ·
[findings](#where-code-and-documents-disagree) · [left out](#what-is-not-modelled) ·
[plan](#plan)

## The system

The library is single-threaded, driven by calls, and allocates with realloc.  What
makes its code hard is not concurrency but *resumption*: every codec and every pipe
may be cut at any symbol by the end of its input, by a full output buffer or by a
failed allocation, and must go on from there in the next call.  Only the metrics
programs run threads.

| component | source | state | operations |
|---|---|---|---|
| pipe FIFO | `src/pipe/fifo.h` | block, capacity, head, tail | reserve, append, drain |
| double-ended buffers | `src/pipe/bufcore.h` | four FIFOs | hard and soft push and pull |
| pump, projections, executor | `src/pipe/pipes.c` | FIFOs | pump, harden, soften, run a user phase |
| pipeline | `src/pipe/pipeline.c` | stage list, ends | begin, tick, finalize, add, remove |
| routing pipes | `src/pipe/multi.c` | ends, sinks or sources, a selection | tick, finalize, select, open, close |
| stream codec pipes | `src/pipe/streams.c` | two FIFOs, a codec | push, pull, begin, tick, finalize |
| frame codec pipes | `src/pipe/frames.c` | two FIFOs, a codec, `stalled` | the same, begin_frame, end_frame, advance, get_state |
| marker frame codec | `src/fc/marker.c` | held ones, gathered code, output queue, frame state | encode, begin_frame, end_frame, decode, finalize |
| naive frame codec | `src/fc/naive.c` | position, frame state | decode, get_state |
| convolutional encoder | `src/cc/encoder/`, `src/cc/ccode.c` | shift register, tables | encode, flush |
| Viterbi decoder | `src/cc/viterbi/` | metrics, backpointer ring, received buffer, counters | decode, flush |
| bcjr | `src/cc/bcjr/` | metrics, rings of snapshots, received buffer, decision FIFO, lock | decode, flush |
| maxir | `src/cc/maxir/` | the same over a window of drifts, rings of branch costs and shifts | decode, flush |
| hybrid | `src/cc/hybrid/` | the same without the FIFO | decode, flush |
| vindel | `src/cc/vindel/` | metrics over the drifts, backpointer and shift rings, received buffer, lock | decode, flush |
| detectors | `src/cc/detect_clean`, `detect_noisy` | received window, evidence per position, output queue | decode, flush |
| RS(251) block codec | `src/bc/rs251.c`, `contrib/rs251` | two block buffers | encode, decode |
| containers | `src/container.c`, `src/pipe/pipes.c` | array of entries | add, remove, destroy |
| code search | `bench/dt_codesearch.c` | candidates, samples | score, choose presets |
| metrics programs | `metrics/*/` | results, counters per point | edit distance, parallel sweep |

Components interact by direct calls through function tables: a pipe calls its
codec's `decode`, a pipeline calls its stages' `sink`, `tick` and `source`, and the
pump calls one pipe's `pull` and another's `push`.  A frame decoder reports
boundaries not by a callback but by a state its caller compares before and after
each call.  A stream decoder is a handle over an engine; every factory builds several
allocations into one object and its destroy function takes them apart.

What makes each component correct:

* the FIFO: it is a queue, a failed call changes nothing, no unwritten cell is read,
  and memory is bounded by what is alive in it;
* the marker codec: transparency.  Any payload, whatever it looks like, comes out
  unchanged, with the boundaries in place, and the delay is bounded; the soft decoder
  sees the frames the hard one sees and passes records on untouched;
* a frame decoder: the reported states form a legal walk, momentary states are left
  at once, no boundary is invisible to a caller that compares states;
* the frame pipes: bits and boundaries pass in order, a run never crosses a
  boundary, and the loops end;
* the stream pipes: what goes in comes out, once and in order, delayed by the
  decision depth and by nothing else;
* the pump, the pipeline and the routing pipes: no loss, no repetition, no
  reordering, except where a document says that data is dropped;
* the convolutional encoder and the Viterbi decoder: each decision is made before
  its ring layer is overwritten and exactly once, it is that of a transmission nearest
  to what was received, and path costs do not grow with the stream;
* the four other decoders: the same over all alignments of what was sent with what
  was received, with nothing dropped from the buffer that is still read, and with a
  fresh start exactly when lock was had and lost;
* the detectors: a record is final when it is handed out, and every position gets one;
* RS(251): a block is accepted within its budget of errors and erasures and refused
  beyond it;
* factories: all or nothing, and no stray free;
* containers: an object dies before what it was built on;
* the code search: the score is the free distance, presets do not lock on each other;
* the metrics programs: the edit distance is exact, and rows do not depend on threads.

## The models

| module | models | state and actions against the code |
|---|---|---|
| `PipeQueue` | what the pipe layer expects of a buffer | abstract: a sequence and the last call's answer |
| `Fifo` | `fifo.h` | `fifo` is the struct, cell for cell, with `Junk` for uninitialised memory; `Store`/`StoreNoMemory` are append, `Produce`/`ProduceNoMemory` a codec adapter's reserve and write, `Drain` is drain |
| `MarkerCodec` | the format, the encoder and the bit machine of the hard decoder of `marker.c` | `Processed` is e_process, `Flushed` e_flush, `BegunFrame` and `EndedFrame` the frame calls; `Fed` is d_feed, `Closed` the loop-free part of md_finalize, `Stops` and `Drained` d_drain |
| `MarkerDecoder` | that decoder on any channel | one `Feed` per symbol of a decode call, `Return` ends the call, `Finalize` |
| `FrameLink` | what a frame codec promises its users | abstract: what is owed to the reader |
| `MarkerLink` | encoder pipe, clean channel, decoder | `in` is the pipe's input FIFO; `Push`, `Tick`, the frame calls and finalize with and without memory, `Carry` moves a symbol, then the decoder's calls |
| `SoftMarker` | the soft decoder of `marker.c` | `SoftFed` is sd_feed on records; the held ones are records, not a count |
| `FrameReader` | what a frame decoder pipe promises | abstract: pending items, the state, readable bits |
| `FramePipe` | the frame decoder pipe of `frames.c` | generic in the decoder, which is given as operators; each decode() call of fdec_step is one `Call`, `pc` says which handler is running |
| `MarkerPipe`, `NaivePipe` | that pipe over each codec | instances of `FramePipe`, `MarkerPipe` with the bit machine of `MarkerCodec` as its decoder |
| `NaiveMachine`, `NaiveLoop` | the naive decoder; the caller loop of the documents, the example and the tests | `NaiveDecode` is one decode() call, `Offer` brings symbols and room |
| `StreamPipes` | the two stream codec pipes of `streams.c`, and what both ends of a rate 1/N code agree on | a bit is its number in the stream, a symbol names its bit and its place in the group; `epc` says which of the encoder's three loops runs, `room` is its local, `EncodeCall` is a round of enc_run, `EncodeTail` one of enc_finalize; `dpc` and `fed` are the decoder handler's place and local, `DecodeCall` is a round of dec_run, `FlushCall` the end of dec_finalize; `held` is what the wrapped decoder has not decided |
| `DelayLine` | what those two promise together | abstract: bits pending and bits readable |
| `StreamLink` | both pipes with a clean channel between | the caller's push, pull and `Carry`, the handlers of either pipe |
| `ConvCode` | the code tables of `ccode.c`, the encoder of `src/cc/encoder/` | `Output` and `NextState` are the tables, filled from the shift register; `Emitted` is emit_group, the two halves of `unknown` are sets of register positions |
| `Viterbi` | `src/cc/viterbi/decode.c`, and encoder, spoiling channel and decoder together | metrics, ring and counters as in the struct; `Step` is a round of vit_run, `DrainOne` a round of flush's own loop, `call` says which loop runs; then `Encode`, `Decode` with any piece and room, `FinalizeDecoder` called again for what had no room |
| `SoftWindow` | what the four decoders below share; produce and sweep_window of bcjr and maxir | costs with an infinity, normalising, the smoothed cost and the lock, re-acquisition; `Take` hands a decision out, `SweepBegins`/`SweepMoves`/`SweepEnds` are the rounds of the sweep, `Return` the ends of a call |
| `Bcjr` | `src/cc/bcjr/decode.c` | `Feed` compacts and grows the buffer, `ForwardStep` is forward_step, `SweepStep` compute_beta_step with finalize_emit |
| `DriftTrellis` | the forward half of maxir, hybrid and vindel | nodes are state and drift; alignment costs by the code's recurrence, the shift of the window, the buffer |
| `DriftSweep` | maxir and hybrid over that: the backward half they share, the loop of each | branch costs from their ring, drifts followed through the shift ring; `Due` and `BatchStep` are the loop of hybrid |
| `Vindel` | `src/cc/vindel/decode.c` | backpointers name state and drift; `Traced` is trace, decisions before the layer is taken; the pass without drift as the code has it |
| `DecoderStream` | one of the four decoders on a stream | the calls; and, beside the code's state, the reference that follows each step |
| `Detector` | both detectors | `Listen` is decode, `ListenNoMore` flush; `WithEvidence` and `Slid` take the windows there are, `Emit` is emit_upto with the output queue, `Settled` the first position not yet final |
| `Rs251` | the block codec and the library under it | encode, Gao's decoder with erasures, the soft decoder's retries, budget and spare |
| `Lifecycle` | every create and destroy function; one object from its factory to its end | the functions as data: allocations, checks, clean-up in order; a life runs those step by step on a failing allocator |
| `Container` | `container.c`, the pipe container of `pipes.c` | `Add...` by outcome, `TakeBack` is remove, one round of destroy's loop a step |
| `CodeSearch` | `bench/dt_codesearch.c` | free_distance, the catastrophic test and the choice of presets, a round a step |
| `EditDistance` | edit_threshold and edit_distance of the metrics programs | two scratch rows with what was in them, a row a step |
| `TrialSweep` | their parallel loop | threads with store buffers; `CountDown` is the atomic capture, `Sum` and `PrintRow` what the last one does |
| `Pump` | `dt_pipe_pump` of `pipes.c`, the buffers of `bufcore.h` | `work` is what the running handler has still to move, `chunk` and `rest` are b and b + off; `TakeChunk` is a pull, `PushPart` a push, `NextJob` the break at an empty source, `Fails` any return of an error |
| `Routing` | the pipes of `multi.c`, the converters of `pipes.c` | each `...Run` is the function of that name, as a list of pumps |
| `Pipeline` | `pipeline.c` over those | `PhaseJobs` is pl_run with its stages' handlers in line, `Start` a call of begin, tick or finalize; the caller pushes, selects, adds and removes between calls |
| `FifoProofs`, `MarkerLinkProofs`, `StreamProofs`, `ViterbiProofs`, `DecoderProofs`, `PipelineProofs` | theorems about `Fifo`, `MarkerLink`, `StreamLink`, `Viterbi`, `DecoderStream`, `Pipeline` | |
| `MarkerProofs`, `PartsProofs` | theorems about `MarkerDecoder`, `MarkerPipe` and `SoftMarker`; about `TrialSweep`, `Container`, `NaiveLoop`, `Detector` and `EditDistance` | |
| `MCParts`, `MCPipes`, `MCPipeline`, `MCDecoders` | instances for TLC; `MCParts` and `MCPipes` put models side by side of which one acts in each behaviour | |

The pure part of each codec is a module of operators on a record, so that the same
text serves the codec alone, the link, the pipe and the proofs.

Abstractions.  A symbol is `"1"`, `"0"` or a member of `Others`, which stands for
erasures and the other non-values; all that the marker codec asks of a symbol is
which of the three it is.  `Run` replaces MARK_RUN.  In `MarkerLink` the encoder's
output FIFO and the transport are one queue, since draining one into the other moves
symbols inside it.  In `FramePipe` the room that `dt_bit_fifo_reserve` leaves is any
number from the amount asked for upward, which is what `Fifo` shows of it.  The
soft pipes run the same control over records in place of bits.

`StreamLink` and `Viterbi` split the decoder between them.  The pipe is modelled over
a decoder of which only the cadence matters - it keeps what it is fed and decides a
group when `Depth` younger ones are there (`Decides`) - and `ViterbiProofs` shows of the
real decoder that this is its cadence, the run `viterbi` what the decisions are
worth.  Symbols in `StreamLink` carry their bit's number, so that any loss, repetition
or shift of the group boundaries shows in what is decided.  begin() of the stream
pipes is left out: with the codecs of the repository it emits and consumes nothing.
`pipe.h` (line 50) says that begin() resets the buffers, `streams.c` (lines 118 and
254) says and does the opposite; no model depends on either.

The four decoders compute with floating-point log-likelihoods.  The models use
integers, with `Inf` for INFINITY, which keeps comparisons, sums and minima - all the
control there is - and leaves out rounding.  The smoothed cost is kept as the
numerator of a fraction, so it is exact.  A decision is what finalize_emit or
finalize_soft writes as the hard symbol: a value, a mark, an erasure or nothing;
the posteriors behind it (`c_true`, `c_absent`, `c_locked`) are monotone functions of
the two costs compared and are left out.  `DecoderStream` keeps, beside the decoder,
the cost of the cheapest whole transmission through each bit of each step, computed
without buffer, rings, windows, normalising or backpointers; its alignments are priced
by trying each of them, where the code has a recurrence.

The detectors' arithmetic that decides anything - ranks over GF(2), the histogram of
the rows and its Walsh-Hadamard transform - is modelled exactly; the log-likelihoods
made from it are left out, a window speaking for an offset when a fraction clears a
threshold.  In the code search, lock rates measured on a simulated channel are inputs.

A handler of the plumbing is a list of pumps, computed when it is entered, since
selections and stages do not change while it runs.  Elements are named by where they
entered and their number there, so a copy or a loss shows in the state; their values,
which the converters change, are left out.  A FIFO takes a push whole or refuses it
(`Fifo`); an outside sink may take any part, an outside source hand out any part,
lack a face, or fail.

What callers are held to.  A client of the frame encoder pipe ticks before a frame
call, so that no payload waits (`in = <<>>`); nothing in `frames.c` asks for it, but
the documents' examples do so.  A client hands a container objects that are its own,
after what they depend on, and has not yet built on them; a pipe that a container
could not add is left to nobody (`AddDropped`).  Nothing is decoded after a flush.

## The runs

Passing:

* `parts` (`MCParts`, about 152 000 states): nine components that share nothing, put
  side by side in one run.
  * *fifo*: no live cell is unwritten (`LiveIsWritten`); the block grows only when the
    live elements and the request do not fit (`GrowthNeeded`); every step is a step of
    `PipeQueue` (`ImplementsQueue`).
  * *naive*: frames tile the stream (`FramesTile`), the caller's loop stops only for
    want of symbols or room (`SettledIsStarved`).
  * *link*: transparency, as a refinement of `FrameLink` (`ImplementsFrameLink`).  The
    mapping computes what would come out if the stream ended now; a step may change it
    only by appending what the user supplied or removing what the decoder reported.
    `HeldBack` bounds the delay.
  * *soft*: the soft decoder makes, step by step, the moves of the hard one on what its
    records favour, and hands out the records that came in (`SoftFollowsHard`).
  * *rs*: a block is answered with a codeword's data exactly when one lies within the
    budget of errors and erasures that the spare symbols leave, and the soft decoder
    gives up as few symbols for it as it can (`RsExact`); the reference is a search
    through all codewords, without interpolation or Euclid's algorithm.
  * *detector*: what is reported, however the stream was cut and whichever growth
    failed, is what all windows over a position show together (`DetSettled`), and in
    order; a call leaves less than the longest window unreported and a flush nothing
    (`DetComplete`).  The reference takes each window of the
    whole stream, with rank and bias by their definitions.
  * *life*: a factory hands out a whole object or nothing, and everything it allocated
    is freed (`AllOrNothing`); no pointer is freed or followed that does not point to a
    live allocation (`NothingStray`).
  * *search*: the score is the free distance (`ScoreIsFreeDistance`), for the standard
    codes that which `ccode.h` states; presets picked together are told apart, and
    fewer are picked than wanted only when no other could be added (`PresetsDistinct`).
  * *edit*: the banded search over uncleared scratch returns the edit distance (`EditExact`).
* `pipes` (`MCPipes`, about 127 000): two pairs of pipes and three components by
  themselves, side by side.
  * *stream*: the stream codec pipes are a delay line (`ImplementsDelayLine`), whichever
    handler runs out of memory and however the coded stream is cut; between calls the
    lag is at most the decision depth, so a tick whose output exactly filled its room
    leaves no decision behind (`LagIsDepth`); finalize delivers all whole groups
    (`FinalizeDelivers`).
  * *marker*: the frame decoder pipe implements `FrameReader` (`ImplementsFrameReader`);
    the bits of a tick lie on one side of each boundary (`RunsNeverMerge`).
  * both: the loops that double a room, those that empty a decoder and those of the
    frame pipe end (`CallsReturn`).
  * *noise*: any bits, any room, calls cut anywhere, finalize and decoding on after it:
    BEGIN and END are left at once and hold no bit (`MomentaryStates`).
  * *sweep*: the threads print what one thread prints (`RowsMatchSerial`), given that a
    store has arrived when its trial is counted - which `metrics_relaxed` takes away.
  * *bag*: an object dies before what it was built on, and everything the container
    took over is in an entry that will free it (`DependentsFirst`).
* `viterbi` (`Viterbi`, about 119 000): every stream of up to three symbols,
  non-values among them, with its tail, up to two faults of the channel, calls cut
  anywhere.  No backpointer layer is taken before its decision (`RingHolds`); each
  decision is that of a transmission nearest to what was received, the reference being
  the convolution itself and an exhaustive search, without a trellis (`DecidesNearest`);
  a single flip or two lost symbols do no harm (`FaultsCorrected`); no state costs more
  than the best by more than the heaviest codeword of K-1 bits weighs (`CostsBounded`).
* `plumbing` (`MCPipeline`, about 335 000): every element sent is at one place, dropped
  on request or lost to an error (`Conserved`), what shares an origin and a face stays
  in order and is not delivered twice to any place, even when a failed tick is repeated
  (`OrderKept`), a tick that succeeds leaves nothing in its stages or outside sources
  but what a chosen sink has no face for (`Settles`), and calls return (`CallsReturn`).
* `decoders` (`MCDecoders.cfg`, about 122 000): maxir, hybrid and vindel on streams with
  symbols replaced, lost or added, and on fades.  Each decision is that of the cheapest
  of all whole transmissions, under all alignments (`DecidesBest`); compaction drops
  nothing that is still read and no snapshot of an undecided step is overwritten
  (`WindowKept`); a decoder begins afresh exactly when it had lock and then went two
  decision depths without (`Reacquires`); decisions come neither early nor late, once
  and in order, and a flush leaves none behind (`Cadence`).
* `decoders_straight` (`MCStraight.cfg`, about 16 000): all four decoders without drift,
  with it bcjr and the fast path of vindel; and every call returns, with no room as
  well (`CallsReturn`).

Expected violations, each a [disagreement](#where-code-and-documents-disagree) between
the code and its documents: `marker_pipe_stall`, `naive_pipe`, `marker_unmatched`,
`stream_refeed`, `metrics_relaxed` (`MCPipes` with the part *sweep* alone), `soft_ties`
(`MCParts` with the part *soft* alone and a record that favours neither value).

The deadlock test is off where behaviours end: streams are bounded and read to their
end (`pipes`, `viterbi`, both `decoders`), and so do several of the `parts`, a search
or a life for instance.  `plumbing` keeps it on.

Each property of a passing run has a mutant, a slip written next to the definition
it would replace (`PooledLatest` for `Pooled`, and so on), under which TLC finds the
property violated.

## Bounds and why they suffice

* *fifo*: first capacity 1, at most 4, calls of up to 3 elements, INT_MAX of 2.  A
  block doubles twice; compaction happens with and without a doubling behind it;
  calls are longer than what one answer can report.  The proofs cover all sizes.
* *naive*: frames of 2, arrivals and rooms of 0 to 3, so that a loop covers less than
  a frame, exactly one, and the end of one and the start of the next.
* *noise*: a run of 1, no symbols but bits, rooms 0 to 2, nothing added behind more than
  3 queued tokens.  One step queues up to Run + 3 tokens, so queues of 7 occur.  The
  proofs cover every run and alphabet.
* *link*: a run of 2, one other symbol, one bit waiting in the pipe, the encoder called
  with nothing in flight.  With a run of 1 the prefix and the code could not be told
  apart in all the ways they can with 2; longer runs add states that only count.
  Backlog 0 loses nothing: encoder and decoder share only the symbols in flight, so
  their steps commute.  The proofs cover every run, alphabet and backlog.
* *soft*: a run of 2, five records, one for each way a record is read, ties with the
  right winner among them; room for one.
* *rs*: codes of five symbols over the field of five, with (k 2, spare 1) and (k 3,
  spare 0): budgets with and without a spare, bytes at and above the prime (base 6), an
  unreadable byte.  Blocks have a part of their symbols fixed; every error weight
  within and beyond the budget remains.
* *detector*: rows of 2, strides 2 and 3, streams of 10, a first buffer of 4, pieces of
  up to 5 and rooms of up to 3; noisy windows of 6 and, at the end, 4, two apart.
  Windows overlap, a piece completes none or several, buffers compact and grow.
* *life*: every factory, up to two failed allocations in a life, which is one in the
  factory and one in use, or two in use.
* *search*: all candidates of three families of constraint lengths 3 and 4, the standard
  codes, samples of three and four codes.
* *edit*: all pairs of texts of up to four bits, from a band of one, so that a band
  doubles up to twice.
* *sweep*: three threads, two points of two trials: a thread may take trials of both
  points, another finish either.  The proofs cover all numbers of each.
* *bag*: three objects in a container that starts with one entry, so it grows twice.  The
  proofs cover any number of objects.
* `pipes`, streams: a rate 1/3 code with a tail of 2, four bits, decision depth 2.  The
  encoder's first room, twice the input, is too small for three symbols a bit, as it
  is for the 1/3 codes of the library, so the doubling happens; a decode call has room
  for one or two bits and decides up to four, so rooms are underfilled, filled exactly
  and overrun.  Only how the numbers compare matters, not their size.
* `pipes`, frames: a run of 1, room of 1 or 2 a call, up to 4 symbols buffered.  The
  pipe never looks at the symbols; what it needs is that runs both shorter and
  longer than the room occur, also exactly as long, which they do.
* `viterbi`: the standard code of constraint length 3 (four states, generators 5 and
  7), a ring of 3 layers in place of 18, pieces and rooms of up to 2.  Five steps run
  through the ring almost twice, so layers are reused; a piece may be shorter, equal
  or longer than a group of 2.  A flip counts for two faults and a lost symbol for
  one: the code's free distance is 5, so a budget of 2 is what it must correct.
* `plumbing`: two stages in either order, in five pairings that cover all ten kinds;
  outside sinks with one face, an outside source with two; two elements, chunks of
  two.  That is enough for a short push in the middle of a chunk, two chunks from one
  source, and a failure that leaves one element behind and lets the next come after.
  Three elements make it millions of states.  A removed stage does not come back: put
  in at another place with data stranded, it would rightly see elements a second time.
* `decoders`: constraint length 2, rate 1/2, decision depth 3, drifts of one symbol
  either way, words of five bits with any symbol replaced by any other, any one lost,
  one added anywhere, two lost or added, and a silence of ten symbols between two
  pieces of a word, after which lock is lost and found.  Pieces of 1 and 5 symbols,
  rooms of 1 and 2, a buffer that starts with 4 symbols: rings go round, the window
  shifts both ways, buffers compact and grow, and calls end in the middle of a sweep.
* `decoders_straight`: the same code, depth 2, no drift, words of three bits.

## Fairness

Four specifications have it, all for the same reason: a handler, once entered, is a plain
C loop with nothing to wait for, so its next round comes.  `StreamLink!GoesOn` says so
of the stream pipes' handlers, which may still stop at any round for want of memory,
`FramePipe!GoesOn` of the frame pipe's, `Pipeline!Spec` of the pump's loops within a
call, `DecoderStream!FairSpec` of the rounds of the four decoders.  Nothing is assumed of
callers: they need not push, pull, tick or advance, and no liveness property asks for
more than that a call in progress returns.

## The proofs

`FifoProofs` proves, for every element set, first capacity, INT_MAX and allocation
limit, the properties of *fifo* and two more, its types and that an empty FIFO restarts
at the front.  The inductive invariant is `Safe`: the index order and cell types of
`WellFormed`, that all live cells are written, and that an empty FIFO is at the front.
The types alone are not inductive for the refinement: that a drain returns elements of
`Val` needs the live cells written, and this in turn needs the index order.  One lemma
per helper (`Compacted`, `Grown`, `Reserved`, `Written`, `Dropped`) says what it does to
`Contents`; the step lemma for each action combines them, and the refinement follows
action by action.

`MarkerProofs` proves, for every run length and alphabet, the type invariant,
`MomentaryStates` and, beyond the run, `EveryTransitionMoves` of the decoder on an
arbitrary channel.  The two are not inductive: a marker is appended behind whatever is
queued, so one must know which state the queue ends in.  The invariant `DecoderInv` says
that `Walk`, the reported state and the queue, is *steady* - any two neighbouring
transitions are a legal step of the frame state machine, bits occur only in
sustained states - and that it ends in a sustained state.  Two lemmas carry it:
appending bits keeps it, and appending one of the three transition lists keeps it.
A closing marker outside a frame is harmless for the same reason: END, OUTSIDE
behind OUTSIDE still moves at every transition.

It goes on to the frame decoder pipe around that decoder: `RunsNeverMerge` and the
refinement `ImplementsFrameReader`, for every run, alphabet and room.  What the reader is
still owed is the decoder's queue once it has been fed the pipe's input and, in
finalize, been closed; so the mapping folds the decoder over the input.  `PipeInv` holds,
beside the types, a steady walk; that finalize, once it has drained, finds nothing left to
feed or to report (`EdgeEmpty`); that a handler compares with the state its step began in
until bits come out (`PrevIsState`); and that a tick whose decoder has moved can only find
a further boundary (`MovedIsOver`).  The last is what makes the boundary that finding 1
lets pass harmless.

And to the soft decoder: `SoftFollowsHard`, that decoder behind hardening records takes
the steps of the hard one.  It holds the records of the ones where the hard decoder
counts them, so the invariant is that each held record reads as a one and that the
queues agree record by record.  `SoftConstants` states what it takes: five costs to a
record, and no tie between 0 and 1 in a record that reads as one of them, which is finding 6.

`MarkerLinkProofs` proves transparency: `ImplementsFrameLink`, and `HeldBack`, for every
run length, alphabet, room and interleaving.  The mapping folds the decoder over
all that is still to come, so it rests on lemmas about folds, which `MarkerProofs` has: what
`Folded` computes (`FoldedIs`, by induction over the sequence), that it can be cut
anywhere, and that what a decoder had queued before does not matter to what follows (`Ahead`).  The
invariant `LinkInv` relates the two ends.  `Reached` is the decoder once it has had the
symbols in flight, `Said` what it then has queued or counts, followed by what the
encoder holds back.  The ends are `Synced` when such a decoder scans, and counts ones
only while the encoder holds a full run; they may then differ in who holds a run
back, but never in what was said.  One lemma per move of the encoder - a bit that
joins or breaks a run, an escape, a marker, a flush - says what it adds to `Said`;
`EndsOwe` says that what is owed is `Said` and the payload that waits; and each step
of the link is then an append, a removal at the front, or a stutter.  Escaping and
unescaping cancel because the code behind a full run is `00` for an escape and never
for a marker.

`StreamProofs` proves `LagIsDepth` and `FinalizeDelivers` for every rate, depth, room
and length of stream.  Both are about how many whole groups the decoder holds, so the
work is in `GroupsBehind` - deciding w groups leaves w fewer, a fact about division -
and in one step of the loop: a call that leaves room unfilled was limited by the
groups it had, hence leaves no more than `Depth`.  The invariant `LagInv` adds that
the lag may be larger only while a handler has fed its input and still loops, and that
the input is empty when finalize reaches its second half.  The theorems assume that
memory does not run out between two decode() calls of one tick (`~LateFailure`): then
the handler returns in mid-loop with more than `Depth` groups held, which is finding 4.

Under the same assumption it proves the refinement, `ImplementsDelayLine`.  What is
pending is the bits of the groups in flight - held by the decoder, waiting at it, not
yet carried - and the input of the encoder.  `LineInv` adds to `LagInv` that only whole
groups are in flight all together, however the channel cut them; then decoding moves
a prefix of the pending bits to the output, encoding moves bits from the input into
flight without changing the sequence, and a failed call changes neither.

`ViterbiProofs` proves of the Viterbi decoder, for every code, ring size, stream and way to
cut the calls:

* `RingHolds` and, beyond the run, the decoder's `Cadence`.  `RingHolds` says that at most
  `Depth` steps are undecided, and is not inductive: a step that decides first keeps the
  number, so one must know that the decision was due, and a step that does not decide
  raises it.  `CadenceInv` therefore fixes the number of decisions as a function of the
  number of steps (`Exact`), until a flush enters its own loop; from then on no whole
  group waits, so no step follows.  A flush that leaves room has decided all
  (`ViterbiFlushDecidesAll`).
* `CostsBounded`: costs stay together however long the stream, so that the metrics of
  the code cannot overflow.  `CostInv` says it of any two reachable states, by how many
  steps ago their paths parted: they then differ by at most the ones that a word of
  that many bits, zeros behind it, puts into as many groups.  The step lemma rests on the
  linearity of the parity the tables are filled with.  The hypothesis `N * K < Inf`
  says that this bound is less than what the code writes for an unreachable state.
* `DecidesNearest`: each decision is that of a transmission nearest to what was
  received.  `NearInv` ties the trellis to whole transmissions: the cost of a state,
  plus what normalising took off, is the distance of the nearest transmission that ends
  in it, and the ring holds the last `Depth` steps of one such transmission for each state,
  where a trace from it goes; hence the bit at the end of the trace from the cheapest
  state is one.  `NearestInv` adds the cadence, the bound on the costs and what was sent.  In a step, nearest transmissions extend nearest ones because distance
  adds up group by group.  A distance is a number of places, so no
  recursion is needed to split it (`Against`).
* `ViterbiTailClears`: K-1 zeros empty the encoder's register and both of its marks of
  symbols without value.

`DecoderProofs` proves `WindowKept` and `Cadence` of the four windowed decoders, for every
code, decision depth, drift window, stream and cut of the calls.  Costs play no part
in it.  `DecoderInv` counts: what was fed against what the buffer holds and where the
cursor stands (`FedInv`, `StraightInv` for bcjr, whose sweeps read symbols again, and
`DriftingInv` for the others, which read a drift window back); steps against decisions
(`CountInv`), never more undecided than the rings hold; where a sweep is and what it
may still decide (`SweepingInv`), which is needed because a call may return in the
middle of one; and that decisions handed out and waiting add up to those made
(`OrderInv`).  Neither property is inductive without the rest: that compaction keeps
what is read needs to know which step is the oldest undecided one, and that needs the
sweep.

`PipelineProofs` proves `Conserved` for every list of stages and net of connections,
chunks of every size, and whichever push, pull or allocation fails.  `PipeInv` says that
each element is at one place on its way, in the chunk in hand, dropped or lost, and only
at one of these (`WhereInv`); that numbers are taken in turn, so a new element is new (`ItemsInv`);
and that the running job's ends are places elements may be at, and its chunk its own
(`WorkInv`).  `WhereInv` alone is not inductive: that a handler's list of pumps stays
well-formed through its rounds is most of the proof, and rests on what `FlattenSeq` and
the projections make of a net.  The copies that a splitter leaves in outside sinks are
not on the way; what it passes on is.  `NetsAssumption` states what the constructors of
`multi.c` enforce - a push_to has one sink, a pull_from one source - and that what a splitter
copies into is fed by no diverter or push_to as well, where copies and originals
could not be told apart.

It also proves `Settles`, that a tick which succeeds leaves nothing behind.  `SettleInv`
relates what is held to the jobs that are left: a place the tick must empty is empty or
the source of a job to come (`Emptied`), and what a job moves to such a place is moved
on by a later one (`Forwarded`), so that a push in the middle of the tick breaks nothing.
The work is in the start (`TickJobs`, by induction over the stages): the part of one stage
takes all that stood before it, reads each of its sources, and moves things only out of
the stage, where the next part begins (`StagePart`).  `Faceless` adds that an outside
source holds nothing of a face that it lacks.

`PartsProofs` proves results about five small parts.  `RowsMatchSerial`, for any number
of threads, points and trials and any schedule, where no store passes the atomic
(`~Relaxed`; without it the statement is finding 5).  A trial is in one hand or was
counted (`HandsInv`), which needs that slots of different pairs differ (`SlotsDiffer`, a
fact about division with remainder); a counted trial's result is in memory
(`StoresInv`); a point's count is the number of its open trials (`CountsInv`), so the
count reaches zero once, in the hands of one thread (`ClosesInv`), which then reads
only finished slots (`SumsInv`).  `SweepAssumption` says that there is a trial and a
rate, which the programs check, and that no axis is listed twice.  And `DependentsFirst`
of the containers, for any number of objects and dependences: what stands in an owning
entry is owned by the bag, once (`OneOwner`); an entry stands behind the entries its
object depends on (`BehindNeeds`) - which a removal keeps, since it moves later entries
up in order, and an addition needs the discipline of the client for; and during the
end of the bag nothing outside leans on what is left (`EndsAlone`).

Of the naive codec in its caller's loop, `FramesTile` and `SettledIsStarved`, for every
frame length, arrivals and rooms: the two are inductive together with the types, once a
decode call's count is known to be the least of what is left of the frame, of the symbols
and of the room, so that a call moves on or one of the last two is 0.  Of the detectors, `DetComplete` and, beyond the run, that there
is one record for each position the detector no longer holds (`RecordEach`), which a
failed growth does not disturb.  `DetInv` adds that the next window starts inside what is
held or right behind it, so that `Slid`, which drops what no window to come covers, drops
a record for each; and each round leaves less than a window.

Of the edit distance, `EditExact`: what the banded search returns is the distance the
whole table of alignments has in its last corner, for texts of every length below `INF`,
a first band of every width and whatever the scratch rows held.  Neighbours in the
table differ by at most one, and along a diagonal it never falls (`TableSmooth`): so where
two symbols agree the code may take the least of three ways without asking
(`ThreeWays`), and a cell more than the band away from the diagonal is past the band.
`RightInBand` is what is inductive: a cell the next row reads holds the distance where
that is within the band, and is past the band where it is not.  The cell right behind
the band has to be in it, which is the one that `right_bound` clears (`RowIsRight`); a
search that returns more than the band then proves that the distance is more.

The proofs assume only the named assumptions of the modules: positive run length,
capacities, group length and depth, constraint lengths as the library's, other symbols
that are not frame states, rooms at least as the code asks for, streams of symbols,
detector windows that leave no gap (`DetectorAssumption`), texts of bytes shorter than
`INF` (`EditAssumption`), what was said of nets and sweeps, room for a finalize that is
more than a run.
Four theorems name a hypothesis of their own: `~LateFailure`, `~Relaxed`, `SoftConstants` and
`N * K < Inf`, each as said above; those of the naive codec ask for a frame of one bit or
more (`NaiveConstants`), see [below](#what-is-not-modelled).

Induction.  The theorems of the library that take an operator as parameter cannot be
instantiated by the provers.  Where a proof needs induction over numbers or sequences it
uses `SetInduction`, which says it of a set and follows from well-founded induction
(`NatLessThanWellFounded`, `WFMin`): enough for `Folded`, for `FlattenSeq`, for the
smallest index of a sequence, and for what a function defined by recursion rests on, that
there is one (`Recursion`, from which the rows of the edit distance and its table have
their equations).

Model-checked only:

* whatever compares an algorithm with an exhaustive definition of its result and needs a
  theory to be built first: of polynomials over a field (`RsExact`), of alignments
  (`DecidesBest`), of the distances of a code (`FaultsCorrected`,
  `ScoreIsFreeDistance`).  `DecidesNearest` shows what such a theory takes for
  the plain trellis;
* what `DetSettled` says of the evidence in a record, beside there being one for each
  position: each record would have to carry the windows that spoke for it;
  `Reacquires`, whose reference is a history of costs with a threshold in the middle;
* `AllOrNothing`, `NothingStray` and `PresetsDistinct`, whose instances are the code's own
  tables and samples, so that there is little to generalise;
* `OrderKept`, which does not hold for every net: where two stages feed one outside sink,
  an element that a failed tick left in the second is overtaken by one that the first
  is then switched to deliver there;
* everything under fairness: the three `CallsReturn`.

## Where code and documents disagree

1. *A tick may pass a boundary* (`marker_pipe_stall`).  `fdec_step` takes a full
   room for an unfinished run.  When a run exactly fills the room, the decoder has
   already taken the boundary behind it; the next iteration takes one more, and
   `get_state()` never shows the first.  `RunsNeverMerge` shows that the damage
   ends there: the extra iteration copies no bits.
2. *The naive codec does not work behind the frame decoder pipe* (`naive_pipe`).
   The pipe discards its input after one decode() call; the naive decoder consumes
   only what it writes, which is nothing in its first two calls.
3. *Unmatched frame calls are not refused* (`marker_unmatched`), although `frames.h`
   says so.  `ImplementsFrameLink` shows that the codec stays transparent through them.
4. *A tick that runs out of memory half way feeds its input twice* (`stream_refeed`).
   `dec_run` clears the input behind its loop; when the output cannot grow for the
   second decode() call, the tick fails with the input still buffered though it was
   fed, and the next tick or finalize feeds it again.  `pipes` shows that every
   other failure is harmless.
5. *Results are reproducible only on some machines* (`metrics_relaxed`).  A metrics
   program counts trials down with an atomic that orders no other store; on a machine
   that lets a store pass it, the thread that counts to zero may sum a slot whose
   result has not arrived.  `pipes` shows that with ordered stores the rows are right
   under every schedule, and `SweepRowsMatchSerial` proves it for any numbers.
6. *A tie is read in two ways* (`soft_ties`).  The soft marker decoder takes a record
   that favours 0 and 1 alike for a 0, a hardening pipe takes it for a 1, so the soft
   decoder and the hard one behind such a pipe see different frames.

## What is not modelled

* Rounding.  The decoders' costs are integers; their posteriors, and the lock
  consistency of a record, are left out.  hybrid called with neither output nor details.
* Costs that are infinite for what was received: with `p_erase` 0 an erased symbol
  leaves no path, in any later step either.  There is no best transmission to compare
  with, so nothing is checked of it.
* The engines' adapters to soft records, which are one engine call with the whole room.
* Decoding on after a flush (the Viterbi decoder would decide steps never taken):
  `stream_decoder.h` calls finalize once and last.
* A frame length of 0 for the naive codec: its decoder then cycles through its states
  as long as input waits.
* Allocation failure inside the marker codec's own queue, which the code ignores.
* begin() of codecs and of codec pipes, called once, at the start, where it changes nothing.
* The soft codec pipes, which are the text of the hard ones over records; the block
  adapter of RS(251), which gathers bytes; the buffer endpoints, which the pump's model
  covers as outside ends that take or hand out any part.
* begin, tick and finalize of the pipe container, which pass the call on to its pipes in
  the order they were added, whatever they answer; the executor, whose phases are the
  user's functions; codec pipes and pipelines as stages of a pipeline.
* Enumeration and measured lock rates of the code search; channels, parameter tables
  and command lines of the metrics programs; the detector metrics and the examples.
* NULL arguments and overflow of sizes in bytes; the wrappers of the standard library.

## Plan

The models cover the library; the refinements of the FIFO, the stream pipes, the marker
codec and the frame decoder pipe are proved, and the Viterbi decoder from its cadence to its
decisions.  What could be proved next, in order:

1. `DecidesBest` for bcjr alone, whose forward half is the trellis of `DecidesNearest`.
2. `DetSettled`, with the windows that spoke for a position as the record's value.
3. The soft codec pipes, by the text of the hard ones.
