# A TLA+ development of dscdecode

dscdecode is a decoder of VESA DSC streams: a PPS describes the picture, the
picture is cut into slices, and each slice is decoded group by group (three
pixels) under a rate control that the decoder computes in step with the encoder.
The decoder is one thread without persistent state. What is hard in it is not
concurrency but long runs of state that no test reads: registers that a flatness
override rewrites after they were used, accumulators whose fraction crosses
chunk ends, counters kept twice in two files, and array sizes that follow from
the syntax only by an argument in a comment. Many steps exist in two or more
readings of the specification (RESEARCH.md, open questions OQ-n), selected at
run time by `struct dsc_options`; a reading is a field of the record `opt` here.

## Inventory

| Component | Source | State | Operations | What makes it hard |
|---|---|---|---|---|
| PPS parser | `pps.c` | none | `dsc_parse_pps` | bit fields |
| Format | `format.c` | none (derived from the PPS) | `dsc_format_init`, `dsc_format_apply_options`, `dsc_qlevel` | thresholds and levels at the ends of the QP scale |
| Validation | `decode.c:45-101` | none | `validate` | which failures below it makes unreachable |
| Substreams | `decode.c:103-308` | funnel shifters, predicted sizes, levels, ICH mode | `refill`, `take`, `syntax` | one word per group must suffice; a fixed array; prefixes that share codes |
| Flatness signalling | `decode.c:176-204` | flag, type, position, supergroup flag | `syntax` | two supergroups in flight at once |
| Rate control | `rate_control.c` | `struct dsc_rc` | `dsc_rc_init`, `dsc_rc_apply_flat_line`, `dsc_rc_step_group` | a QP pipeline re-run in flight, bit-save mode, offset and scale phases, 28 readings |
| Bit removal | `rate_control.c:317-349` | fraction, chunk bits, chunk pixels | `drain_pixel` | fractions at chunk ends |
| Predictor | `predict.c` | three line buffers, the samples kept for MPP, ICH history, block prediction count | `dsc_predict_group_units` | stale lines, recency list, references left of the group |
| Slice loop | `decode.c:344-492` | loop counters | `decode_slice` | everything above in order, and six results |
| Picture assembly | `decode.c:494-726` | planes, chunk buffer | `decode_picture`, `decode_single`, `put_slice` | chunk order, cropping, subsampling, partial output |
| API checks | `decode.c:728-819` | none | `dsc_decode_*` | capacities |
| Options | `options.c`, `dsc.h`, `main.c:74-395` | none | `dsc_options_init`, `set_reading` | 40 questions, 86 named readings |
| Command line | `main.c` | streams, files | `main`, `read_file` | any call may fail, any two files may be one; output only after success |

`decode_picture` gathers the chunks of a slice and calls `decode_slice`; that
loop refills the funnels, asks the rate control for the group's QP (after
applying the flatness signalled for the group), parses the group at that QP,
hands levels and residuals to the predictor and the sizes back to the rate
control. Every call returns a status; the first that fails ends the picture.
`main` reads the options and both inputs, calls `decode_picture` or
`decode_single`, and writes the planes only when the status is good.

What makes each component correct:

- bit removal: exactly the bytes of a chunk leave the buffer per line, and the
  padding check never fires for a validated PPS;
- rate control: the QP registers stay those of the groups they are named for
  when a cycle is re-run, a group's range is that of the group before, no QP
  leaves the scale, the offset is the sum the standard writes down and never rises
  above its final value again, the scale goes down once and up once, the buffer is
  a constant-rate channel;
- slice loop: the two sets of counters agree, every signalled flat group is
  adjusted once with its own type, every failure is reported, every slice ends;
- substreams: a legal group never runs out of bits, the funnel stays within its
  array, an invalid prefix is possible only where the prefix is cut;
- predictor: every sample that a group reads was written in this slice and is of
  the line that the reader means, the sample that MPP goes on from is that of the
  pixel decoded just before, references to the left stay inside the slice,
  and the ICH history is the list of the pixels used last;
- command line: status 0 exactly when everything that the program looks at went
  well, nothing but traces touched before that, every stream closed once, the
  whole of a file read or none of it;
- picture: every chunk is read once and in transport order, every sample is
  written once from the right pixel, and a failed picture holds whole slices.

## Modules

| Module | Models | Extends |
|---|---|---|
| `Drain` | `drain_pixel`, both readings | |
| `BitRemoval` | the pixel clock over `Drain` | `Drain` |
| `DscFormat` | `format.c` | |
| `QpSelect` | `short_term`, `short_term_v12`, `increment_qp`, `bit_save_update` | `DscFormat` |
| `RateControl` | `struct dsc_rc` and its two entry points | `QpSelect`, `Drain` |
| `CbrBuffer` | what the buffer promises: an abstract constant-rate channel | |
| `Slice` | `decode_slice` and the flatness signalling | `RateControl`, instantiates `CbrBuffer` |
| `Substream` | one substream and the unit it carries | `DscFormat` |
| `Picture` | `decode_picture`, `decode_single`, `put_slice` | |
| `IchList` | the ICH history as a list: what a group and a line end make of it | |
| `IchHistory` | the history of a slice, with the use of every entry on record | `IchList`, instantiates `RecentUses` |
| `RecentUses` | what the history promises: the set of the pixels used last | |
| `Predictor` | `dsc_predict_group_units`: checks, line buffers, block prediction, history | `IchList` |
| `Options` | the questions, their readings and defaults, `find_reading`, `set_reading` | |
| `ReadFile` | `read_file` | |
| `CommandLine` | `main` | `Options` |
| `OperatorProofs` | lemmas about the operators without state | `Drain`, `IchList`, `TLAPS` |
| `BitRemovalProofs` | theorems about bit removal | `BitRemoval`, `OperatorProofs` |
| `SliceProofs` | theorems about the rate control with any caller, then about the slice loop and that it implements `CbrBuffer` | `Slice`, `OperatorProofs` |
| `PictureProofs` | theorems about picture assembly | `Picture`, `OperatorProofs` |
| `IchHistoryProofs`, `PredictorProofs` | theorems about the history and the predictor | `OperatorProofs` and the component |
| `SubstreamProofs` | theorems about a substream | `Substream`, `TLAPS` |
| `MainProofs` | theorems about `main` and `read_file` | `CommandLine`, `ReadFile`, `TLAPS` |
| `MC*` | instances for TLC | |

State and actions carry the names of the source. In `RateControl` a variable is
the field of `struct dsc_rc` of the same name; `ApplyFlatLine` is
`dsc_rc_apply_flat_line` and `StepGroup` is `dsc_rc_step_group`, each as one
action from its guards to its last assignment. A failing call only records the
reason: the code sets `failed`, every later call returns at once, and nobody
reads what the failing call had written. `drain` and `shadow` are the
accumulators of the selected reading of OQ-3 and of the other one, which the
code runs alongside. `mpp_groups` is a history variable.

In `Slice` the variable `phase` is the place in the loop body: `"flat"` before
`dsc_rc_apply_flat_line`, `"syntax"` before `syntax`, `"step"` before
`dsc_rc_step_group`, `"tail"` at the check for zeros after the loops. In native
modes `cfg.slice_width` is the container's width, as in the copy `coded` that
`decode_slice` gives to the rate control. `signalled` and `applied` are history
variables. A slice that ends before its loops (its data of the wrong length, a
configuration that `dsc_rc_init` refuses, no memory for the predictor) starts in
`"done"`. A refill that fails, a syntax error, rejected padding and a refused
prediction may happen at any group, since they depend on nothing kept here.

`Substream` follows one substream with an arbitrary QP in each group. A bit is
not kept: the funnel shifter is a count, and a residual is the number of bits it
needs. The units of a group meet only in the ICH mode, which the luma unit
selects: a chroma unit of the model is told of it nondeterministically.

In `Picture` a sample is its origin (slice, pixel, unit), and `out` is the set
of writes, so that a place written twice from two origins is visible.

In `Predictor` a line buffer holds, for each pixel, the line that was last
written there, or that nothing was written in this slice, and `reads` holds what
the last group read: the pixel that lies there, with its line, and the one that
the reader wants. `last` is the pixel whose samples `p->last` keeps: the group
before ended with it, on this line or on the line before, and MPP takes the low
bits of its prediction from there. At the start of a line it is therefore a pixel
of the line before, for the chroma of native 4:2:0 one of the other chroma type,
and the first group of a slice finds the zeros of the allocation. The code agrees
with `research/prediction-ambiguities.md:10` in this; `RESEARCH.md:70` (OQ-4)
speaks of the previous group alone. Which vector the search finds and whether there is an edge depend
on sample values and are nondeterministic, within what the code lets them be;
everything that decides whether they are looked at is kept (the count of groups,
the position, the first line, native 4:2:0). The history is a list of origins.
`IchHistory` keeps the same list with the last use of each entry and the origins
of the three pixels of the last group (`group`, a history variable), and
`RecentUses` is the abstract specification: a set of pixels with their last
uses, which all three pixels of every group enter, and of which those used
longest ago are forgotten. `ImplementsRecentUses` is the refinement.

In `Options` a reading is the lower-case end of its enumerator, and `Spelled`
lists the names that the command line writes otherwise. The instances of the
rate control, the slice and the substreams take their readings from there.

In `ReadFile` the stream, the allocation and the bytes are counted; `error` is
`ferror`, `fault` is a history variable, and `pass` makes a pass of the loop a
step even when it changes nothing, so that an endless loop is a behaviour that
does not end. In `CommandLine` arguments are strings, as they are in the code; a
file is known by its content's kind, and `streams` keeps every stream that was
opened, so that a stream that nobody names any more is visible. A library call
either works or fails, by choice; `failed` records the failures that the program
looks at. `read_file` is taken as what `ReadsWhole` shows of it. A trace buffers
its rows: they reach the file when it is closed, over whatever is there then.

Data left out everywhere: statistics counters, printed text, and the values of
samples, with what is computed from them: the predictions themselves (MPP's from
the midpoint and the kept sample included), the outcome of the search for a vector
and of the edge test, and the rounding of a stored line to `line_buf_depth`.

## Runs

| Run | Checks | Instance |
|---|---|---|
| `bit_removal` | `PaddingPossible`, `ExactChunks`, `ReadingsAgree` | slice widths 1 to 7, rates with every kind of fraction up to the largest, delays from none to past a line |
| `rate_control` | `QpCoherent`, `QueuedQpReproducible`, `DeadFailures`, `RangesLag`, `MppCountedOnce` | four groups, two or three pixels each, any flatness before each; DSC 1.1 RGB, DSC 1.2 YCbCr, native 4:2:0; three sets of readings |
| `slice` | `CountersAgree`, `FailureReported`, `FlatAppliedOnce`, `SupergroupFlag`, `OffsetLedger`, `OneWay`, `ImplementsCbrBuffer` | five lines of a full and a partial group: ten groups; reports of three sizes: less than, about and twice what the channel takes; QPs below, inside and above the flatness window; four pairs of configuration and readings |
| `slice_ends` | `SliceEnds` | six lines of one partial group |
| `substream` | `NeverStarves`, `ElementFits`, `FunnelFits`, `SizeWithinCoded`, `PrefixNeverInvalid` | RGB and YCbCr of DSC 1.1, 16 bpc RGB, native 4:2:2; unbounded streams |
| `picture` | `ChunksOnce`, `OutputIsPrefix`, `PictureEnds` | all five formats, slices that do not divide the picture |
| `ich_history` | `HistoryTypeOK`, `MostRecentFirst`, `ImplementsRecentUses` | histories shorter than the code's, of two capacities; all indices, also repeated and invalid ones; slices with several lines and with several slices to a line |
| `predictor` | `PredictorTypeOK`, `ReadsAreDecoded`, `ReferenceInside`, `WindowInside`, `HistoryBounded` | every format, widths below, at and above the window and the first use of block prediction, slices of four lines |
| `read_file` | `ReadsWhole`, `ReadEnds` | limits of 0, below the first buffer, met by doubling it and passed by doubling it; files of 0 to 14 bytes |
| `command_line` | `HonestExit`, `StreamsClosedOnce`, `LastReadingWins` | 21 commands, seven kinds of PPS, five of payload, with and without an old output; deadlock is checked |
| `prefix15` | violation of `ElementFits` | 16 bpc with `prefix16=15` |
| `levels` | violation of `EveryLevelDecodes` | DSC 1.1 YCbCr at 8 bpc; 16 bpc RGB with `chroma_qlevel=table` |

Why the bounds are enough. `MaxGroups` and the slice sizes bound the only
unbounded counters. Four groups in `rate_control` pass the whole QP pipeline
(the QP chosen after group n decodes group n + 2) with a re-run at every place
of it, and reach two MPP groups, which the bit-save mode needs. Ten groups in
`slice` are the shortest run in which a flag is read, its supergroup decoded and
the next flag read before the last position of the first; five lines take the
scale through its three phases, end the initial delay inside a partial group,
and reach the second line's terms of native 4:2:0. The rate buffer of these
instances is small: there are slices that overflow it, slices that empty it and
slices that end well, and one configuration starts the scale at 9 so that it
turns and rises within the slice. In `substream` there is
no bound at all: counts and widths are finite because the funnel is.
`MaxScale` and `MaxOffset` are the bounds of `rate_control.c:557`; `MaxOffset` is 10^9
in the runs, for TLC's integers, and is never reached either way.

In `predictor` the window is the code's seven pixels, the history is shortened
to 14 entries, and the widths reach past hPos 9, from where block prediction is counted, by enough
groups to use it. In `read_file` two doublings lie between the first buffer and
the largest limit, and files end before, at and after each of them. In
`command_line` the loop over the arguments sees every option first, later and
last, and two traces, which is when a stream may be lost.

Deadlock is not checked because slices, pictures, rejected streams and
`read_file` do end; `CommandLine` ends in a step of its own and checks it.

Fairness. `FairSpec` of `Slice`, `Spec` of `Picture` and `ReadSpec` assume weak fairness of
the next-state relation: the decoder is one thread that does not block, so it
takes its next step as long as there is one. The safety runs assume none.

The two violations are disagreements of the code with its documents. In
`levels`, a QP that the range table may choose gives chroma a level equal to its
depth; `predict.c:363` refuses the group, so a DSC 1.1 YCbCr stream at 8 bpc
whose QP reaches 13 ends with a bitstream error, although README.md:23 lists the
format as decoded, and 16 bpc RGB with `chroma_qlevel=table` does so at QP 30 and
31, where RESEARCH.md:86 describes a zero-bit residual. In `prefix15`, the
comment at `format.c:126` that the limited prefix keeps elements within the mux
word does not hold of the reading with 15 prefix bits (65 bits against 64).

## Proofs

Every theorem holds for all values of the constants that satisfy the named
assumptions of the modules; TLC evaluates those on every run.

| Theorem | States | Argument |
|---|---|---|
| `ChunksAreExact` | `Spec => []ExactChunks` of `BitRemoval` | `ChunkInv` |
| `PaddingAlwaysPossible` | `Spec => []PaddingPossible` | `ChunkInv`, `LiteralInv` |
| `ReadingsDifferByABit` | `Spec => []ReadingsAgree` | `AgreeInv` |
| `RcTypeCorrect` | `RcSpec => []TypeOK` of `RateControl` | `RcInv` |
| `FailuresAreDead` | `RcSpec => []DeadFailures` | `RcInv` |
| `PipelineCoherent`, `RerunsReproduce` | `RcSpec => []QpCoherent`, `[]QueuedQpReproducible` | `SafeInv` |
| `MppGroupsCountedOnce` | `RcSpec => []MppCountedOnce` | `SafeInv` |
| `LagIsOneGroup`, `TurnsOnce` | `RcSpec => RangesLag`, `OneWay` | `SafeInv` |
| `SliceTypeCorrect`, `CountersNeverDisagree`, `EveryFailureReported` | `Spec => []SliceTypeOK`, `[]CountersAgree`, `[]FailureReported` of `Slice` | `LoopInv` with `RcInv` |
| `FlatGroupsAdjusted`, `SupergroupFlagRight` | `Spec => []FlatAppliedOnce`, `[]SupergroupFlag` | `FlatInv` |
| `SliceTurnsOnce`, `PromisesKept` | `Spec => OneWay`, `[](TypeOK /\ QpCoherent /\ QueuedQpReproducible /\ DeadFailures)` | `SafeInv` under this caller |
| `OffsetIsItsTerms` | `Spec => []OffsetLedger` | `LedgerInv` and `PlaceInv` with `SliceInv` |
| `BufferIsChannel` | `Spec => ImplementsCbrBuffer`, if OQ-3 is read by chunks | `ChannelInv` |
| `HistoryTypeCorrect`, `OrderedByLastUse` | `Spec => []HistoryTypeOK`, `[]MostRecentFirst` of `IchHistory` | its `Ordered`, and that no origin is later than the last use |
| `KeepsTheLastUses` | `Spec => ImplementsRecentUses` of `IchHistory` | the same, with `LatestAreFirst` |
| `PredictorTypeCorrect`, `OnlyDecodedReads`, `ReferenceCheckIsDead`, `HistoryStaysBounded`, `WindowStaysInside` | `Spec => []PredictorTypeOK`, `[]ReadsAreDecoded`, `[]ReferenceInside`, `[]HistoryBounded`, `[]WindowInside` of `Predictor` | `PredictorInv` |
| `SubstreamTypeCorrect`, `FunnelNeverOverflows`, `SizesNeverExceed`, `OnlyCutPrefixRefused` | `Spec => []TypeOK`, `[]FunnelFits`, `[]SizeWithinCoded`, `[]PrefixNeverInvalid` of `Substream` | `SubstreamInv` |
| `LongestElement` | `Spec /\ WordKept => []ElementFits` | `SubstreamInv`, `ResidualsFit` |
| `OneWordSuffices` | `Spec /\ WordRead => []NeverStarves` | `SubstreamInv`, `ResidualsFit` |
| `EveryChunkOnce`, `PlanesHoldThePrefix` | `Spec => []ChunksOnce`, `[]OutputIsPrefix` of `Picture` | `PictureInv`, then `OutputInv` with it |
| `HonestStatus`, `StreamsClosed`, `LastReadingCounts` | `Spec => []HonestExit`, `[]StreamsClosedOnce`, `[]LastReadingWins` of `CommandLine` | `CommandInv` |
| `ReadsAllOrNothing`, `BufferWithinLimit` | `ReadSpec => []ReadsWhole`, `[]ReadTypeOK` of `ReadFile` | `ReadInv` |
| `PictureLoopsEnd`, `SliceLoopsEnd`, `ReadLoopEnds` | a natural number falls with every step of `Picture`, of `Slice` and of `ReadFile` | `PictureInv`, `SliceInv`, `ReadInv`, and that a buffer that can grow is not empty |

Assumptions. `ConfigsAssumption` says of a parameter set what `validate` and
`dsc_rc_init` check before a slice starts (`ValidFormat`, `ValidChunk`,
`RcAccepts`). `ReadingsAssumption` needs only that OQ-3 is read in one of its two
ways: no theorem depends on how any other question is answered.
`ReportsAssumption` bounds a group to 512 bits, as the check of
`rate_control.c:436` does, and its MPP units to four. `BoundsAssumption` gives
the bounds of the runs their types; they limit no theorem, as they may be any
numbers. The caller of the rate control is arbitrary: any flatness at any time,
any sizes. `SpellingsDiffer` and `WordsAssumption` concern no constant: they say
that no two settings have one spelling and that no option is spelled as a
setting. The provers do not calculate with the characters of strings, TLC does.
`FilesAssumption` lets every word of a command be the name of a file.
`PicturesAssumption` says of a picture that its sizes are positive and even where
the format halves the chroma, as `validate` checks. `SizesAssumption` asks for a first
buffer of at least a byte. The constants of `IchList` come with `OperatorProofs`;
where only its arithmetic is used, nothing depends on them.

Bit removal. `PaddingPossible` is not inductive: whether the last pixel of a
chunk leaves padding within its bound depends on the bits of all its pixels. In
the chunk reading `ChunkInv` says that an open chunk of k pixels has counted the
whole bits of k times the rate and kept the sixteenths that are missing
(`ChunkOpen`); at the chunk's end what is left to the byte boundary follows from
the chunk size alone, since `ValidChunk` fixes it. In the literal reading the
fraction is dropped at the first pixel of a chunk and carried over its end, so
that the account holds only up to the fraction carried in and the one dropped:
`LiteralOpen` allows up to 30 sixteenths to be missing and ties the pixel
number to the place in the chunk, because the code recomputes that place by a
remainder. This is why the bound of that reading is 9 bits where the other has 8
(`rate_control.c:335`). `AgreeInv` says that both readings count the same chunks
and the same pixels of the open one, so that they differ by the bits of the open
chunk only; the two accounts of it are within 30 sixteenths of each other.

Rate control, types. A step draws the next QP from the limits of a range, an
override from the inputs kept from the last step: `TypeOK` alone does not say
that these stay on the scale, `RcInv` adds it. It also carries the open-chunk
invariants of both accumulators, of the selected reading and of the shadow, so
that no step can fail for padding. `StepCases` and `FlatCases` then say that a
call either fails for one of the live reasons or has the effect of `StepTaken`
or `FlatAdjusted`; everything after them uses only these. The first part of `SliceProofs` shows
that each branch of the QP selection stays on the scale: the increment of DSC 1.1
is capped by the range's maximum and never negative because it is only taken
over the target, and bit-save's raised maximum is cut at the top QP.

Rate control, promises. `QpCoherent` is inductive and gives
`QueuedQpReproducible` its step: what the step passes to the short-term control
as previous QPs are the QPs that the next two groups really have. For the
bit-save mode, `RerunInv` relates the state kept before the last step with the
MPP groups counted since: that step's group has been counted, so the mode
computed again from there cannot exceed the count. `BitSaveFollowsMpp` says which
mode goes with two MPP groups. `ScaleInv` says that a turn is never requested after
one has happened; otherwise a turn could bring a risen scale back to 9. `LagInv`
says that the register of the range lag holds the range of the model as the last
step left it: a re-run changes the kept inputs, but not their model, nor the
scale. `LatchInv` keeps a latched offset at or below its final value.

Slice loop. Its steps call the rate control with arguments of their own, so
`SliceProofs` first states what a call keeps (`CallKeepsInv`, `CallKeepsSafe`)
apart from who makes it, and the promises carry over to this caller.
`LoopInv` adds the place in the slice as the two sides count it, pixels as
`y * slice_width + x`; the nonlinear part is in `Position` and `Quotient`. It is
inductive only together with `RcInv`: that a step does not fail for its
arguments follows from the counts, and that the counts stay equal follows from
the step being accepted. `FlatInv` says that at most one signalled group waits
to be adjusted and that the position and the type kept are its own. The
property alone does not say why a new position never overwrites one that still
waits: it is read at the last group of the supergroup before its own, after that
group has been adjusted (`Adjusted`), and no earlier signal reaches further.

Offset. The code adds what a group changes, the property sums over all groups so
far. `Ledger` separates the sum into the terms of the lines, of the second line
and of the delay, each with a lemma for one group more. `PlaceInv` says that a
line has `GroupsPerLine` groups, so that the group counts of the sum and the line
numbers of the code change together. With the delay counted to the group's end,
a line's last group may count pixels of the next line; that no pixel is counted
twice then needs `delay_group_end <= pixels + 2`. An offset that has not latched is
at or above its final value after every group, so that the latch is never late;
that it holds from then on is `OneWay`.

Channel. The accumulators keep bits of the open chunk and a fraction; the
channel has a closed form of the pixel clock. `ChunksCounted` is the ledger between
them: n chunks are gone in full, and the pixel times since the initial delay are
n lines and the pixels of the open chunk. `CountedSchedule` solves it for the
bits removed. The theorem assumes the reading of OQ-3 by chunks, the default: in
the literal reading bits do get lost at chunk ends.

ICH history. `NthProperties` relates a place of the new history to the place of
the old one that moved there: the entries that stay are numbered by how many
stay up to them (`Rank`), so that the new history is the group's pixels followed
by a part of the old one in its old order. Order then is a matter of three kinds
of pairs, two pixels of the group, two that stayed, and one of each.
`MostRecentFirst` alone is not inductive: a group's pixels come before the others
only because no entry was used after the last group, and no pixel is in it twice
only because a pixel that the group names does not stay.

The refinement of `RecentUses` reads the list as the set of its entries. An entry
of an ordered list has as many entries used after it as precede it
(`LaterOnes`), so the `n` used last are the first `n` (`LatestAreFirst`): cutting
the list to what a group can name is forgetting those used longest ago.
`ListIsLastUses` says that the shift register before it is cut holds each origin
at its last use, of the old history and of the group together: a pixel of the
group that is dropped for a repeated index has a later use with the same origin in
the group (`FrontHolds`, `SameLastUses`), so nothing that the specification asks
for is lost. The last group of
a line enters nothing and forgets everything, or what the next line cannot name.

Predictor. `ReadsAreDecoded` needs to know what lies in the buffers at every place
of a slice. `BuffersInStep` says it: left of the position the current buffer
holds this line, the other two hold the one or two lines above as far as the
slice has them, whatever the slice's height. `LastInStep` says of the sample kept
for MPP that it is of the pixel just before, across partial groups and line ends.
`CountFromNine` says that a count of
block prediction is only possible a group for each three pixels from hPos 9 on;
with the least vector this keeps every reference inside the slice. The assumption
`WindowAssumption` says that seven indices name the line above, as in the code.

Substreams. The arithmetic is in what a unit can code: `CodingParts` bounds the
full width, the predicted one and the prefix for every QP, `WidthParts` says that
each zero of a prefix is paid for by a bit of width, and `ResidualsFit` adds them
up. For chroma the bound is reached. For luma one bit stays free: at level 0 a
prefix from a predicted size of 0, three residuals of the full width and two
flatness bits take `4 * bpc + 3` bits, and the third flatness bit, which the
comment of `format.c` counts, needs a QP whose level is at least 2. `SubstreamInv` adds to the types that the funnel holds less than a
threshold and a mux word, which refilling at the threshold keeps. At 16 bpc the
threshold of 64 bits is not the formula's: `WordKept` names the readings that it
needs, 13 bits for a cut prefix (OQ-21) and the cut at all QPs of luma level 0
and 1 (OQ-35). They are the defaults, and both are necessary: with 15 bits an
element has 65 (run `prefix15`), with the cut at QP 0 only it has 67. The
threshold of 68 (`mux16=68`) does hold every element, but the word that refills
has 64 bits, so a funnel that was empty may starve: `OneWordSuffices` therefore
assumes `WordRead`, the threshold of 64 with those readings. Below 16 bpc
neither assumes anything.

Picture. `ChunksOnce` counts chunks; `ChunksInv` says which they are. `ReadSoFar`
gives, from the loop counters alone, the picture lines and columns whose chunks
have been gathered: all columns of the rows of slices before, in this row all
lines of the columns before, and the lines of this slice so far. A chunk has one
line and one column (`OneChunk`), so a line more is one chunk more
(`OneLineMore`), and the ends of a slice and of a row change the counters, not
the set (`OneSliceMore`). `OutputIsPrefix` compares two directions: the code goes
from a pixel of the coded slice to places in the planes, the property from a
place to its origin. `WritesOfSlice` says that they meet: for each sampling
(`FullWrites`, `SimpleWrites`, `NativeSamples`) the samples written for a slice
are those whose origin is in it. It needs the even slice width of the formats
with half as much chroma, so that a slice starts on a chroma sample, and
`OriginInside` the even slice height of native 4:2:0: with an odd picture height
the last chroma line belongs to a line below the picture, which is still in a
slice. Putting the slices in order then adds one number to those done.

Command line. `CommandInv` says what `main` has in each phase: the exit status is
1 until the output is closed, and 0 from there on only with the picture in the
file (`StatusInv`); the open streams are those of the two pointers
(`StreamsInv`), and the trace is one of the files named as such; `opt` holds the
last setting of each question among the words read so far (`OptionsInv`). The
properties speak of the end, of the call of the decoder, and of all streams ever
opened. `StreamsInv` makes them inductive: a second `--trace` leaves no stream
behind because the pointer that it overwrites has been closed. In `OptionsInv` a
word after `--reading` adds a place to one question only, since a spelling
belongs to one (`OneSetting`), and a word after `--trace` adds none, even if it
is the spelling of a setting.

`read_file`. `ReadsWhole` speaks of the end only; `ReadInv` adds what each call
finds: as long as the file is read, every byte that the stream gave is in the
buffer, and the error indicator still shows every failure that was not returned
at once. That is why the one look at `ferror` at the end is enough.

The end. `StepsLeft`, `SliceStepsLeft` and `ReadsLeft` count the steps that
remain at most; the theorems say that they are natural numbers and fall with
every step. No behaviour therefore goes on for ever, whatever the sizes; it
ends where no step is enabled. That this is at the end and not before, the
other half of `SliceEnds`, `PictureEnds` and `ReadEnds`, is about `ENABLED`,
which the provers do not handle.

Only model-checked: these three liveness properties, which stay with TLC. No module declares a recursive operator.

## Not modelled

- The PPS parser converts 128 bytes without state; a model would repeat it field
  by field. `check_planes`, `rgb888_sink` and the entry points of the public API
  check pointers and capacities once.
- Validation is present as the assumptions on configurations; the order in which
  `validate` reports several defects of one PPS is not.
- `SliceStreams`, all funnels of a slice together with the order of the mux words
  in the chunk data, is the largest part still missing; `Substream` follows one
  funnel, and a refill that finds no data is a nondeterministic end of `Slice`.
- Sample arithmetic: prediction values, the search for a vector, the conversion
  to RGB and the layout of the output files.
- Tests, fuzzers and research tools.

What comes next: `SliceStreams`, the substreams of a slice with their mux words,
composed with `Slice`.
