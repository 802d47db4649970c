---------------------------- MODULE SliceProofs ----------------------------
(***************************************************************************)
(* The rate control with an arbitrary caller, and then the slice loop that *)
(* calls it, for every set of accepted configurations, readings and group  *)
(* reports: the rate control keeps its promises under both; the loop's     *)
(* counters and the rate control's agree, every failure is reported,       *)
(* flatness reaches the groups it is signalled for, the offset is the sum  *)
(* of its terms, and the accumulators implement the constant-rate channel. *)
(***************************************************************************)
EXTENDS Slice, OperatorProofs

(***************************************************************************)
(* What the short-term rate control and the bit-save mode return, for      *)
(* every configuration, input and reading.                                 *)
(***************************************************************************)

LEMMA ClampRange ==
    ASSUME NEW top \in Nat, NEW v \in Int, NEW lo \in 0..top, NEW hi \in 0..top
    PROVE  Clamp(v, lo, hi) \in 0..top
BY DEF Clamp

(* What an evaluation of the short-term rate control needs of its           *)
(* configuration and inputs. The second conjunct of the last line is what   *)
(* keeps the bit-save mode's raised maximum on the scale.                   *)
QpInputs(c, in) ==
    /\ MaxQp(c) \in Nat
    /\ TopRangeQp(c) \in 0..MaxQp(c)
    /\ c.rc_tgt_offset_high \in Nat /\ c.rc_tgt_offset_low \in Nat
    /\ in.actual \in Nat /\ in.ideal \in Nat /\ in.target \in Int
    /\ in.min_qp \in 0..MaxQp(c) /\ in.max_qp \in 0..MaxQp(c)
    /\ in.top_qp \in 0..MaxQp(c)

(* The increment stays on the scale, as long as the group exceeds its       *)
(* target: OverTarget is what makes the difference positive.                *)
LEMMA IncrementRange ==
    ASSUME NEW c, NEW o, NEW in, QpInputs(c, in), OverTarget(c, in),
           NEW prev \in 0..MaxQp(c), NEW prev2
    PROVE  IncrementQp(c, o, in, prev, prev2) \in 0..MaxQp(c)
<1> DEFINE cur == UMax(in.min_qp, prev)
           up == UMin(cur + (in.actual - in.target) \div 2, in.max_qp)
<1>1. /\ MaxQp(c) \in Nat /\ in.min_qp \in 0..MaxQp(c) /\ in.max_qp \in 0..MaxQp(c)
      /\ in.actual \in Nat /\ in.target \in Int /\ c.rc_tgt_offset_high \in Nat
      /\ in.actual > in.target + c.rc_tgt_offset_high
  BY DEF QpInputs, OverTarget
<1>2. cur \in 0..MaxQp(c)
  BY <1>1 DEF UMax
<1>3. (in.actual - in.target) \div 2 \in Nat
  BY <1>1
<1>4. up \in 0..MaxQp(c)
  <2> HIDE DEF cur
  <2> QED BY <1>1, <1>2, <1>3 DEF UMin
<1>5. IncrementQp(c, o, in, prev, prev2) \in {cur, up}
  BY Zenon DEF IncrementQp
<1> QED BY <1>2, <1>4, <1>5

LEMMA ShortTermV11Range ==
    ASSUME NEW c, NEW o, NEW in, QpInputs(c, in), NEW prev \in 0..MaxQp(c), NEW prev2
    PROVE  ShortTermV11(c, o, in, prev, prev2) \in 0..MaxQp(c)
<1> DEFINE down == UMax(prev - 1, 0)
           inc == IncrementQp(c, o, in, prev, prev2)
<1>1. /\ MaxQp(c) \in Nat /\ in.min_qp \in 0..MaxQp(c) /\ TopRangeQp(c) \in 0..MaxQp(c)
  BY DEF QpInputs
<1>2. UMax(down, in.min_qp \div 2) \in 0..MaxQp(c) /\ UMax(down, in.min_qp) \in 0..MaxQp(c)
  BY <1>1 DEF UMax
<1>3. OverTarget(c, in) => inc \in 0..MaxQp(c)
  BY IncrementRange
<1> HIDE DEF inc
<1>4. ShortTermV11(c, o, in, prev, prev2) \in
        {TopRangeQp(c), UMax(down, in.min_qp \div 2), UMax(down, in.min_qp), prev}
        \cup (IF OverTarget(c, in) THEN {inc} ELSE {})
  BY Zenon DEF ShortTermV11, inc
<1> QED BY <1>1, <1>2, <1>3, <1>4

LEMMA ShortTermV12Range ==
    ASSUME NEW c, NEW o, NEW in, QpInputs(c, in), NEW prev \in 0..MaxQp(c), NEW prev2
    PROVE  ShortTermV12(c, o, in, prev, prev2) \in 0..MaxQp(c)
<1> DEFINE min == in.min_qp
           max == in.max_qp
           top == MaxQp(c)
           trq == TopRangeQp(c)
           raised == UMin(max + 1, in.top_qp)
           from == IF o.low_min = "min_qp" THEN min ELSE max
           up == IF o.bitsave_step = "2" THEN 2 ELSE 1
           low == UMax(from - 4, 0)
           inc == IncrementQp(c, o, in, prev, prev2)
<1>1. /\ top \in Nat /\ min \in 0..top /\ max \in 0..top /\ trq \in 0..top
      /\ in.top_qp \in 0..top
  BY DEF QpInputs
<1>2. raised \in 0..top /\ low \in 0..top /\ up \in Int
  BY <1>1 DEF UMin, UMax
<1>3. prev \in Int /\ prev - 1 \in Int /\ prev + up \in Int /\ min \in Int
  BY <1>1, <1>2
<1>4. OverTarget(c, in) => Clamp(inc, min, max) \in 0..top
  <2> SUFFICES ASSUME OverTarget(c, in) PROVE Clamp(inc, min, max) \in 0..top
    OBVIOUS
  <2>1. inc \in Int
    BY <1>1, IncrementRange
  <2> HIDE DEF inc, top, min, max
  <2> QED BY <1>1, <2>1, ClampRange
<1>5. ShortTermV12(c, o, in, prev, prev2) \in
        {Clamp(trq, min, trq), Clamp(min, min, max), Clamp(prev + up, min, raised),
         Clamp(prev, min, raised), Clamp(prev - 1, low, max), Clamp(prev - 1, min, max),
         Clamp(prev, min, max)}
        \cup (IF OverTarget(c, in) THEN {Clamp(inc, min, max)} ELSE {})
  BY Zenon DEF ShortTermV12
<1> HIDE DEF min, max, top, trq, raised, low, up, inc
<1>6. /\ Clamp(trq, min, trq) \in 0..top /\ Clamp(min, min, max) \in 0..top
      /\ Clamp(prev + up, min, raised) \in 0..top /\ Clamp(prev, min, raised) \in 0..top
      /\ Clamp(prev - 1, low, max) \in 0..top /\ Clamp(prev - 1, min, max) \in 0..top
      /\ Clamp(prev, min, max) \in 0..top
  BY <1>1, <1>2, <1>3 DEF Clamp
<1>7. ShortTermV12(c, o, in, prev, prev2) \in 0..top
  BY <1>4, <1>5, <1>6
<1> QED BY <1>7 DEF top

(* Whatever the branch taken, the QP of the next group stays on the scale.  *)
LEMMA ShortTermRange ==
    ASSUME NEW c, NEW o, NEW in, QpInputs(c, in), NEW prev \in 0..MaxQp(c), NEW prev2
    PROVE  ShortTerm(c, o, in, prev, prev2) \in 0..MaxQp(c)
BY ShortTermV11Range, ShortTermV12Range, Zenon DEF ShortTerm

-----------------------------------------------------------------------------

(* bitSaveMode and mppState.                                                *)
Modes == [bit_save : 0..2, mpp_state : 0..2]

(* The mode after a group: mode 2 and two MPP groups still go together, and *)
(* the group adds at most one to the MPP groups counted, only if it is one. *)
LEMMA BitSaveUpdateResult ==
    ASSUME NEW c, NEW o, NEW l, NEW g, NEW m \in Modes, NEW prev, NEW prev2,
           NEW r, r = BitSaveUpdate(c, o, l, g, m, prev, prev2)
    PROVE  /\ r \in Modes
           /\ (m.bit_save = 2 <=> m.mpp_state = 2) => (r.bit_save = 2 <=> r.mpp_state = 2)
           /\ l = 0 \/ g.flat => r.mpp_state = 0
           /\ r.mpp_state <= m.mpp_state + (IF g.mpp >= 3 THEN 1 ELSE 0)
<1> DEFINE mpp == UMin(m.mpp_state + 1, 2)
           reset == [bit_save |-> 0, mpp_state |-> 0]
           counted == [bit_save |-> IF mpp = 2 THEN 2 ELSE m.bit_save, mpp_state |-> mpp]
           raised == [m EXCEPT !.bit_save = UMax(1, @)]
<1>1. \/ r = reset
      \/ ~(l = 0 \/ g.flat) /\ g.mpp >= 3 /\ r = counted
      \/ ~(l = 0 \/ g.flat) /\ r = m
      \/ ~(l = 0 \/ g.flat) /\ r = raised
  BY Zenon DEF BitSaveUpdate
<1>2. m.bit_save \in 0..2 /\ m.mpp_state \in 0..2
  BY DEF Modes
<1>3. CASE r = reset
  BY <1>2, <1>3 DEF Modes
<1>4. CASE ~(l = 0 \/ g.flat) /\ g.mpp >= 3 /\ r = counted
  BY <1>2, <1>4 DEF Modes, UMin
<1>5. CASE ~(l = 0 \/ g.flat) /\ r = m
  BY <1>2, <1>5
<1>6. CASE ~(l = 0 \/ g.flat) /\ r = raised
  BY <1>2, <1>6 DEF Modes, UMax
<1> QED BY <1>1, <1>3, <1>4, <1>5, <1>6

-----------------------------------------------------------------------------
(***************************************************************************)
(* The steps of the rate control.                                          *)
(***************************************************************************)

(* The accumulators of reading r after a pixel of the slice.                *)
OpenAt(c, pixel, r, d) ==
    IF r = CHUNK THEN ChunkOpen(c, d) ELSE LiteralOpen(c, pixel, d)

LEMMA OpenRecord ==
    ASSUME NEW c, NEW pixel, NEW r, NEW d, OpenAt(c, pixel, r, d)
    PROVE  d \in DrainRecord /\ d.failed = FALSE
BY DEF OpenAt, ChunkOpen, LiteralOpen

LEMMA OpenStart ==
    ASSUME NEW c, ValidChunk(c), NEW r
    PROVE  OpenAt(c, 0, r, DrainStart)
BY DrainStartChunk, DrainStartLiteral, Zenon DEF OpenAt

LEMMA DrainPixelOpen ==
    ASSUME NEW c, ValidChunk(c), NEW pixel \in Nat, NEW r \in FracReadings,
           NEW d, OpenAt(c, pixel, r, d)
    PROVE  OpenAt(c, pixel + 1, r, DrainPixel(c, pixel + 1, r, d))
<1> DEFINE e == DrainPixel(c, pixel + 1, r, d)
<1>1. CASE r = CHUNK
  <2>1. ChunkOpen(c, d) /\ pixel + 1 \in Nat /\ e = DrainPixel(c, pixel + 1, CHUNK, d)
    BY <1>1 DEF OpenAt
  <2> HIDE DEF e
  <2>2. ChunkOpen(c, e)
    BY <2>1, DrainPixelChunk
  <2> QED BY <1>1, <2>2, Zenon DEF OpenAt, e
<1>2. CASE r # CHUNK
  <2>1. r = LITERAL
    BY <1>2 DEF FracReadings
  <2>2. LiteralOpen(c, pixel, d) /\ e = DrainPixel(c, pixel + 1, LITERAL, d)
    BY <1>2, <2>1, Zenon DEF OpenAt
  <2> HIDE DEF e
  <2>3. LiteralOpen(c, pixel + 1, e)
    BY <2>2, DrainPixelLiteral
  <2> QED BY <1>2, <2>3, Zenon DEF OpenAt, e
<1> QED BY <1>1, <1>2

(* The pixels of a group keep the chunk open: its padding is possible.      *)
LEMMA DrainGroupOpen ==
    ASSUME ValidChunk(cfg), pixels \in Nat, NEW n \in 1..3, NEW r \in FracReadings,
           NEW d, OpenAt(cfg, pixels, r, d)
    PROVE  OpenAt(cfg, pixels + n, r, DrainGroup(n, r, d))
<1> DEFINE one   == DrainPixel(cfg, pixels + 1, r, d)
           two   == DrainPixel(cfg, pixels + 2, r, one)
           three == DrainPixel(cfg, pixels + 3, r, two)
<1> HIDE DEF one, two, three
<1>1. /\ pixels + 1 \in Nat /\ pixels + 2 \in Nat
      /\ pixels + 1 + 1 = pixels + 2 /\ pixels + 2 + 1 = pixels + 3
  OBVIOUS
<1>2. OpenAt(cfg, pixels + 1, r, one)
  BY DrainPixelOpen DEF one
<1>3. OpenAt(cfg, pixels + 2, r, two)
  <2>1. OpenAt(cfg, pixels + 1 + 1, r, DrainPixel(cfg, pixels + 1 + 1, r, one))
    BY <1>1, <1>2, DrainPixelOpen
  <2> QED BY <1>1, <2>1, Zenon DEF two
<1>4. OpenAt(cfg, pixels + 3, r, three)
  <2>1. OpenAt(cfg, pixels + 2 + 1, r, DrainPixel(cfg, pixels + 2 + 1, r, two))
    BY <1>1, <1>3, DrainPixelOpen
  <2> QED BY <1>1, <2>1, Zenon DEF three
<1>5. n \in {1, 2, 3}
  OBVIOUS
<1>6. DrainGroup(n, r, d) = IF n < 2 THEN one ELSE IF n < 3 THEN two ELSE three
  BY <1>5 DEF DrainGroup, one, two, three
<1> QED BY <1>2, <1>3, <1>4, <1>5, <1>6

-----------------------------------------------------------------------------
(* The parts of a step.                                                     *)

LEMMA QpScale ==
    ASSUME NEW c, RcAccepts(c)
    PROVE  /\ MaxQp(c) \in Nat
           /\ VeryFlatQp(c) \in 0..MaxQp(c)
           /\ 2 * c.bits_per_component - 1 = MaxQp(c)
           /\ TopRangeQp(c) \in 0..MaxQp(c)
           /\ \A r \in 0..14 : c.range_min_qp[r] \in 0..MaxQp(c) /\ c.range_max_qp[r] \in 0..MaxQp(c)
<1>1. c.bits_per_component \in {8, 10, 12, 14, 16}
  BY DEF RcAccepts, ValidFormat
<1>2. /\ MaxQp(c) \in Nat /\ VeryFlatQp(c) \in 0..MaxQp(c)
      /\ 2 * c.bits_per_component - 1 = MaxQp(c)
  BY <1>1 DEF MaxQp, VeryFlatQp
<1>3. \A r \in 0..14 : /\ c.range_min_qp[r] \in Nat /\ c.range_max_qp[r] \in Nat
                        /\ c.range_min_qp[r] <= c.range_max_qp[r]
                        /\ c.range_max_qp[r] <= MaxQp(c)
  BY DEF RcAccepts
<1>4. \A r \in 0..14 : c.range_min_qp[r] \in 0..MaxQp(c) /\ c.range_max_qp[r] \in 0..MaxQp(c)
  BY <1>2, <1>3
<1>5. TopRangeQp(c) \in 0..MaxQp(c)
  BY <1>4 DEF TopRangeQp
<1> QED BY <1>2, <1>4, <1>5

LEMMA ConfigTypes ==
    ASSUME NEW c, RcAccepts(c)
    PROVE  /\ c.slice_width \in Nat \ {0} /\ c.bits_per_pixel \in Int
           /\ c.initial_xmit_delay \in Nat
           /\ c.slice_bpg_offset \in Int /\ c.nfl_bpg_offset \in Int /\ c.nsl_bpg_offset \in Int
           /\ c.first_line_bpg_offset \in Int /\ c.second_line_bpg_offset \in Int
           /\ c.second_line_offset_adj \in Int
           /\ c.final_offset \in Int /\ c.initial_offset \in Int /\ c.rc_model_size \in Int
           /\ \A r \in 0..14 : c.range_bpg_offset[r] \in Int
<1>1. c.slice_width \in Nat \ {0} /\ c.bits_per_pixel \in Int /\ c.initial_xmit_delay \in Nat
  <2>1. ValidChunk(c)
    BY DEF RcAccepts
  <2>2. c.slice_width \in Nat \ {0} /\ c.bits_per_pixel \in 1..1023 /\ c.initial_xmit_delay \in Nat
    BY <2>1, Zenon DEF ValidChunk
  <2> QED BY <2>2, SMTT(30)
<1>2. /\ c.slice_bpg_offset \in Int /\ c.nfl_bpg_offset \in Int /\ c.nsl_bpg_offset \in Int
      /\ c.first_line_bpg_offset \in Int /\ c.second_line_bpg_offset \in Int
      /\ c.second_line_offset_adj \in Int
  BY DEF RcAccepts
<1>3. c.final_offset \in Int /\ c.initial_offset \in Int /\ c.rc_model_size \in Int
  BY SMTT(30) DEF RcAccepts
<1>4. \A r \in 0..14 : c.range_bpg_offset[r] \in Int
  BY SMTT(30) DEF RcAccepts
<1> QED BY <1>1, <1>2, <1>3, <1>4

LEMMA RangeOfType ==
    ASSUME NEW t
    PROVE  RangeOf(t) \in 0..14
<1> DEFINE reached(i) == \/ t > cfg.rc_buf_thresh[i] * 64 - cfg.rc_model_size
                         \/ /\ opt.threshold_eq = "upper"
                            /\ t = cfg.rc_buf_thresh[i] * 64 - cfg.rc_model_size
           S == {i \in 0..13 : reached(i)}
<1>1. RangeOf(t) = Cardinality(S)
  BY DEF RangeOf
<1> HIDE DEF reached
<1>2. S \in SUBSET (0..13)
  OBVIOUS
<1>3. IsFiniteSet(0..13) /\ Cardinality(0..13) = 14
  <2>1. 0 \in Int /\ 13 \in Int
    OBVIOUS
  <2>2. IsFiniteSet(0..13) /\ Cardinality(0..13) = IF 0 > 13 THEN 0 ELSE 13 - 0 + 1
    BY <2>1, FS_Interval, Zenon
  <2> QED BY <2>2
<1> HIDE DEF S
<1>4. IsFiniteSet(S) /\ Cardinality(S) <= Cardinality(0..13)
  BY <1>2, <1>3, FS_Subset
<1>5. Cardinality(S) \in Nat
  BY <1>4, FS_CardinalityType
<1> QED BY <1>1, <1>3, <1>4, <1>5

LEMMA NextScaleType ==
    ASSUME NEW l, RcAccepts(cfg), scale \in Nat, scale_clock \in Nat
    PROVE  /\ NextScale(l).scale \in Nat
           /\ NextScale(l).clock \in Nat
           /\ NextScale(l).increasing \in BOOLEAN
<1>1. ScaleDecrements(l) => scale - 1 \in Nat
  BY DEF ScaleDecrements
<1>2. NextScale(l) \in [scale : Nat, clock : Nat, increasing : BOOLEAN]
  BY <1>1 DEF NextScale
<1> QED BY <1>2

LEMMA NextOffsetType ==
    ASSUME NEW l \in Nat, NEW n \in 1..3, RcAccepts(cfg), pixels \in Nat,
           delay_group_end \in Nat, offset_q11 \in Int, clamp_offset \in BOOLEAN
    PROVE  NextOffset(l, n).q11 \in Int /\ NextOffset(l, n).clamp \in BOOLEAN
<1>1. /\ cfg.initial_xmit_delay \in Nat /\ cfg.bits_per_pixel \in Int
      /\ cfg.slice_bpg_offset \in Int /\ cfg.nfl_bpg_offset \in Int /\ cfg.nsl_bpg_offset \in Int
      /\ cfg.first_line_bpg_offset \in Int /\ cfg.second_line_bpg_offset \in Int
      /\ cfg.second_line_offset_adj \in Int /\ cfg.final_offset \in Int
      /\ cfg.rc_model_size \in Int
  BY ConfigTypes
<1>2. DelayEnd \in Int
  BY <1>1 DEF DelayEnd, UMax
<1>3. DelayPixels(n) \in Int
  BY <1>2 DEF DelayPixels, UMax, UMin
<1>4. StartAdjustment \in Int
  BY <1>1 DEF StartAdjustment
<1>5. SecondLineDelta(l) \in Int
  BY <1>1 DEF SecondLineDelta
<1>6. OffsetDelta(l, n) \in Int
  <2>1. DelayPixels(n) * cfg.bits_per_pixel * 128 \in Int
    BY <1>1, <1>3
  <2> QED BY <1>1, <1>5, <2>1 DEF OffsetDelta
<1>7. FinalOffset \in Int
  BY <1>1 DEF FinalOffset
<1> DEFINE moved == offset_q11 + StartAdjustment + OffsetDelta(l, n)
           clamp == clamp_offset \/ moved < FinalOffset
<1>8. NextOffset(l, n) = [q11 |-> IF clamp /\ moved > FinalOffset THEN FinalOffset ELSE moved,
                          clamp |-> clamp]
  BY Zenon DEF NextOffset
<1>9. moved \in Int /\ clamp \in BOOLEAN
  BY <1>4, <1>6
<1> HIDE DEF moved, clamp
<1> QED BY <1>7, <1>8, <1>9

LEMMA TargetBitsType ==
    ASSUME NEW l \in Nat, NEW n \in 1..3, NEW r \in 0..14, RcAccepts(cfg)
    PROVE  TargetBits(l, n, r) \in Int
<1>1. /\ cfg.bits_per_pixel \in Int /\ cfg.slice_bpg_offset \in Int
      /\ cfg.nfl_bpg_offset \in Int /\ cfg.nsl_bpg_offset \in Int
      /\ cfg.first_line_bpg_offset \in Int /\ cfg.second_line_bpg_offset \in Int
      /\ cfg.range_bpg_offset[r] \in Int
  BY ConfigTypes
<1>2. SignedBpg(r) \in Int
  BY <1>1 DEF SignedBpg
<1>3. XformBpg(l) \in Int
  BY <1>1 DEF XformBpg
<1> DEFINE px == IF opt.partial_target = "pixels" THEN n ELSE 3
           part == px * cfg.bits_per_pixel
           target == (part + 8) \div 16 + SignedBpg(r) + XformBpg(l)
                     - (cfg.slice_bpg_offset \div 2048)
<1>4. part \in Int
  <2>1. px \in Int
    OBVIOUS
  <2> HIDE DEF px
  <2> QED BY <1>1, <2>1
<1> HIDE DEF part
<1>5. target \in Int
  BY <1>1, <1>2, <1>3, <1>4
<1>6. TargetBits(l, n, r) = IF V12(cfg) /\ opt.target_floor = "zero" THEN UMax(target, 0) ELSE target
  BY Zenon DEF TargetBits, part
<1> HIDE DEF target
<1> QED BY <1>5, <1>6 DEF UMax

-----------------------------------------------------------------------------
(* The inductive invariant of the type: the QPs kept for a re-run stay on   *)
(* the scale, and neither reading's chunk can have impossible padding.      *)
RcInv ==
    /\ TypeOK
    /\ OpenAt(cfg, pixels, opt.frac_reset, drain)
    /\ OpenAt(cfg, pixels, OtherFracReading(opt.frac_reset), shadow)
    /\ last_inputs.min_qp \in QpRange
    /\ last_inputs.max_qp \in QpRange
    /\ last_inputs.top_qp \in QpRange

LEMMA RcAccepted ==
    ASSUME RcInv
    PROVE  /\ RcAccepts(cfg) /\ ValidChunk(cfg)
           /\ opt.frac_reset \in FracReadings
           /\ OtherFracReading(opt.frac_reset) \in FracReadings
<1>1. cfg \in Configs /\ opt \in Readings
  BY DEF RcInv, TypeOK
<1>2. RcAccepts(cfg) /\ opt.frac_reset \in FracReadings
  BY <1>1, ConfigsAssumption, ReadingsAssumption
<1>3. ValidChunk(cfg)
  BY <1>2 DEF RcAccepts
<1>4. OtherFracReading(opt.frac_reset) \in FracReadings
  BY SMTT(30) DEF OtherFracReading, FracReadings
<1> QED BY <1>2, <1>3, <1>4

(* What a step that succeeds does to the state.                             *)
StepTaken(l, n, g, left, offset, r, computed, next) ==
    /\ n \in 1..3 /\ left \in Nat /\ offset \in Int /\ r \in 0..14 /\ computed \in 0..14
    /\ fullness' = left /\ pixels' = pixels + n /\ groups' = groups + 1
    /\ drain' = DrainGroup(n, opt.frac_reset, drain)
    /\ shadow' = DrainGroup(n, OtherFracReading(opt.frac_reset), shadow)
    /\ scale' = NextScale(l).scale /\ scale_clock' = NextScale(l).clock
    /\ increasing' = NextScale(l).increasing
    /\ offset_q11' = NextOffset(l, n).q11 /\ clamp_offset' = NextOffset(l, n).clamp
    /\ delay_group_end' = pixels + 3
    /\ increase_next' \in BOOLEAN /\ (increase_next' => ~NextScale(l).increasing)
    /\ range' = r
    /\ computed = RangeOf(((left + offset) * NextScale(l).scale) \div 8)
    /\ r = RangeUsed(computed)
    /\ lag_range' = IF opt.rc_pipeline = "range_lag" THEN computed ELSE lag_range
    /\ last_inputs' = GroupInputs(l, n, g, left, offset, r, NextMode(l, g))
    /\ QpInputs(cfg, last_inputs')
    /\ next = ShortTerm(cfg, opt, last_inputs', last_qp, penultimate_qp)
    /\ previous_ideal' = g.ideal
    /\ bit_save' = NextMode(l, g).bit_save /\ mpp_state' = NextMode(l, g).mpp_state
    /\ IF V12(cfg)
       THEN /\ step_group' = g /\ step_y' = l
            /\ step_bit_save' = bit_save /\ step_mpp_state' = mpp_state
            /\ mpp_groups' = IF l = 0 \/ g.flat THEN 0
                             ELSE IF g.mpp >= 3 THEN mpp_groups + 1 ELSE mpp_groups
       ELSE UNCHANGED step
    /\ ShiftQps(next)
    /\ UNCHANGED <<slice, failed, flat_override>>

(* A step fails for a reason, or is taken. Padding is always possible, so   *)
(* the reason is not "removal"; the next QP is on the scale, so it is not   *)
(* "qp". A step that is taken had the caller's arguments accepted, room for *)
(* the group, and has taken the bits of its pixels out.                     *)
LEMMA StepCases ==
    ASSUME RcInv, NEW l \in Nat, NEW groupnum, NEW n, NEW g \in GroupReports,
           StepGroup(l, groupnum, n, g)
    PROVE  \/ \E reason \in Reasons \ {"removal", "qp"} :
                Fail(reason) /\ (reason = "arguments" => ~ArgumentsOk(l, groupnum, n, g))
           \/ \E left \in Nat, offset \in Int, r, computed \in 0..14, next \in QpRange :
                /\ StepTaken(l, n, g, left, offset, r, computed, next)
                /\ ArgumentsOk(l, groupnum, n, g)
                /\ ~(fullness + g.actual > BufferSize(cfg))
                /\ left = (fullness + g.actual) - (drain'.removed - drain.removed)
<1> DEFINE filled      == fullness + g.actual
           drained     == DrainGroup(n, opt.frac_reset, drain)
           left        == filled - (drained.removed - drain.removed)
           scaled      == NextScale(l)
           moved       == NextOffset(l, n)
           offset      == moved.q11 \div 2048
           transformed == ((left + offset) * scaled.scale) \div 8
           computed    == RangeOf(transformed)
           r           == RangeUsed(computed)
           saved       == NextMode(l, g)
           in          == GroupInputs(l, n, g, left, offset, r, saved)
           next        == ShortTerm(cfg, opt, in, last_qp, penultimate_qp)
           turns       == /\ ~scaled.increasing
                          /\ cfg.scale_increment_interval > 0
                          /\ l > 0
                          /\ pixels + n >= cfg.initial_xmit_delay
                          /\ offset > -cfg.rc_model_size
           reason      == IF ~ArgumentsOk(l, groupnum, n, g) THEN "arguments"
                       ELSE IF filled > BufferSize(cfg) THEN "overflow"
                       ELSE IF drained.failed THEN "removal"
                       ELSE IF left < 0 THEN "underflow"
                       ELSE IF scaled.scale > MaxScale \/ offset \notin -MaxOffset .. MaxOffset
                         THEN "scale"
                       ELSE IF transformed > 0 THEN "model"
                       ELSE IF next > MaxQp(cfg) THEN "qp"
                       ELSE "no"
           taken       ==
               /\ fullness' = left /\ pixels' = pixels + n /\ groups' = groups + 1
               /\ drain' = drained
               /\ shadow' = DrainGroup(n, OtherFracReading(opt.frac_reset), shadow)
               /\ scale' = scaled.scale /\ scale_clock' = scaled.clock
               /\ increasing' = scaled.increasing
               /\ offset_q11' = moved.q11 /\ clamp_offset' = moved.clamp
               /\ delay_group_end' = pixels + 3
               /\ increase_next' = turns
               /\ range' = r
               /\ lag_range' = IF opt.rc_pipeline = "range_lag" THEN computed ELSE lag_range
               /\ last_inputs' = in /\ previous_ideal' = g.ideal
               /\ bit_save' = saved.bit_save /\ mpp_state' = saved.mpp_state
               /\ IF V12(cfg)
                  THEN /\ step_group' = g /\ step_y' = l
                       /\ step_bit_save' = bit_save /\ step_mpp_state' = mpp_state
                       /\ mpp_groups' = IF l = 0 \/ g.flat THEN 0
                                        ELSE IF g.mpp >= 3 THEN mpp_groups + 1 ELSE mpp_groups
                  ELSE UNCHANGED step
               /\ ShiftQps(next)
               /\ UNCHANGED <<slice, failed, flat_override>>
<1>1. failed = "no" /\ (IF reason # "no" THEN Fail(reason) ELSE taken)
  BY Zenon DEF StepGroup
<1>2. /\ RcAccepts(cfg) /\ ValidChunk(cfg) /\ opt.frac_reset \in FracReadings
      /\ fullness \in Nat /\ pixels \in Nat /\ lag_range \in 0..14
      /\ OpenAt(cfg, pixels, opt.frac_reset, drain)
      /\ g.actual \in 0..512 /\ g.ideal \in 0..512
  BY RcAccepted DEF RcInv, TypeOK, GroupReports
<1>3. reason \in Reasons \cup {"no"}
  BY DEF Reasons
<1>4. last_qp \in QpRange /\ penultimate_qp \in QpRange /\ MaxQp(cfg) \in Nat
  BY <1>2, QpScale DEF RcInv, TypeOK
<1> HIDE DEF in, next, taken, left, drained, filled, scaled, moved, offset, transformed, computed,
             r, saved, turns
<1>5. CASE ~ArgumentsOk(l, groupnum, n, g)
  <2>1. reason = "arguments"
    BY <1>5, Zenon
  <2> HIDE DEF reason
  <2>2. Fail("arguments")
    BY <1>1, <2>1
  <2>3. "arguments" \in Reasons \ {"removal", "qp"}
    BY SMTT(30) DEF Reasons
  <2> QED BY <1>5, <2>2, <2>3, Zenon
<1>6. CASE ArgumentsOk(l, groupnum, n, g)
  <2>1. n \in 1..3
    BY <1>6 DEF ArgumentsOk
  <2>2. drained \in DrainRecord /\ drained.failed = FALSE
    BY <1>2, <2>1, DrainGroupOpen, OpenRecord DEF drained
  <2>3. left \in Int
    <3>1. drained.removed \in Int
      BY <2>2 DEF DrainRecord
    <3>2. drain.removed \in Int
      BY DEF RcInv, TypeOK, DrainRecord
    <3> QED BY <1>2, <3>1, <3>2, SMTT(30) DEF left, filled
  <2>4. offset \in Int
    <3>1. moved.q11 \in Int
      BY <1>2, <2>1, NextOffsetType DEF moved, RcInv, TypeOK
    <3> QED BY <3>1 DEF offset
  <2>5. computed \in 0..14 /\ r \in 0..14
    BY <1>2, RangeOfType DEF computed, r, RangeUsed
  <2>6. QpInputs(cfg, in)
    <3>1. TargetBits(l, n, r) \in Int
      BY <1>2, <2>1, <2>5, TargetBitsType
    <3>2. /\ TopRangeQp(cfg) \in 0..MaxQp(cfg)
          /\ cfg.range_min_qp[r] \in 0..MaxQp(cfg) /\ cfg.range_max_qp[r] \in 0..MaxQp(cfg)
          /\ 2 * cfg.bits_per_component - 1 = MaxQp(cfg)
      BY <1>2, <2>5, QpScale, SMTT(30)
    <3>3. cfg.rc_tgt_offset_high \in Nat /\ cfg.rc_tgt_offset_low \in Nat
      BY <1>2, SMTT(30) DEF RcAccepts
    <3>4. /\ in.actual = g.actual /\ in.ideal = g.ideal /\ in.target = TargetBits(l, n, r)
          /\ in.min_qp = cfg.range_min_qp[r] /\ in.max_qp = cfg.range_max_qp[r]
          /\ in.top_qp = 2 * cfg.bits_per_component - 1
      BY DEF in, GroupInputs
    <3> QED BY <1>2, <1>4, <3>1, <3>2, <3>3, <3>4, SMTT(30) DEF QpInputs
  <2>7. next \in QpRange
    BY <1>4, <2>6, ShortTermRange DEF next, QpRange
  <2>8. ~(next > MaxQp(cfg))
    BY <1>4, <2>7 DEF QpRange
  <2>9. CASE reason # "no"
    <3>1. reason # "removal" /\ reason # "qp" /\ reason # "arguments"
      BY <1>6, <2>2, <2>8, <2>9, Zenon
    <3> HIDE DEF reason
    <3>2. Fail(reason) /\ reason \in Reasons \ {"removal", "qp"}
      BY <1>1, <1>3, <2>9, <3>1
    <3> QED BY <3>1, <3>2, Zenon
  <2>10. CASE reason = "no"
    <3>1. left \in Nat
      <4>1. ~(left < 0)
        BY <1>6, <2>10, <2>2, Zenon
      <4> QED BY <2>3, <4>1
    <3>7. ~(fullness + g.actual > BufferSize(cfg))
      BY <1>6, <2>10, Zenon DEF filled
    <3> HIDE DEF reason
    <3>2. taken
      BY <1>1, <2>10, Zenon
    <3>3. increase_next' \in BOOLEAN /\ (increase_next' => ~scaled.increasing)
      BY <3>2 DEF taken, turns
    <3>4. /\ computed = RangeOf(((left + offset) * NextScale(l).scale) \div 8)
          /\ r = RangeUsed(computed)
          /\ lag_range' = IF opt.rc_pipeline = "range_lag" THEN computed ELSE lag_range
      BY <3>2, Zenon DEF taken, computed, transformed, scaled, r
    <3>5. StepTaken(l, n, g, left, offset, r, computed, next)
      BY <2>1, <2>4, <2>5, <2>6, <3>1, <3>2, <3>3, <3>4, Zenon
      DEF StepTaken, taken, drained, scaled, moved, in, next, saved
    <3>6. left = (fullness + g.actual) - (drain'.removed - drain.removed)
      <4>1. drain' = drained
        BY <3>2 DEF taken
      <4> QED BY <4>1, Zenon DEF left, filled
    <3> QED BY <1>6, <2>4, <2>5, <2>7, <3>1, <3>5, <3>6, <3>7, Zenon
  <2> QED BY <2>9, <2>10
<1> QED BY <1>5, <1>6, Zenon

(* What an adjustment that succeeds does to the state.                      *)
FlatAdjusted(very, line_start, redo) ==
    LET master == FlatQp(very, line_start, qp)
        prev2  == RerunPrev2(very, line_start)
        redone == RerunMode(master, prev2)
    IN  /\ master \in QpRange /\ redo \in QpRange /\ redone \in Modes
        /\ last_inputs' = [last_inputs EXCEPT !.bit_save =
                             IF V12(cfg) /\ opt.rerun_bitsave = "redo" /\ groups > 0
                             THEN redone.bit_save ELSE @]
        /\ redo = IF groups > 0 THEN ShortTerm(cfg, opt, last_inputs', master, prev2)
                  ELSE pending_qp
        /\ qp' = master
        /\ flat_override' \in BOOLEAN
        /\ Restart(master, redo)
        /\ bit_save' = redone.bit_save /\ mpp_state' = redone.mpp_state
        /\ UNCHANGED <<slice, failed, buffer, model, scaling, used_qp, ranges, previous_ideal, step>>

FlatNotAdjusted ==
    /\ flat_override' = FALSE
    /\ UNCHANGED <<slice, failed, buffer, model, scaling, qps, ranges, inputs, mode, step>>

LEMMA FlatQpRange ==
    ASSUME RcInv, NEW very, NEW line_start, NEW q \in QpRange
    PROVE  FlatQp(very, line_start, q) \in QpRange
<1>1. MaxQp(cfg) \in Nat /\ VeryFlatQp(cfg) \in 0..MaxQp(cfg)
  BY RcAccepted, QpScale
<1>2. FourBelow(q) \in QpRange
  BY <1>1 DEF FourBelow, UMax, QpRange
<1>3. FlatQp(very, line_start, q) \in {VeryFlatQp(cfg), FourBelow(q)}
  BY Zenon DEF FlatQp
<1> QED BY <1>1, <1>2, <1>3 DEF QpRange

LEMMA RerunModeType ==
    ASSUME RcInv, NEW master, NEW prev2
    PROVE  RerunMode(master, prev2) \in Modes
<1> DEFINE m == [bit_save |-> step_bit_save, mpp_state |-> step_mpp_state]
           now == [bit_save |-> bit_save, mpp_state |-> mpp_state]
           again == BitSaveUpdate(cfg, opt, step_y, step_group, m, master, prev2)
<1>1. m \in Modes /\ now \in Modes
  BY DEF RcInv, TypeOK, Modes
<1>2. RerunMode(master, prev2) \in {again, now}
  BY Zenon DEF RerunMode
<1> HIDE DEF m, now
<1>3. again \in Modes
  BY <1>1, BitSaveUpdateResult
<1> QED BY <1>1, <1>2, <1>3

(* An adjustment that is called for succeeds: its re-run gives a QP on the  *)
(* scale.                                                                   *)
LEMMA FlatCases ==
    ASSUME RcInv, NEW flat, NEW very, NEW line_start, ApplyFlatLine(flat, very, line_start)
    PROVE  \/ FlatNotAdjusted
           \/ \E redo \in QpRange : FlatAdjusted(very, line_start, redo)
<1> DEFINE master == FlatQp(very, line_start, qp)
           prev2  == RerunPrev2(very, line_start)
           redone == RerunMode(master, prev2)
           in     == [last_inputs EXCEPT !.bit_save =
                        IF V12(cfg) /\ opt.rerun_bitsave = "redo" /\ groups > 0
                        THEN redone.bit_save ELSE @]
           redo   == IF groups > 0 THEN ShortTerm(cfg, opt, in, master, prev2) ELSE pending_qp
<1>1. CASE FlatAdjusts(flat, very, line_start)
  <2>1. AdjustFlat(very, line_start)
    BY <1>1, Zenon DEF ApplyFlatLine
  <2>2. IF opt.flat_restart = "in_flight" /\ redo > MaxQp(cfg)
        THEN Fail("qp")
        ELSE /\ qp' = master
             /\ flat_override' = (master # qp)
             /\ Restart(master, redo)
             /\ bit_save' = redone.bit_save /\ mpp_state' = redone.mpp_state
             /\ last_inputs' = in
             /\ UNCHANGED <<slice, failed, buffer, model, scaling, used_qp, ranges,
                            previous_ideal, step>>
    BY <2>1, Zenon DEF AdjustFlat
  <2>3. master \in QpRange
    BY FlatQpRange DEF RcInv, TypeOK
  <2>4. redone \in Modes
    BY RerunModeType
  <2> HIDE DEF master, prev2, redone
  <2>5. QpInputs(cfg, in)
    <3>1. /\ last_inputs \in Inputs
          /\ last_inputs.min_qp \in QpRange /\ last_inputs.max_qp \in QpRange
          /\ last_inputs.top_qp \in QpRange
      BY DEF RcInv, TypeOK
    <3>2. /\ in.actual = last_inputs.actual /\ in.ideal = last_inputs.ideal
          /\ in.target = last_inputs.target /\ in.top_qp = last_inputs.top_qp
          /\ in.min_qp = last_inputs.min_qp /\ in.max_qp = last_inputs.max_qp
      BY <3>1 DEF Inputs
    <3> HIDE DEF in
    <3>3. MaxQp(cfg) \in Nat /\ TopRangeQp(cfg) \in 0..MaxQp(cfg)
      BY RcAccepted, QpScale
    <3>4. cfg.rc_tgt_offset_high \in Nat /\ cfg.rc_tgt_offset_low \in Nat
      BY RcAccepted DEF RcAccepts
    <3>5. in.actual \in Nat /\ in.ideal \in Nat /\ in.target \in Int
      BY <3>1, <3>2 DEF Inputs
    <3> QED BY <3>1, <3>2, <3>3, <3>4, <3>5 DEF QpInputs, QpRange
  <2>6. redo \in QpRange /\ MaxQp(cfg) \in Nat
    <3>1. MaxQp(cfg) \in Nat /\ pending_qp \in QpRange
      BY RcAccepted, QpScale DEF RcInv, TypeOK
    <3> HIDE DEF in
    <3>2. ShortTerm(cfg, opt, in, master, prev2) \in QpRange
      BY <2>3, <2>5, ShortTermRange DEF QpRange
    <3> QED BY <3>1, <3>2
  <2>7. ~(redo > MaxQp(cfg))
    <3> HIDE DEF redo
    <3> QED BY <2>6 DEF QpRange
  <2>8. FlatAdjusted(very, line_start, redo)
    <3> HIDE DEF redo, in
    <3>1. flat_override' \in BOOLEAN
      BY <2>2, <2>7
    <3> QED BY <2>2, <2>3, <2>4, <2>6, <2>7, <3>1, Zenon
        DEF FlatAdjusted, master, prev2, redone, in, redo
  <2> QED BY <2>6, <2>8, Zenon
<1>2. CASE ~FlatAdjusts(flat, very, line_start)
  BY <1>2, Zenon DEF ApplyFlatLine, FlatNotAdjusted
<1> QED BY <1>1, <1>2

-----------------------------------------------------------------------------
(* The invariant is inductive: one lemma for each way the state changes.    *)

LEMMA RcInvInit == RcInit => RcInv
<1> SUFFICES ASSUME RcInit PROVE RcInv
  OBVIOUS
<1>1. cfg \in Configs /\ opt \in Readings /\ RcAccepts(cfg) /\ ValidChunk(cfg)
  <2>1. cfg \in Configs /\ opt \in Readings
    BY DEF RcInit
  <2>2. RcAccepts(cfg)
    BY <2>1, ConfigsAssumption
  <2> QED BY <2>1, <2>2, Zenon DEF RcAccepts
<1>2. MaxQp(cfg) \in Nat /\ 0 \in QpRange
  BY <1>1, QpScale DEF QpRange
<1>3. /\ OpenAt(cfg, pixels, opt.frac_reset, drain)
      /\ OpenAt(cfg, pixels, OtherFracReading(opt.frac_reset), shadow)
  <2>1. pixels = 0 /\ drain = DrainStart /\ shadow = DrainStart
    BY DEF RcInit
  <2> QED BY <1>1, <2>1, OpenStart, Zenon
<1>4. drain \in DrainRecord /\ shadow \in DrainRecord
  BY <1>3, OpenRecord
<1>5. offset_q11 \in Int /\ scale \in Nat
  <2>1. cfg.initial_offset \in Int /\ cfg.rc_model_size \in Int
    BY <1>1, ConfigTypes
  <2>2. cfg.initial_scale_value \in 8..63
    BY <1>1, Zenon DEF RcAccepts
  <2>3. /\ offset_q11 = (cfg.initial_offset - cfg.rc_model_size) * 2048
        /\ scale = cfg.initial_scale_value
    BY DEF RcInit
  <2> QED BY <2>1, <2>2, <2>3
<1>6. last_inputs \in Inputs /\ step_group \in GroupReports
      /\ last_inputs.min_qp = 0 /\ last_inputs.max_qp = 0 /\ last_inputs.top_qp = 0
  BY DEF RcInit, NoInputs, NoGroup, Inputs, GroupReports
<1>7. TypeOK
  <2>1. /\ fullness \in Nat /\ pixels \in Nat /\ groups \in Nat
        /\ delay_group_end \in Nat /\ scale_clock \in Nat
        /\ range \in 0..14 /\ lag_range \in 0..14 /\ previous_ideal \in 0..512
        /\ bit_save \in 0..2 /\ mpp_state \in 0..2
        /\ step_y \in Nat /\ step_bit_save \in 0..2 /\ step_mpp_state \in 0..2
        /\ mpp_groups \in Nat
    BY DEF RcInit
  <2>2. /\ clamp_offset \in BOOLEAN /\ increasing \in BOOLEAN /\ increase_next \in BOOLEAN
        /\ flat_override \in BOOLEAN /\ failed \in Reasons \cup {"no"}
    BY Zenon DEF RcInit
  <2>3. /\ qp \in QpRange /\ pending_qp \in QpRange /\ last_qp \in QpRange
        /\ penultimate_qp \in QpRange /\ used_qp \in QpRange
    BY <1>2 DEF RcInit
  <2> QED BY <1>1, <1>4, <1>5, <1>6, <2>1, <2>2, <2>3, Zenon DEF TypeOK
<1> QED BY <1>2, <1>3, <1>6, <1>7 DEF RcInv

LEMMA FailKeepsInv ==
    ASSUME RcInv, NEW reason \in Reasons, Fail(reason)
    PROVE  RcInv'
<1>1. /\ UNCHANGED slice /\ UNCHANGED buffer /\ UNCHANGED model /\ UNCHANGED scaling
      /\ UNCHANGED qps /\ UNCHANGED ranges /\ UNCHANGED inputs /\ UNCHANGED mode
      /\ UNCHANGED step /\ UNCHANGED flat_override
      /\ failed' \in Reasons
  BY DEF Fail
<1>2. TypeOK'
  BY <1>1 DEF RcInv, TypeOK, QpRange, slice, buffer, model, scaling, qps, ranges, inputs, mode, step
<1>3. UNCHANGED <<cfg, opt, pixels, drain, shadow, last_inputs>>
  BY <1>1 DEF slice, buffer, inputs
<1> QED BY <1>2, <1>3, Zenon DEF RcInv, QpRange

LEMMA StepKeepsInv ==
    ASSUME RcInv, NEW l \in Nat, NEW n, NEW g \in GroupReports,
           NEW left, NEW offset, NEW r, NEW computed, NEW next \in QpRange,
           StepTaken(l, n, g, left, offset, r, computed, next)
    PROVE  RcInv'
<1>1. /\ n \in 1..3 /\ RcAccepts(cfg) /\ ValidChunk(cfg)
      /\ opt.frac_reset \in FracReadings /\ OtherFracReading(opt.frac_reset) \in FracReadings
      /\ pixels \in Nat /\ groups \in Nat
  BY RcAccepted DEF StepTaken, RcInv, TypeOK
<1>2. cfg' = cfg /\ opt' = opt /\ failed' = failed /\ flat_override' = flat_override
  BY DEF StepTaken, slice
<1>3. /\ OpenAt(cfg, pixels + n, opt.frac_reset, drain')
      /\ OpenAt(cfg, pixels + n, OtherFracReading(opt.frac_reset), shadow')
  <2>1. /\ OpenAt(cfg, pixels, opt.frac_reset, drain)
        /\ OpenAt(cfg, pixels, OtherFracReading(opt.frac_reset), shadow)
        /\ drain' = DrainGroup(n, opt.frac_reset, drain)
        /\ shadow' = DrainGroup(n, OtherFracReading(opt.frac_reset), shadow)
    BY DEF RcInv, StepTaken
  <2> QED BY <1>1, <2>1, DrainGroupOpen
<1>4. /\ fullness' \in Nat /\ pixels' = pixels + n /\ pixels' \in Nat /\ groups' \in Nat
      /\ drain' \in DrainRecord /\ shadow' \in DrainRecord
  <2>1. drain' \in DrainRecord /\ shadow' \in DrainRecord
    BY <1>3, OpenRecord
  <2>2. fullness' \in Nat /\ pixels' = pixels + n /\ groups' = groups + 1
    BY DEF StepTaken
  <2> QED BY <1>1, <2>1, <2>2
<1>5. offset_q11' \in Int /\ clamp_offset' \in BOOLEAN /\ delay_group_end' \in Nat
  BY <1>1, NextOffsetType DEF StepTaken, RcInv, TypeOK
<1>6. /\ scale' \in Nat /\ scale_clock' \in Nat /\ increasing' \in BOOLEAN
      /\ increase_next' \in BOOLEAN
  BY <1>1, NextScaleType DEF StepTaken, RcInv, TypeOK
<1>7. /\ qp' \in QpRange /\ pending_qp' \in QpRange /\ last_qp' \in QpRange
      /\ penultimate_qp' \in QpRange /\ used_qp' \in QpRange
  BY DEF StepTaken, ShiftQps, RcInv, TypeOK
<1>8. range' \in 0..14 /\ lag_range' \in 0..14
  BY DEF StepTaken, RcInv, TypeOK
<1>9. NextMode(l, g) \in Modes
  <2> DEFINE m == [bit_save |-> bit_save, mpp_state |-> mpp_state]
             updated == BitSaveUpdate(cfg, opt, l, g, m, last_qp, qp)
  <2>1. m \in Modes
    BY DEF RcInv, TypeOK, Modes
  <2>2. NextMode(l, g) \in {updated, m}
    BY Zenon DEF NextMode
  <2> HIDE DEF m
  <2>3. updated \in Modes
    BY <2>1, BitSaveUpdateResult
  <2> QED BY <2>1, <2>2, <2>3
<1>10. last_inputs' \in Inputs
  <2>1. last_inputs' = GroupInputs(l, n, g, left, offset, r, NextMode(l, g))
    BY DEF StepTaken
  <2>2. /\ left \in Nat /\ offset \in Int /\ left + offset \in Int
        /\ TargetBits(l, n, r) \in Int
    BY <1>1, TargetBitsType DEF StepTaken
  <2>3. /\ g.actual \in 0..512 /\ g.ideal \in 0..512 /\ g.zero \in BOOLEAN
        /\ previous_ideal \in 0..512 /\ NextMode(l, g).bit_save \in 0..2
    BY <1>9 DEF GroupReports, Modes, RcInv, TypeOK
  <2>4. /\ cfg.range_min_qp[r] \in Nat /\ cfg.range_max_qp[r] \in Nat
        /\ 2 * cfg.bits_per_component - 1 \in Nat /\ OverflowLevel \in Int
    <3>1. r \in 0..14
      BY DEF StepTaken
    <3> QED BY <1>1, <3>1, QpScale DEF OverflowLevel
  <2> QED BY <2>1, <2>2, <2>3, <2>4, Zenon DEF GroupInputs, Inputs
<1>11. bit_save' \in 0..2 /\ mpp_state' \in 0..2 /\ previous_ideal' \in 0..512
  BY <1>9 DEF StepTaken, Modes, GroupReports
<1>12. /\ step_group' \in GroupReports /\ step_y' \in Nat
       /\ step_bit_save' \in 0..2 /\ step_mpp_state' \in 0..2 /\ mpp_groups' \in Nat
  BY DEF StepTaken, step, RcInv, TypeOK
<1>13. TypeOK'
  <2>1. QpRange' = QpRange
    BY <1>2 DEF QpRange
  <2> QED BY <1>2, <1>4, <1>5, <1>6, <1>7, <1>8, <1>10, <1>11, <1>12, <2>1
      DEF TypeOK, RcInv
<1>14. /\ last_inputs'.min_qp \in QpRange /\ last_inputs'.max_qp \in QpRange
       /\ last_inputs'.top_qp \in QpRange
  BY DEF StepTaken, QpInputs, QpRange
<1> QED BY <1>2, <1>3, <1>4, <1>13, <1>14, Zenon DEF RcInv, QpRange

LEMMA FlatKeepsInv ==
    ASSUME RcInv, NEW very, NEW line_start, NEW redo, FlatAdjusted(very, line_start, redo)
    PROVE  RcInv'
<1> DEFINE master == FlatQp(very, line_start, qp)
           prev2  == RerunPrev2(very, line_start)
           redone == RerunMode(master, prev2)
           bits   == IF V12(cfg) /\ opt.rerun_bitsave = "redo" /\ groups > 0
                     THEN redone.bit_save ELSE last_inputs.bit_save
<1>1. /\ master \in QpRange /\ redo \in QpRange /\ redone \in Modes
      /\ last_inputs' = [last_inputs EXCEPT !.bit_save = bits]
      /\ qp' = master /\ flat_override' \in BOOLEAN /\ Restart(master, redo)
      /\ bit_save' = redone.bit_save /\ mpp_state' = redone.mpp_state
      /\ UNCHANGED <<slice, failed, buffer, model, scaling, used_qp, ranges, previous_ideal, step>>
  BY Zenon DEF FlatAdjusted
<1> HIDE DEF master, redone, bits
<1>2. /\ UNCHANGED slice /\ UNCHANGED failed /\ UNCHANGED buffer /\ UNCHANGED model
      /\ UNCHANGED scaling /\ UNCHANGED used_qp /\ UNCHANGED ranges
      /\ UNCHANGED previous_ideal /\ UNCHANGED step
  BY <1>1
<1>3. bit_save' \in 0..2 /\ mpp_state' \in 0..2
  BY <1>1 DEF Modes
<1>4. /\ last_inputs' \in Inputs
      /\ last_inputs'.min_qp \in QpRange /\ last_inputs'.max_qp \in QpRange
      /\ last_inputs'.top_qp \in QpRange
  <2>1. /\ last_inputs \in Inputs /\ last_inputs.min_qp \in QpRange
        /\ last_inputs.max_qp \in QpRange /\ last_inputs.top_qp \in QpRange
    BY DEF RcInv, TypeOK
  <2>2. bits \in 0..2
    BY <1>1, <2>1 DEF bits, Modes, Inputs
  <2> QED BY <1>1, <2>1, <2>2 DEF Inputs
<1>5. pending_qp' \in QpRange /\ last_qp' \in QpRange /\ penultimate_qp' \in QpRange
  BY <1>1 DEF Restart, RcInv, TypeOK
<1>6. QpRange' = QpRange
  BY <1>2 DEF QpRange, slice
<1>7. TypeOK'
  BY <1>1, <1>2, <1>3, <1>4, <1>5, <1>6
     DEF RcInv, TypeOK, slice, buffer, model, scaling, ranges, step
<1>8. UNCHANGED <<cfg, opt, pixels, drain, shadow>>
  BY <1>2 DEF slice, buffer
<1> QED BY <1>4, <1>6, <1>7, <1>8, Zenon DEF RcInv

LEMMA NotAdjustedKeepsInv ==
    ASSUME RcInv, FlatNotAdjusted
    PROVE  RcInv'
<1>1. /\ UNCHANGED slice /\ UNCHANGED failed /\ UNCHANGED buffer /\ UNCHANGED model
      /\ UNCHANGED scaling /\ UNCHANGED qps /\ UNCHANGED ranges /\ UNCHANGED inputs
      /\ UNCHANGED mode /\ UNCHANGED step
      /\ flat_override' \in BOOLEAN
  BY DEF FlatNotAdjusted
<1>2. TypeOK'
  BY <1>1 DEF RcInv, TypeOK, QpRange, slice, buffer, model, scaling, qps, ranges, inputs, mode, step
<1>3. UNCHANGED <<cfg, opt, pixels, drain, shadow, last_inputs>>
  BY <1>1 DEF slice, buffer, inputs
<1> QED BY <1>2, <1>3, Zenon DEF RcInv, QpRange

(* What a call of either entry point does, whatever line it says it is for, *)
(* as the lemmas above describe it.                                         *)
RcCall(line) ==
    \/ FlatNotAdjusted
    \/ \E very, line_start \in BOOLEAN, redo \in QpRange : FlatAdjusted(very, line_start, redo)
    \/ \E reason \in Reasons \ {"removal", "qp"} : Fail(reason)
    \/ \E n \in Nat, g \in GroupReports, left \in Nat, offset \in Int, r, computed \in 0..14,
          next \in QpRange :
         StepTaken(line, n, g, left, offset, r, computed, next)

LEMMA CallKeepsInv ==
    ASSUME RcInv, NEW line \in Nat, RcCall(line)
    PROVE  RcInv'
<1>1. CASE FlatNotAdjusted
  BY <1>1, NotAdjustedKeepsInv
<1>2. CASE \E very, line_start \in BOOLEAN, redo \in QpRange : FlatAdjusted(very, line_start, redo)
  BY <1>2, FlatKeepsInv, Zenon
<1>3. CASE \E reason \in Reasons \ {"removal", "qp"} : Fail(reason)
  BY <1>3, FailKeepsInv
<1>4. CASE \E n \in Nat, g \in GroupReports, left \in Nat, offset \in Int, r, computed \in 0..14,
             next \in QpRange :
            StepTaken(line, n, g, left, offset, r, computed, next)
  BY <1>4, StepKeepsInv, Zenon
<1> QED BY <1>1, <1>2, <1>3, <1>4, Zenon DEF RcCall

(* The calls of the entry points, with the arguments of any caller.         *)
LEMMA FlatIsCall ==
    ASSUME RcInv, NEW flat \in BOOLEAN, NEW very \in BOOLEAN, NEW line_start \in BOOLEAN,
           ApplyFlatLine(flat, very, line_start), NEW line
    PROVE  RcCall(line)
BY FlatCases, Zenon DEF RcCall

LEMMA StepIsCall ==
    ASSUME RcInv, NEW line \in Nat, NEW groupnum, NEW n \in Nat, NEW g \in GroupReports,
           StepGroup(line, groupnum, n, g)
    PROVE  RcCall(line)
<1>1. \/ \E reason \in Reasons \ {"removal", "qp"} : Fail(reason)
      \/ \E left \in Nat, offset \in Int, r, computed \in 0..14, next \in QpRange :
           StepTaken(line, n, g, left, offset, r, computed, next)
  BY StepCases, Zenon
<1> QED BY <1>1, Zenon DEF RcCall

LEMMA NextIsCall ==
    ASSUME RcInv, RcNext
    PROVE  pixels \div cfg.slice_width \in Nat /\ RcCall(pixels \div cfg.slice_width)
<1> DEFINE line == pixels \div cfg.slice_width
<1>1. line \in Nat
  <2>1. pixels \in Nat /\ cfg.slice_width \in Nat \ {0}
    BY RcAccepted, ConfigTypes DEF RcInv, TypeOK
  <2> QED BY <2>1
<1>2. CASE \E flat, very, line_start \in BOOLEAN : ApplyFlatLine(flat, very, line_start)
  <2> HIDE DEF line
  <2>1. RcCall(line)
    BY <1>2, FlatIsCall, Zenon
  <2> QED BY <1>1, <2>1 DEF line
<1>3. CASE \E n \in GroupSizes, g \in Reports : StepGroup(line, groups, n, g)
  <2>1. PICK n \in GroupSizes, g \in Reports : StepGroup(line, groups, n, g)
    BY <1>3
  <2>2. n \in Nat /\ g \in GroupReports
    BY ReportsAssumption, BoundsAssumption
  <2> HIDE DEF line
  <2>3. RcCall(line)
    BY <1>1, <2>1, <2>2, StepIsCall
  <2> QED BY <1>1, <2>3 DEF line
<1> QED BY <1>2, <1>3, Zenon DEF RcNext

LEMMA StutterKeepsInv ==
    ASSUME RcInv, UNCHANGED rc_vars
    PROVE  RcInv'
<1>1. /\ UNCHANGED slice /\ UNCHANGED failed /\ UNCHANGED buffer /\ UNCHANGED model
      /\ UNCHANGED scaling /\ UNCHANGED qps /\ UNCHANGED ranges /\ UNCHANGED inputs
      /\ UNCHANGED mode /\ UNCHANGED step /\ UNCHANGED flat_override
  BY DEF rc_vars
<1>2. TypeOK'
  BY <1>1 DEF RcInv, TypeOK, QpRange, slice, buffer, model, scaling, qps, ranges, inputs, mode,
              step
<1>3. UNCHANGED <<cfg, opt, pixels, drain, shadow, last_inputs>>
  BY <1>1 DEF slice, buffer, inputs
<1> QED BY <1>2, <1>3, Zenon DEF RcInv, QpRange

LEMMA RcInvStep == RcInv /\ [RcNext]_rc_vars => RcInv'
BY StutterKeepsInv, NextIsCall, CallKeepsInv, Zenon

(* Type correctness: in particular, no QP ever leaves the scale of the bit  *)
(* depth, whatever the caller does, in every reading.                       *)
THEOREM RcTypeCorrect == RcSpec => []TypeOK
<1>1. RcInv => TypeOK
  BY DEF RcInv
<1> QED BY <1>1, RcInvInit, RcInvStep, PTL DEF RcSpec

-----------------------------------------------------------------------------
(***************************************************************************)
(* What the rate control promises about its QP pipeline, its bit-save mode *)
(* and its scale.                                                          *)
(***************************************************************************)

(* The mode kept for a re-run is the mode before the last step, and that    *)
(* step's group has been counted: recomputing its mode cannot reach beyond  *)
(* the MPP groups counted.                                                  *)
RerunInv ==
    /\ step_bit_save = 2 <=> step_mpp_state = 2
    /\ V12(cfg) /\ groups > 0 =>
         \/ step_y = 0
         \/ step_group.flat
         \/ step_mpp_state + (IF step_group.mpp >= 3 THEN 1 ELSE 0) <= mpp_groups

(* What is kept for the next group in the range-lag reading is the range of *)
(* the model as the last step left it.                                      *)
LagInv == opt.rc_pipeline = "range_lag" => lag_range = IF groups = 0 THEN 0 ELSE ModelRange

(* The offset is held at its final value from the group on that latched it. *)
LatchInv == clamp_offset => offset_q11 <= FinalOffset

(* A turn of the scale is only requested before the scale has turned.       *)
ScaleInv == scale >= 8 /\ ~(increase_next /\ increasing)

Promises == QpCoherent /\ QueuedQpReproducible

(* Bit-save mode 2 and two MPP groups go together, also after a re-run has  *)
(* put the mode back (rate_control.c:287-292, 399-412).                     *)
BitSaveFollowsMpp == bit_save = 2 <=> mpp_state = 2

ModeInv == BitSaveFollowsMpp /\ MppCountedOnce /\ RerunInv

SafeInv == RcInv /\ DeadFailures /\ Promises /\ ModeInv /\ ScaleInv /\ LagInv /\ LatchInv

-----------------------------------------------------------------------------
(* The QP pipeline.                                                         *)

(* An override moves the QP of the current group and restarts the queued    *)
(* cycle from it.                                                           *)
LEMMA FlatKeepsPromises ==
    ASSUME NEW very, NEW line_start, NEW redo, FlatAdjusted(very, line_start, redo)
    PROVE  Promises'
<1> DEFINE master == FlatQp(very, line_start, qp)
           prev2  == RerunPrev2(very, line_start)
<1>1. /\ redo = IF groups > 0 THEN ShortTerm(cfg, opt, last_inputs', master, prev2)
                ELSE pending_qp
      /\ qp' = master /\ Restart(master, redo)
      /\ UNCHANGED slice /\ UNCHANGED buffer /\ UNCHANGED used_qp
  BY Zenon DEF FlatAdjusted
<1>2. cfg' = cfg /\ opt' = opt /\ groups' = groups /\ used_qp' = used_qp
  BY <1>1 DEF slice, buffer
<1>3. opt.flat_restart = "in_flight" =>
        pending_qp' = redo /\ last_qp' = redo /\ penultimate_qp' = master
  BY <1>1 DEF Restart
<1>4. prev2 \in {used_qp} \cup (IF V12(cfg) THEN {FourBelow(used_qp), VeryFlatQp(cfg)} ELSE {})
  BY Zenon DEF RerunPrev2, FlatQp
<1> HIDE DEF master, prev2
<1>5. QpCoherent'
  <2>1. qp' = master /\ opt' = opt
    BY <1>1, <1>2
  <2> QED BY <1>3, <2>1 DEF QpCoherent
<1>6. QueuedQpReproducible'
  <2> SUFFICES ASSUME opt'.flat_restart = "in_flight", groups' > 0
               PROVE  \E p \in ({used_qp} \cup (IF V12(cfg)
                              THEN {FourBelow(used_qp), VeryFlatQp(cfg)} ELSE {}))' :
                         pending_qp' = ShortTerm(cfg', opt', last_inputs', qp', p)
    BY Zenon DEF QueuedQpReproducible
  <2>1. FourBelow(used_qp)' = FourBelow(used_qp) /\ VeryFlatQp(cfg)' = VeryFlatQp(cfg)
        /\ (V12(cfg)' <=> V12(cfg))
    BY <1>2 DEF FourBelow, UMax, VeryFlatQp, V12
  <2>2. groups > 0 /\ opt.flat_restart = "in_flight"
    BY <1>2
  <2>3. pending_qp' = ShortTerm(cfg, opt, last_inputs', master, prev2)
    BY <1>1, <1>3, <2>2, Zenon
  <2>4. pending_qp' = ShortTerm(cfg', opt', last_inputs', qp', prev2)
    BY <1>1, <1>2, <2>3, Zenon
  <2>5. prev2 \in ({used_qp} \cup (IF V12(cfg)
                   THEN {FourBelow(used_qp), VeryFlatQp(cfg)} ELSE {}))'
    BY <1>2, <1>4, <2>1, Zenon
  <2> QED BY <2>4, <2>5, Zenon
<1> QED BY <1>5, <1>6 DEF Promises

(* A step shifts the pipeline and queues what it has selected.              *)
LEMMA StepKeepsPromises ==
    ASSUME Promises, NEW l, NEW n, NEW g, NEW left, NEW offset, NEW r, NEW computed, NEW next,
           StepTaken(l, n, g, left, offset, r, computed, next)
    PROVE  Promises'
<1>1. /\ next = ShortTerm(cfg, opt, last_inputs', last_qp, penultimate_qp)
      /\ ShiftQps(next) /\ UNCHANGED slice
  BY Zenon DEF StepTaken
<1>2. cfg' = cfg /\ opt' = opt
  BY <1>1 DEF slice
<1>3. /\ used_qp' = qp /\ penultimate_qp' = last_qp /\ last_qp' = next
      /\ qp' = pending_qp /\ pending_qp' = next
  BY <1>1 DEF ShiftQps
<1>4. opt.flat_restart = "in_flight" => last_qp = pending_qp /\ penultimate_qp = qp
  BY DEF Promises, QpCoherent
<1>5. QpCoherent'
  BY <1>2, <1>3, <1>4, Zenon DEF QpCoherent
<1>6. QueuedQpReproducible'
  <2> SUFFICES ASSUME opt'.flat_restart = "in_flight"
               PROVE  \E p \in ({used_qp} \cup (IF V12(cfg)
                              THEN {FourBelow(used_qp), VeryFlatQp(cfg)} ELSE {}))' :
                         pending_qp' = ShortTerm(cfg', opt', last_inputs', qp', p)
    BY Zenon DEF QueuedQpReproducible
  <2>1. last_qp = qp' /\ penultimate_qp = used_qp'
    BY <1>2, <1>3, <1>4, Zenon
  <2>2. pending_qp' = ShortTerm(cfg', opt', last_inputs', qp', used_qp')
    BY <1>1, <1>2, <1>3, <2>1, Zenon
  <2>3. used_qp' \in ({used_qp} \cup (IF V12(cfg)
                      THEN {FourBelow(used_qp), VeryFlatQp(cfg)} ELSE {}))'
    BY Zenon
  <2> QED BY <2>2, <2>3, Zenon
<1> QED BY <1>5, <1>6 DEF Promises

-----------------------------------------------------------------------------
(* The bit-save mode.                                                       *)

LEMMA StepKeepsMode ==
    ASSUME RcInv, ModeInv, NEW l \in Nat, NEW n, NEW g \in GroupReports, NEW left, NEW offset,
           NEW r, NEW computed, NEW next,
           StepTaken(l, n, g, left, offset, r, computed, next)
    PROVE  ModeInv'
<1> DEFINE m == [bit_save |-> bit_save, mpp_state |-> mpp_state]
           saved == NextMode(l, g)
<1>1. /\ cfg' = cfg /\ bit_save' = saved.bit_save /\ mpp_state' = saved.mpp_state
      /\ groups' = groups + 1
      /\ IF V12(cfg)
         THEN /\ step_group' = g /\ step_y' = l
              /\ step_bit_save' = bit_save /\ step_mpp_state' = mpp_state
              /\ mpp_groups' = IF l = 0 \/ g.flat THEN 0
                               ELSE IF g.mpp >= 3 THEN mpp_groups + 1 ELSE mpp_groups
         ELSE UNCHANGED step
  BY DEF StepTaken, slice
<1>2. /\ bit_save \in 0..2 /\ mpp_state \in 0..2 /\ mpp_groups \in Nat
      /\ (bit_save = 2 <=> mpp_state = 2) /\ mpp_state <= mpp_groups
      /\ g.mpp \in 0..4
  BY DEF RcInv, TypeOK, ModeInv, BitSaveFollowsMpp, MppCountedOnce, GroupReports
<1>3. CASE V12(cfg)
  <2>1. saved = BitSaveUpdate(cfg, opt, l, g, m, last_qp, qp)
    BY <1>3, Zenon DEF NextMode
  <2>2. m \in Modes /\ m.bit_save = bit_save /\ m.mpp_state = mpp_state
    BY <1>2 DEF Modes
  <2> HIDE DEF m, saved
  <2>3. /\ (m.bit_save = 2 <=> m.mpp_state = 2) => (saved.bit_save = 2 <=> saved.mpp_state = 2)
        /\ l = 0 \/ g.flat => saved.mpp_state = 0
        /\ saved.mpp_state <= m.mpp_state + (IF g.mpp >= 3 THEN 1 ELSE 0)
        /\ saved \in Modes
    BY <2>1, <2>2, BitSaveUpdateResult
  <2>4. saved.mpp_state \in 0..2
    BY <2>3 DEF Modes
  <2>5. BitSaveFollowsMpp'
    BY <1>1, <1>2, <2>2, <2>3, Zenon DEF BitSaveFollowsMpp
  <2>6. MppCountedOnce'
    BY <1>1, <1>2, <1>3, <2>2, <2>3, <2>4 DEF MppCountedOnce
  <2>7. step_bit_save' = 2 <=> step_mpp_state' = 2
    BY <1>1, <1>2, <1>3, Zenon
  <2>8. \/ step_y' = 0
        \/ step_group'.flat
        \/ step_mpp_state' + (IF step_group'.mpp >= 3 THEN 1 ELSE 0) <= mpp_groups'
    <3>1. CASE l = 0 \/ g.flat
      BY <1>1, <1>3, <3>1, Zenon
    <3>2. CASE ~(l = 0 \/ g.flat)
      <4>1. mpp_groups' = IF g.mpp >= 3 THEN mpp_groups + 1 ELSE mpp_groups
        BY <1>1, <1>3, <3>2, Zenon
      <4>2. step_mpp_state' = mpp_state /\ step_group' = g
        BY <1>1, <1>3, Zenon
      <4>3. mpp_state + (IF g.mpp >= 3 THEN 1 ELSE 0) <= mpp_groups'
        BY <1>2, <4>1
      <4> QED BY <4>2, <4>3, Zenon
    <3> QED BY <3>1, <3>2, Zenon
  <2> QED BY <2>5, <2>6, <2>7, <2>8, Zenon DEF ModeInv, RerunInv
<1>4. CASE ~V12(cfg)
  <2>1. bit_save' = bit_save /\ mpp_state' = mpp_state
    BY <1>1, <1>4 DEF NextMode
  <2>2. /\ step_bit_save' = step_bit_save /\ step_mpp_state' = step_mpp_state
        /\ mpp_groups' = mpp_groups
    BY <1>1, <1>4 DEF step
  <2>3. ~V12(cfg)'
    BY <1>1, <1>4
  <2> QED BY <2>1, <2>2, <2>3, Zenon
      DEF ModeInv, BitSaveFollowsMpp, MppCountedOnce, RerunInv
<1> QED BY <1>3, <1>4

LEMMA FlatKeepsMode ==
    ASSUME RcInv, ModeInv, NEW very, NEW line_start, NEW redo,
           FlatAdjusted(very, line_start, redo)
    PROVE  ModeInv'
<1> DEFINE master == FlatQp(very, line_start, qp)
           prev2  == RerunPrev2(very, line_start)
           redone == RerunMode(master, prev2)
           m      == [bit_save |-> step_bit_save, mpp_state |-> step_mpp_state]
           again  == BitSaveUpdate(cfg, opt, step_y, step_group, m, master, prev2)
<1>1. /\ bit_save' = redone.bit_save /\ mpp_state' = redone.mpp_state
      /\ UNCHANGED slice /\ UNCHANGED buffer /\ UNCHANGED step
  BY Zenon DEF FlatAdjusted
<1>2. /\ cfg' = cfg /\ groups' = groups /\ step_group' = step_group /\ step_y' = step_y
      /\ step_bit_save' = step_bit_save /\ step_mpp_state' = step_mpp_state
      /\ mpp_groups' = mpp_groups
  BY <1>1 DEF slice, buffer, step
<1>3. RerunInv'
  <2>1. RerunInv
    BY DEF ModeInv
  <2> QED BY <1>2, <2>1, Zenon DEF RerunInv
<1>4. (redone.bit_save = 2 <=> redone.mpp_state = 2) /\ redone.mpp_state <= mpp_groups
  <2>1. CASE V12(cfg) /\ opt.rerun_bitsave = "redo" /\ groups > 0
    <3>1. redone = again
      BY <2>1, Zenon DEF RerunMode
    <3>2. /\ m \in Modes /\ m.bit_save = step_bit_save /\ m.mpp_state = step_mpp_state
          /\ mpp_groups \in Nat
      BY DEF Modes, RcInv, TypeOK
    <3> HIDE DEF m, redone, again
    <3>3. /\ (m.bit_save = 2 <=> m.mpp_state = 2) => (again.bit_save = 2 <=> again.mpp_state = 2)
          /\ step_y = 0 \/ step_group.flat => again.mpp_state = 0
          /\ again.mpp_state <= m.mpp_state + (IF step_group.mpp >= 3 THEN 1 ELSE 0)
          /\ again \in Modes
      BY <3>2, BitSaveUpdateResult DEF again
    <3>4. /\ step_bit_save = 2 <=> step_mpp_state = 2
          /\ \/ step_y = 0
             \/ step_group.flat
             \/ step_mpp_state + (IF step_group.mpp >= 3 THEN 1 ELSE 0) <= mpp_groups
      BY <2>1 DEF ModeInv, RerunInv
    <3>5. again.bit_save = 2 <=> again.mpp_state = 2
      BY <3>2, <3>3, <3>4, Zenon
    <3>6. again.mpp_state <= mpp_groups
      <4>1. again.mpp_state \in 0..2 /\ step_mpp_state \in 0..2 /\ step_group.mpp \in 0..4
        BY <3>3 DEF Modes, RcInv, TypeOK, GroupReports
      <4>2. CASE step_y = 0 \/ step_group.flat
        BY <3>2, <3>3, <4>2
      <4>3. CASE ~(step_y = 0 \/ step_group.flat)
        BY <3>2, <3>3, <3>4, <4>1, <4>3
      <4> QED BY <4>2, <4>3
    <3> QED BY <3>1, <3>5, <3>6, Zenon
  <2>2. CASE ~(V12(cfg) /\ opt.rerun_bitsave = "redo" /\ groups > 0)
    <3>1. redone.bit_save = bit_save /\ redone.mpp_state = mpp_state
      BY <2>2 DEF RerunMode
    <3> HIDE DEF redone
    <3> QED BY <3>1, Zenon DEF ModeInv, BitSaveFollowsMpp, MppCountedOnce
  <2> QED BY <2>1, <2>2
<1> HIDE DEF redone
<1> QED BY <1>1, <1>2, <1>3, <1>4, Zenon DEF ModeInv, BitSaveFollowsMpp, MppCountedOnce

-----------------------------------------------------------------------------
(* The scale.                                                               *)

(* What a step does to the scale.                                           *)
ScaleMoves ==
    /\ scale' >= 8
    /\ increasing => increasing' /\ scale' >= scale
    /\ ~increasing /\ ~increasing' => scale' <= scale

LEMMA StepMovesScale ==
    ASSUME RcInv, ScaleInv, NEW l \in Nat, NEW n, NEW g, NEW left, NEW offset, NEW r,
           NEW computed, NEW next, StepTaken(l, n, g, left, offset, r, computed, next)
    PROVE  ScaleMoves /\ ScaleInv'
<1>1. /\ scale \in Nat /\ scale >= 8 /\ ~(increase_next /\ increasing)
      /\ increase_next \in BOOLEAN /\ increasing \in BOOLEAN
  BY DEF RcInv, TypeOK, ScaleInv
<1>2. /\ scale' = NextScale(l).scale /\ increasing' = NextScale(l).increasing
      /\ (increase_next' => ~NextScale(l).increasing)
  BY DEF StepTaken
<1>3. CASE increase_next
  <2>1. NextScale(l).scale = 9 /\ NextScale(l).increasing = TRUE
    BY <1>3 DEF NextScale
  <2> QED BY <1>1, <1>2, <1>3, <2>1 DEF ScaleMoves, ScaleInv
<1>4. CASE ~increase_next /\ increasing
  <2>1. NextScale(l).scale \in {scale, scale + 1} /\ NextScale(l).increasing = TRUE
    BY <1>4 DEF NextScale
  <2> HIDE DEF NextScale
  <2> QED BY <1>1, <1>2, <1>4, <2>1 DEF ScaleMoves, ScaleInv
<1>5. CASE ~increase_next /\ ~increasing
  <2>1. /\ NextScale(l).increasing = FALSE
        /\ \/ NextScale(l).scale = scale
           \/ NextScale(l).scale = scale - 1 /\ scale > 8
    BY <1>5 DEF NextScale, ScaleDecrements
  <2> QED BY <1>1, <1>2, <1>5, <2>1 DEF ScaleMoves, ScaleInv
<1> QED BY <1>3, <1>4, <1>5

-----------------------------------------------------------------------------
(* The offset's latch and the range that lags.                              *)

OffsetHolds == clamp_offset => clamp_offset' /\ offset_q11' <= FinalOffset

RangeMoves ==
    groups' > groups =>
      /\ range' = IF opt.rc_pipeline # "range_lag" THEN ModelRange'
                  ELSE IF groups = 0 THEN 0 ELSE ModelRange
      /\ last_inputs'.min_qp = cfg.range_min_qp[range']
      /\ last_inputs'.max_qp = cfg.range_max_qp[range']

LEMMA StepHoldsOffset ==
    ASSUME RcInv, NEW l \in Nat, NEW n, NEW g, NEW left, NEW offset, NEW r,
           NEW computed, NEW next, StepTaken(l, n, g, left, offset, r, computed, next)
    PROVE  OffsetHolds /\ LatchInv'
<1> DEFINE m == offset_q11 + StartAdjustment + OffsetDelta(l, n)
<1>1. /\ n \in 1..3 /\ clamp_offset \in BOOLEAN /\ offset_q11 \in Int /\ pixels \in Nat
      /\ delay_group_end \in Nat /\ RcAccepts(cfg)
  BY RcAccepted DEF StepTaken, RcInv, TypeOK
<1>2. /\ offset_q11' = NextOffset(l, n).q11 /\ clamp_offset' = NextOffset(l, n).clamp
      /\ UNCHANGED slice
  BY Zenon DEF StepTaken
<1>3. NextOffset(l, n).q11 \in Int
  BY <1>1, NextOffsetType
<1>4. FinalOffset \in Int /\ FinalOffset' = FinalOffset
  BY <1>1, <1>2, ConfigTypes DEF FinalOffset, slice
<1>5. /\ clamp_offset' = (clamp_offset \/ m < FinalOffset)
      /\ offset_q11' = IF clamp_offset' /\ m > FinalOffset THEN FinalOffset ELSE m
  BY <1>2, Zenon DEF NextOffset
<1> HIDE DEF m
<1>6. clamp_offset' => offset_q11' <= FinalOffset
  BY <1>2, <1>3, <1>4, <1>5
<1> QED BY <1>1, <1>4, <1>5, <1>6 DEF OffsetHolds, LatchInv

LEMMA StepLagsRange ==
    ASSUME RcInv, LagInv, NEW l \in Nat, NEW n, NEW g, NEW left, NEW offset, NEW r,
           NEW computed, NEW next, StepTaken(l, n, g, left, offset, r, computed, next)
    PROVE  RangeMoves /\ LagInv'
<1>1. /\ groups' = groups + 1 /\ range' = r /\ r = RangeUsed(computed)
      /\ lag_range' = IF opt.rc_pipeline = "range_lag" THEN computed ELSE lag_range
      /\ computed = RangeOf(((left + offset) * scale') \div 8)
      /\ last_inputs' = GroupInputs(l, n, g, left, offset, r, NextMode(l, g))
      /\ UNCHANGED slice
  BY Zenon DEF StepTaken
<1>2. groups \in Nat /\ cfg' = cfg /\ opt' = opt
  BY <1>1 DEF RcInv, TypeOK, slice
<1>3. /\ last_inputs'.model = left + offset
      /\ last_inputs'.min_qp = cfg.range_min_qp[r] /\ last_inputs'.max_qp = cfg.range_max_qp[r]
  BY <1>1 DEF GroupInputs
<1>4. ModelRange' = computed
  <2>1. ModelRange' = RangeOf((last_inputs'.model * scale') \div 8)
    BY <1>2 DEF ModelRange, RangeOf
  <2> QED BY <1>1, <1>3, <2>1
<1>5. groups' # 0
  BY <1>1, <1>2
<1>6. LagInv'
  BY <1>1, <1>2, <1>4, <1>5 DEF LagInv
<1>7. range' = IF opt.rc_pipeline # "range_lag" THEN ModelRange'
               ELSE IF groups = 0 THEN 0 ELSE ModelRange
  BY <1>1, <1>4, Zenon DEF LagInv, RangeUsed
<1> QED BY <1>1, <1>3, <1>6, <1>7, Zenon DEF RangeMoves

-----------------------------------------------------------------------------
(* Together.                                                                *)

Moves == ScaleMoves /\ OffsetHolds /\ RangeMoves

LEMMA SafeInvInit == RcInit => SafeInv
<1> SUFFICES ASSUME RcInit PROVE SafeInv
  OBVIOUS
<1>1. RcInv
  BY RcInvInit
<1>2. DeadFailures
  BY DEF RcInit, DeadFailures
<1>3. Promises
  BY DEF RcInit, Promises, QpCoherent, QueuedQpReproducible
<1>4. ModeInv
  BY DEF RcInit, ModeInv, BitSaveFollowsMpp, MppCountedOnce, RerunInv
<1>5. ScaleInv
  <2>1. RcAccepts(cfg)
    BY <1>1, RcAccepted
  <2>2. cfg.initial_scale_value \in 8..63
    BY <2>1, Zenon DEF RcAccepts
  <2> QED BY <2>2 DEF RcInit, ScaleInv
<1>6. LagInv /\ LatchInv
  BY DEF RcInit, LagInv, LatchInv
<1> QED BY <1>1, <1>2, <1>3, <1>4, <1>5, <1>6 DEF SafeInv

(* A call that fails, adjusts nothing or changes nothing at all leaves all  *)
(* that the promises are about.                                             *)
Aside == <<slice, buffer, model, scaling, qps, ranges, inputs, mode, step>>

(* The range that is kept and the model that it is of, and the offset.      *)
LEMMA LagLatchKept ==
    ASSUME RcInv, LagInv, LatchInv, UNCHANGED <<slice, buffer, model, scaling, ranges>>,
           last_inputs'.model = last_inputs.model
    PROVE  LagInv' /\ LatchInv' /\ OffsetHolds /\ RangeMoves
<1>1. /\ cfg' = cfg /\ opt' = opt /\ groups' = groups /\ groups \in Nat
      /\ offset_q11' = offset_q11 /\ clamp_offset' = clamp_offset
      /\ scale' = scale /\ lag_range' = lag_range
  BY DEF slice, buffer, model, scaling, ranges, RcInv, TypeOK
<1>2. ModelRange' = ModelRange
  BY <1>1 DEF ModelRange, RangeOf
<1>3. FinalOffset' = FinalOffset
  BY <1>1 DEF FinalOffset
<1>4. LagInv'
  BY <1>1, <1>2 DEF LagInv
<1>5. LatchInv' /\ OffsetHolds
  BY <1>1, <1>3 DEF LatchInv, OffsetHolds
<1>6. RangeMoves
  BY <1>1 DEF RangeMoves
<1> QED BY <1>4, <1>5, <1>6

LEMMA AsideKeepsParts ==
    ASSUME RcInv, Promises, ModeInv, ScaleInv, LagInv, LatchInv, UNCHANGED Aside
    PROVE  /\ Promises' /\ ModeInv' /\ ScaleInv' /\ LagInv' /\ LatchInv'
           /\ Moves
<1>1. /\ UNCHANGED slice /\ UNCHANGED buffer /\ UNCHANGED model /\ UNCHANGED scaling
      /\ UNCHANGED qps /\ UNCHANGED ranges /\ UNCHANGED inputs /\ UNCHANGED mode
      /\ UNCHANGED step
  BY DEF Aside
<1>2. Promises'
  BY <1>1 DEF Promises, QpCoherent, QueuedQpReproducible, slice, buffer, qps, inputs
<1>3. ModeInv'
  BY <1>1 DEF ModeInv, BitSaveFollowsMpp, MppCountedOnce, RerunInv, slice, buffer, mode, step
<1>4. scale' = scale /\ increasing' = increasing /\ increase_next' = increase_next
  BY <1>1 DEF scaling
<1>5. ScaleMoves /\ ScaleInv'
  <2>1. scale \in Nat /\ scale >= 8
    BY DEF RcInv, TypeOK, ScaleInv
  <2> QED BY <1>4, <2>1 DEF ScaleMoves, ScaleInv
<1>6. LagInv' /\ LatchInv' /\ OffsetHolds /\ RangeMoves
  BY <1>1, LagLatchKept DEF inputs
<1> QED BY <1>2, <1>3, <1>5, <1>6 DEF Moves

LEMMA CallKeepsSafe ==
    ASSUME SafeInv, NEW line \in Nat, RcCall(line)
    PROVE  SafeInv' /\ Moves
<1>1. RcInv /\ DeadFailures /\ Promises /\ ModeInv /\ ScaleInv /\ LagInv /\ LatchInv
  BY DEF SafeInv
<1>2. RcInv'
  BY <1>1, CallKeepsInv
<1>3. ASSUME UNCHANGED Aside, DeadFailures' PROVE SafeInv' /\ Moves
  BY <1>1, <1>2, <1>3, AsideKeepsParts DEF SafeInv
<1>4. CASE FlatNotAdjusted
  <2>1. UNCHANGED Aside /\ failed' = failed
    BY <1>4 DEF FlatNotAdjusted, Aside
  <2>2. DeadFailures'
    BY <1>1, <2>1 DEF DeadFailures
  <2> QED BY <1>3, <2>1, <2>2
<1>5. CASE \E very, line_start \in BOOLEAN, redo \in QpRange : FlatAdjusted(very, line_start, redo)
  <2>1. PICK very, line_start \in BOOLEAN, redo \in QpRange : FlatAdjusted(very, line_start, redo)
    BY <1>5
  <2>2. Promises' /\ ModeInv'
    BY <1>1, <2>1, FlatKeepsPromises, FlatKeepsMode
  <2>3. UNCHANGED <<slice, failed, buffer, model, scaling, ranges>>
    BY <2>1, Zenon DEF FlatAdjusted
  <2>4. scale' = scale /\ increasing' = increasing /\ increase_next' = increase_next
    BY <2>3 DEF scaling
  <2>5. ScaleMoves /\ ScaleInv'
    <3>1. scale \in Nat /\ scale >= 8
      BY <1>1 DEF RcInv, TypeOK, ScaleInv
    <3> QED BY <1>1, <2>4, <3>1 DEF ScaleMoves, ScaleInv
  <2>6. DeadFailures'
    BY <1>1, <2>3 DEF DeadFailures
  <2>7. last_inputs'.model = last_inputs.model
    <3>1. last_inputs \in Inputs
      BY <1>1 DEF RcInv, TypeOK
    <3>2. PICK saved : last_inputs' = [last_inputs EXCEPT !.bit_save = saved]
      BY <2>1, Zenon DEF FlatAdjusted
    <3> QED BY <3>1, <3>2 DEF Inputs
  <2>8. LagInv' /\ LatchInv' /\ OffsetHolds /\ RangeMoves
    BY <1>1, <2>3, <2>7, LagLatchKept
  <2> QED BY <1>2, <2>2, <2>5, <2>6, <2>8 DEF SafeInv, Moves
<1>6. CASE \E reason \in Reasons \ {"removal", "qp"} : Fail(reason)
  <2>1. PICK reason \in Reasons \ {"removal", "qp"} : Fail(reason)
    BY <1>6
  <2>2. UNCHANGED Aside /\ failed' = reason
    BY <2>1 DEF Fail, Aside
  <2>3. DeadFailures'
    BY <2>2 DEF DeadFailures
  <2> QED BY <1>3, <2>2, <2>3
<1>7. CASE \E n \in Nat, g \in GroupReports, left \in Nat, offset \in Int, r, computed \in 0..14,
             next \in QpRange :
            StepTaken(line, n, g, left, offset, r, computed, next)
  <2>1. PICK n \in Nat, g \in GroupReports, left \in Nat, offset \in Int, r, computed \in 0..14,
             next \in QpRange : StepTaken(line, n, g, left, offset, r, computed, next)
    BY <1>7, Zenon
  <2>2. Promises'
    BY <1>1, <2>1, StepKeepsPromises
  <2>3. ModeInv'
    BY <1>1, <2>1, StepKeepsMode
  <2>4. ScaleMoves /\ ScaleInv'
    BY <1>1, <2>1, StepMovesScale
  <2>5. OffsetHolds /\ LatchInv'
    BY <1>1, <2>1, StepHoldsOffset
  <2>6. RangeMoves /\ LagInv'
    BY <1>1, <2>1, StepLagsRange
  <2>7. DeadFailures'
    <3>1. failed' = failed
      BY <2>1, Zenon DEF StepTaken
    <3> QED BY <1>1, <3>1 DEF DeadFailures
  <2> QED BY <1>2, <2>2, <2>3, <2>4, <2>5, <2>6, <2>7 DEF SafeInv, Moves
<1> QED BY <1>4, <1>5, <1>6, <1>7, Zenon DEF RcCall

LEMMA StutterKeepsSafe ==
    ASSUME SafeInv, UNCHANGED rc_vars
    PROVE  SafeInv'
<1>1. RcInv /\ DeadFailures /\ Promises /\ ModeInv /\ ScaleInv /\ LagInv /\ LatchInv
  BY DEF SafeInv
<1>2. UNCHANGED Aside /\ failed' = failed
  BY DEF rc_vars, Aside
<1>3. Promises' /\ ModeInv' /\ ScaleInv' /\ LagInv' /\ LatchInv'
  BY <1>1, <1>2, AsideKeepsParts
<1>4. RcInv' /\ DeadFailures'
  BY <1>1, <1>2, StutterKeepsInv DEF DeadFailures
<1> QED BY <1>3, <1>4 DEF SafeInv

LEMMA SafeInvStep ==
    ASSUME SafeInv, [RcNext]_rc_vars
    PROVE  SafeInv' /\ [Moves]_rc_vars
<1>1. CASE UNCHANGED rc_vars
  BY <1>1, StutterKeepsSafe
<1>2. CASE RcNext
  <2>1. RcInv
    BY DEF SafeInv
  <2> QED BY <1>2, <2>1, NextIsCall, CallKeepsSafe, Zenon
<1> QED BY <1>1, <1>2

LEMMA AlwaysSafe == RcSpec => []SafeInv
<1>1. SafeInv /\ [RcNext]_rc_vars => SafeInv'
  BY SafeInvStep
<1> QED BY <1>1, SafeInvInit, PTL DEF RcSpec

(* Two failure returns of the rate control are dead: in every reading,      *)
(* whatever the caller does, chunk padding is possible and the next QP is   *)
(* on the scale (rate_control.c:303, 339, 650).                             *)
THEOREM FailuresAreDead == RcSpec => []DeadFailures
<1>1. SafeInv => DeadFailures
  BY DEF SafeInv
<1> QED BY <1>1, AlwaysSafe, PTL

(* However steps and overrides alternate, the short-term rate control reads *)
(* the queued QP and the current group's QP as its previous QPs (in-flight  *)
(* reading, rate_control.c:302).                                            *)
THEOREM PipelineCoherent == RcSpec => []QpCoherent
<1>1. SafeInv => QpCoherent
  BY DEF SafeInv, Promises
<1> QED BY <1>1, AlwaysSafe, PTL

(* The queued QP is always the result of the inputs kept from the last step *)
(* from the current group's QP, so that a re-run replaces nothing but the   *)
(* starting QP (rate_control.c:280-294).                                    *)
THEOREM RerunsReproduce == RcSpec => []QueuedQpReproducible
<1>1. SafeInv => QueuedQpReproducible
  BY DEF SafeInv, Promises
<1> QED BY <1>1, AlwaysSafe, PTL

(* In the range-lag reading a group's QP is limited by the range that the   *)
(* model had after the group before, whatever is re-run in between (OQ-11,  *)
(* rate_control.c:583-600).                                                 *)
THEOREM LagIsOneGroup == RcSpec => RangesLag
<1>1. SafeInv /\ [RcNext]_rc_vars => [Moves]_rc_vars
  BY SafeInvStep
<1>2. [Moves]_rc_vars =>
        [groups' > groups =>
           /\ range' = IF opt.rc_pipeline # "range_lag" THEN ModelRange'
                       ELSE IF groups = 0 THEN 0 ELSE ModelRange
           /\ last_inputs'.min_qp = cfg.range_min_qp[range']
           /\ last_inputs'.max_qp = cfg.range_max_qp[range']]_rc_vars
  BY Zenon DEF Moves, RangeMoves
<1> QED BY <1>1, <1>2, AlwaysSafe, PTL DEF RcSpec, RangesLag

(* No re-run counts the MPP group of the last step again (OQ-32).           *)
THEOREM MppGroupsCountedOnce == RcSpec => []MppCountedOnce
<1>1. SafeInv => MppCountedOnce
  BY DEF SafeInv, ModeInv
<1> QED BY <1>1, AlwaysSafe, PTL

(* The scale never falls below unity, turns once and then only rises; the   *)
(* offset never rises above its final value again (rate_control.c:479-500,  *)
(* 543-548).                                                                *)
THEOREM TurnsOnce == RcSpec => OneWay
<1>1. SafeInv /\ [RcNext]_rc_vars => [Moves]_rc_vars
  BY SafeInvStep
<1>2. [Moves]_rc_vars =>
        [/\ scale' >= 8
         /\ increasing => increasing' /\ scale' >= scale
         /\ ~increasing /\ ~increasing' => scale' <= scale
         /\ clamp_offset => clamp_offset' /\ offset_q11' <= FinalOffset]_rc_vars
  BY Zenon DEF Moves, ScaleMoves, OffsetHolds
<1> QED BY <1>1, <1>2, AlwaysSafe, PTL DEF RcSpec, OneWay

-----------------------------------------------------------------------------
(* Arithmetic of the loops.                                                 *)

(* The pixels before column x of line y, and the n pixels from there: they  *)
(* are within the slice, and the last of a line start the next line.        *)
LEMMA Position ==
    ASSUME NEW w \in Nat \ {0}, NEW h \in Nat, NEW y1 \in Nat, NEW x1 \in 0 .. w - 1,
           NEW n \in 1..3, NEW p \in Nat, p = y1 * w + x1, y1 < h, x1 + n <= w
    PROVE  /\ p + n <= w * h
           /\ (p \div w) = y1 /\ (p % w) = x1
           /\ x1 + n < w => p + n = y1 * w + (x1 + n)
           /\ x1 + n = w => p + n = (y1 + 1) * w + 0
<1> DEFINE yw == y1 * w
           hw == w * h
<1>1. (y1 + 1) * w = yw + w /\ yw \in Nat /\ hw \in Nat
  OBVIOUS
<1>2. yw + w <= hw
  <2>1. h - y1 - 1 \in Nat
    OBVIOUS
  <2>2. (h - y1 - 1) * w >= 0
    BY <2>1
  <2>3. (h - y1 - 1) * w = hw - yw - w
    OBVIOUS
  <2> QED BY <1>1, <2>2, <2>3
<1>3. (p \div w) = y1 /\ (p % w) = x1
  BY Quotient
<1>4. p = yw + x1
  OBVIOUS
<1> HIDE DEF yw, hw
<1>5. p + n <= hw
  BY <1>1, <1>2, <1>4
<1>6. x1 + n < w => p + n = yw + (x1 + n)
  BY <1>1, <1>4
<1>7. x1 + n = w => p + n = yw + w + 0
  BY <1>1, <1>4
<1> QED BY <1>1, <1>3, <1>5, <1>6, <1>7 DEF yw, hw

-----------------------------------------------------------------------------
(* What a call of the rate control leaves to its caller.                    *)

LEMMA FlatCallKeeps ==
    ASSUME RcInv, NEW flat, NEW very, NEW line_start, ApplyFlatLine(flat, very, line_start)
    PROVE  /\ failed = "no" /\ failed' = "no"
           /\ UNCHANGED <<slice, buffer, model>>
           /\ last_inputs'.actual = last_inputs.actual
<1>1. failed = "no"
  BY Zenon DEF ApplyFlatLine
<1>2. last_inputs \in Inputs
  BY DEF RcInv, TypeOK
<1>3. CASE FlatNotAdjusted
  <2>1. UNCHANGED <<slice, failed, buffer, model, inputs>>
    BY <1>3 DEF FlatNotAdjusted
  <2> QED BY <1>1, <2>1 DEF inputs
<1>4. CASE \E redo \in QpRange : FlatAdjusted(very, line_start, redo)
  <2>1. UNCHANGED <<slice, failed, buffer, model>>
    BY <1>4, Zenon DEF FlatAdjusted
  <2>2. PICK saved : last_inputs' = [last_inputs EXCEPT !.bit_save = saved]
    BY <1>4, Zenon DEF FlatAdjusted
  <2>3. last_inputs'.actual = last_inputs.actual
    BY <1>2, <2>2 DEF Inputs
  <2> QED BY <1>1, <2>1, <2>3
<1> QED BY <1>3, <1>4, FlatCases

(* A step fails and changes nothing else, or its arguments were accepted,   *)
(* the group fitted the buffer and the bits of its pixels were taken.       *)
LEMMA StepChecked ==
    ASSUME RcInv, NEW line \in Nat, NEW groupnum, NEW n, NEW g \in GroupReports,
           StepGroup(line, groupnum, n, g)
    PROVE  /\ failed = "no"
           /\ ArgumentsOk(line, groupnum, n, g) => failed' # "arguments"
           /\ failed' # "no" => UNCHANGED <<slice, buffer, model, inputs>>
           /\ failed' = "no" =>
                /\ ArgumentsOk(line, groupnum, n, g)
                /\ ~(fullness + g.actual > BufferSize(cfg))
                /\ drain' = DrainGroup(n, opt.frac_reset, drain)
                /\ fullness' = (fullness + g.actual) - (drain'.removed - drain.removed)
                /\ fullness' \in Nat
                /\ pixels' = pixels + n /\ groups' = groups + 1
                /\ last_inputs'.actual = g.actual
                /\ offset_q11' = NextOffset(line, n).q11
                /\ clamp_offset' = NextOffset(line, n).clamp
                /\ delay_group_end' = pixels + 3
                /\ UNCHANGED slice
<1>1. failed = "no"
  BY Zenon DEF StepGroup
<1>2. CASE \E reason \in Reasons \ {"removal", "qp"} :
             Fail(reason) /\ (reason = "arguments" => ~ArgumentsOk(line, groupnum, n, g))
  <2>1. PICK reason \in Reasons :
               Fail(reason) /\ (reason = "arguments" => ~ArgumentsOk(line, groupnum, n, g))
    BY <1>2
  <2>2. failed' = reason /\ UNCHANGED <<slice, buffer, model, inputs>> /\ reason # "no"
    BY <2>1 DEF Fail, Reasons
  <2> QED BY <1>1, <2>1, <2>2
<1>3. CASE \E left \in Nat, offset \in Int, r, computed \in 0..14, next \in QpRange :
             /\ StepTaken(line, n, g, left, offset, r, computed, next)
             /\ ArgumentsOk(line, groupnum, n, g)
             /\ ~(fullness + g.actual > BufferSize(cfg))
             /\ left = (fullness + g.actual) - (drain'.removed - drain.removed)
  <2>1. PICK left \in Nat, offset \in Int, r \in 0..14, computed \in 0..14, next \in QpRange :
               /\ StepTaken(line, n, g, left, offset, r, computed, next)
               /\ ArgumentsOk(line, groupnum, n, g)
               /\ ~(fullness + g.actual > BufferSize(cfg))
               /\ left = (fullness + g.actual) - (drain'.removed - drain.removed)
    BY <1>3
  <2>2. /\ fullness' = left /\ pixels' = pixels + n /\ groups' = groups + 1
        /\ drain' = DrainGroup(n, opt.frac_reset, drain)
        /\ last_inputs' = GroupInputs(line, n, g, left, offset, r, NextMode(line, g))
        /\ offset_q11' = NextOffset(line, n).q11 /\ clamp_offset' = NextOffset(line, n).clamp
        /\ delay_group_end' = pixels + 3
        /\ UNCHANGED <<slice, failed>>
    BY <2>1, Zenon DEF StepTaken
  <2>3. last_inputs'.actual = g.actual
    BY <2>2 DEF GroupInputs
  <2>4. fullness' \in Nat
    BY <2>2, SMTT(30)
  <2> QED BY <1>1, <2>1, <2>2, <2>3, <2>4
<1> QED BY <1>2, <1>3, StepCases

-----------------------------------------------------------------------------
(* The loops and the ways out of them: where the decoder is in the slice is *)
(* what the rate control has counted, and the slice has failed exactly when *)
(* it says so.                                                              *)
LoopInv ==
    /\ phase \in {"flat", "syntax", "step", "tail", "done"}
    /\ status \in Statuses \cup {"decoding"}
    /\ phase = "done" <=> status # "decoding"
    /\ failed # "no" <=> status = "rate_control"
    /\ failed # "arguments"
    /\ x \in 0 .. cfg.slice_width - 1 /\ y \in 0 .. cfg.slice_height /\ gn \in Nat
    /\ phase # "done" => gn = groups /\ pixels = y * cfg.slice_width + x
    /\ phase \in {"flat", "syntax", "step"} => y < cfg.slice_height
    /\ phase = "tail" => y = cfg.slice_height /\ x = 0
    /\ status = "ok" => pixels = cfg.slice_width * cfg.slice_height
    /\ report \in GroupReports

LEMMA SliceSize ==
    ASSUME RcInv
    PROVE  cfg.slice_width \in Nat \ {0} /\ cfg.slice_height \in Nat \ {0}
BY RcAccepted DEF RcAccepts, ValidChunk

LEMMA BufferTerms ==
    ASSUME RcInv
    PROVE  /\ cfg.initial_xmit_delay \in Nat /\ cfg.initial_dec_delay \in Nat
           /\ cfg.bits_per_pixel \in Nat
<1>1. RcAccepts(cfg) /\ ValidChunk(cfg)
  BY RcAccepted
<1>2. cfg.initial_xmit_delay \in Nat /\ cfg.bits_per_pixel \in 1..1023
  BY <1>1, Zenon DEF ValidChunk
<1>3. cfg.initial_dec_delay \in Nat
  BY <1>1, Zenon DEF RcAccepts
<1> QED BY <1>2, <1>3, SMTT(30)

LEMMA LoopInvInit == ASSUME Init, RcInv PROVE LoopInv
<1>1. cfg.slice_width \in Nat \ {0} /\ cfg.slice_height \in Nat \ {0}
  BY SliceSize
<1>2. NoGroup \in GroupReports
  BY DEF NoGroup, GroupReports
<1>3. 0 * cfg.slice_width + 0 = 0
  BY <1>1
<1>4. failed = "no" /\ pixels = 0 /\ groups = 0
  BY DEF Init, RcInit
<1> QED BY <1>1, <1>2, <1>3, <1>4 DEF Init, LoopInv, Statuses

(* An end that does not concern the rate control.                           *)
LEMMA FinishKeepsLoop ==
    ASSUME LoopInv, NEW s \in {"ok", "truncated", "bitstream"}, Finish(s), phase # "done",
           s = "ok" => pixels = cfg.slice_width * cfg.slice_height,
           UNCHANGED <<cfg, failed, pixels, position, report>>
    PROVE  LoopInv'
BY DEF LoopInv, Finish, Statuses, position

LEMMA GroupArguments ==
    ASSUME RcInv, LoopInv, phase = "step"
    PROVE  /\ Count \in 1..3
           /\ x + Count = cfg.slice_width \/ (Count = 3 /\ x + 3 < cfg.slice_width)
           /\ ArgumentsOk(y, gn, Count, report)
<1> DEFINE w == cfg.slice_width
           h == cfg.slice_height
           n == Count
<1>1. w \in Nat \ {0} /\ h \in Nat
  BY SliceSize
<1>2. /\ y \in Nat /\ y < h /\ x \in 0 .. w - 1 /\ pixels \in Nat
      /\ pixels = y * w + x /\ gn = groups
  BY <1>1 DEF LoopInv, RcInv, TypeOK
<1>3. n \in 1..3 /\ (x + n = w \/ (n = 3 /\ x + 3 < w))
  <2>1. n = IF w - x < 3 THEN w - x ELSE 3
    BY DEF Count, UMin
  <2> HIDE DEF w, n
  <2> QED BY <1>1, <1>2, <2>1
<1>4. report.actual <= 512 /\ report.ideal <= 512
  BY DEF LoopInv, GroupReports
<1> HIDE DEF w, h, n
<1>5. pixels + n <= w * h /\ (pixels \div w) = y /\ (pixels % w) = x
  <2>1. x + n <= w
    BY <1>1, <1>2, <1>3
  <2> QED BY <1>1, <1>2, <1>3, <2>1, Position
<1>6. (pixels % w) + n <= w
  BY <1>1, <1>2, <1>3, <1>5
<1> QED BY <1>2, <1>3, <1>4, <1>5, <1>6 DEF ArgumentsOk, w, h, n

-----------------------------------------------------------------------------
(* The flatness signalling.                                                 *)

FlatTypes ==
    /\ flat_flag \in BOOLEAN /\ flat_type \in BOOLEAN /\ flat_group \in Nat \cup {-1}
    /\ sg_flag \in BOOLEAN /\ prev_flag \in BOOLEAN
    /\ signalled \subseteq FlatSignals /\ applied \subseteq FlatSignals

(* The groups whose flatness has been applied, and those that are parsed.   *)
Adjusted == IF phase \in {"syntax", "step"} THEN gn + 1 ELSE gn
Parsed   == IF phase = "step" THEN gn + 1 ELSE gn

SupergroupStart(m) == 4 * ((m - 1) \div 4) + 1

SignalledIn(first) == \E s \in signalled : s.group \in first .. first + 3

(* At most one signalled group waits to be adjusted, and the position and   *)
(* the type kept are its own: a position is only read when the groups of    *)
(* the last one have been adjusted. The flag read last tells of the         *)
(* supergroup that its position falls in.                                   *)
FlatInv ==
    /\ FlatTypes
    /\ phase # "done" =>
         /\ applied = {s \in signalled : s.group < Adjusted}
         /\ \A s \in signalled :
              s.group >= Adjusted => s.group = flat_group /\ s.very = flat_type
         /\ flat_group # -1 => [group |-> flat_group, very |-> flat_type] \in signalled
         /\ \A s \in signalled : s.group <= 4 * ((Parsed + 3) \div 4)
         /\ Parsed % 4 = 1 => (flat_flag <=> SignalledIn(Parsed))
         /\ Parsed > 1 => (sg_flag <=> SignalledIn(SupergroupStart(Parsed - 1)))

LEMMA FlatInvInit == Init => FlatInv
<1> SUFFICES ASSUME Init PROVE FlatInv
  OBVIOUS
<1>1. /\ signalled = {} /\ applied = {} /\ flat_group = -1
      /\ flat_flag = FALSE /\ flat_type = FALSE /\ sg_flag = FALSE /\ prev_flag = FALSE
  BY DEF Init
<1>2. Parsed = 0 /\ Adjusted = 0
  BY DEF Init, Parsed, Adjusted
<1>3. FlatTypes
  BY <1>1 DEF FlatTypes
<1> QED BY <1>1, <1>2, <1>3 DEF FlatInv

(* dsc_rc_apply_flat_line takes what waits for this group.                  *)
LEMMA ApplyKeepsFlat ==
    ASSUME FlatInv, LoopInv, phase = "flat", phase' = "syntax",
           applied' = IF flat_group = gn
                      THEN applied \cup {[group |-> gn, very |-> flat_type]} ELSE applied,
           UNCHANGED <<position, syntax_state, signalled>>
    PROVE  FlatInv'
<1>1. /\ FlatTypes /\ gn \in Nat /\ phase # "done"
      /\ applied = {s \in signalled : s.group < gn}
      /\ \A s \in signalled : s.group >= gn => s.group = flat_group /\ s.very = flat_type
      /\ flat_group # -1 => [group |-> flat_group, very |-> flat_type] \in signalled
      /\ Adjusted' = gn + 1 /\ Parsed' = Parsed /\ signalled' = signalled
  BY DEF FlatInv, LoopInv, Adjusted, Parsed, position
<1>2. UNCHANGED <<gn, flat_flag, flat_type, flat_group, sg_flag, prev_flag>>
  BY DEF position, syntax_state
<1>3. applied' = {s \in signalled : s.group < gn + 1}
  <2>1. ASSUME NEW s \in applied' PROVE s \in signalled /\ s.group < gn + 1
    <3>1. CASE s \in applied
      BY <1>1, <3>1 DEF FlatTypes, FlatSignals
    <3>2. CASE flat_group = gn /\ s = [group |-> gn, very |-> flat_type]
      BY <1>1, <3>2 DEF FlatTypes, FlatSignals
    <3> QED BY <2>1, <3>1, <3>2
  <2>2. ASSUME NEW s \in signalled, s.group < gn + 1 PROVE s \in applied'
    <3>1. s \in FlatSignals
      BY <1>1, <2>2 DEF FlatTypes
    <3>2. CASE s.group < gn
      BY <1>1, <2>2, <3>2
    <3>3. CASE ~(s.group < gn)
      <4>1. s.group = gn /\ flat_group = gn /\ s.very = flat_type
        BY <1>1, <2>2, <3>1, <3>3 DEF FlatSignals
      <4>2. s = [group |-> gn, very |-> flat_type]
        BY <3>1, <4>1 DEF FlatSignals
      <4> QED BY <4>1, <4>2
    <3> QED BY <3>2, <3>3
  <2> QED BY <2>1, <2>2
<1>4. FlatTypes'
  BY <1>1, <1>2, <1>3 DEF FlatTypes
<1>5. \A s \in signalled : s.group >= gn + 1 => s.group = flat_group /\ s.very = flat_type
  BY <1>1 DEF FlatTypes, FlatSignals
<1> QED BY <1>1, <1>2, <1>3, <1>4, <1>5 DEF FlatInv, SignalledIn, SupergroupStart

(* What syntax() reads, at each place of a group in its supergroup: the     *)
(* position of the next flat group, the flag that is taken over, the flag.  *)
LEMMA SyntaxReads ==
    ASSUME FlatTypes, gn \in Nat, Syntax
    PROVE  /\ FlatTypes'
           /\ report' \in GroupReports
           /\ phase' = "step" /\ gn' = gn
           /\ UNCHANGED <<rc_vars, status, position, applied>>
           /\ sg_flag' = IF gn % 4 = 1 THEN flat_flag ELSE sg_flag
           /\ gn % 4 # 3 => flat_flag' = flat_flag
           /\ \/ /\ gn % 4 = 0 /\ flat_flag
                 /\ flat_group' \in gn + 1 .. gn + 4
                 /\ signalled' = signalled \cup {[group |-> flat_group', very |-> flat_type']}
              \/ /\ ~(gn % 4 = 0 /\ flat_flag)
                 /\ UNCHANGED <<flat_group, flat_type, signalled>>
<1>1. /\ phase' = "step"
      /\ UNCHANGED <<rc_vars, status, position, applied>>
      /\ prev_flag' = flat_flag /\ sg_flag' = SgFlagRead
  BY DEF Syntax
<1>2. PICK flag \in BOOLEAN : flat_flag' = FlatFlagRead(flag)
  BY Zenon DEF Syntax
<1>3. PICK type \in BOOLEAN : flat_type' = FlatTypeRead(type)
  BY Zenon DEF Syntax
<1>4. IF CarriesPosition
      THEN /\ \E v \in 0..3 : flat_group' = gn + 1 + v
           /\ signalled' = signalled \cup {[group |-> flat_group', very |-> flat_type']}
      ELSE UNCHANGED <<flat_group, signalled>>
  BY Zenon DEF Syntax
<1>5. PICK g \in Reports : report' = [g EXCEPT !.flat = ReportedFlat]
  BY Zenon DEF Syntax
<1>6. flat_flag' \in BOOLEAN /\ (gn % 4 # 3 => flat_flag' = flat_flag)
  BY <1>2 DEF FlatTypes, FlatFlagRead, CarriesFlag
<1>7. /\ flat_type' \in BOOLEAN
      /\ ~(gn % 4 = 0 /\ flat_flag) => flat_type' = flat_type
  BY <1>3 DEF FlatTypes, FlatTypeRead, CarriesPosition
<1>8. sg_flag' \in BOOLEAN /\ prev_flag' \in BOOLEAN
      /\ sg_flag' = IF gn % 4 = 1 THEN flat_flag ELSE sg_flag
  BY <1>1 DEF FlatTypes, SgFlagRead
<1>9. report' \in GroupReports
  <2>1. ReportedFlat \in BOOLEAN
    BY <1>1, <1>6, <1>8 DEF ReportedFlat, FlatTypes
  <2>2. g \in GroupReports
    BY ReportsAssumption
  <2> QED BY <1>5, <2>1, <2>2 DEF GroupReports
<1>10. CASE gn % 4 = 0 /\ flat_flag
  <2>1. /\ flat_group' \in gn + 1 .. gn + 4
        /\ signalled' = signalled \cup {[group |-> flat_group', very |-> flat_type']}
    BY <1>4, <1>10 DEF CarriesPosition
  <2>2. FlatTypes'
    BY <1>1, <1>6, <1>7, <1>8, <2>1 DEF FlatTypes, FlatSignals
  <2> QED BY <1>1, <1>6, <1>8, <1>9, <1>10, <2>1, <2>2 DEF position
<1>11. CASE ~(gn % 4 = 0 /\ flat_flag)
  <2>1. UNCHANGED <<flat_group, signalled>>
    BY <1>4, <1>11 DEF CarriesPosition
  <2>2. FlatTypes'
    BY <1>1, <1>6, <1>7, <1>8, <2>1 DEF FlatTypes
  <2> QED BY <1>1, <1>6, <1>7, <1>8, <1>9, <1>11, <2>1, <2>2 DEF position
<1> QED BY <1>10, <1>11

LEMMA SyntaxKeepsFlat ==
    ASSUME FlatInv, LoopInv, phase = "syntax", Syntax
    PROVE  FlatInv'
<1>1. /\ FlatTypes /\ gn \in Nat
      /\ applied = {s \in signalled : s.group < gn + 1}
      /\ \A s \in signalled : s.group >= gn + 1 => s.group = flat_group /\ s.very = flat_type
      /\ flat_group # -1 => [group |-> flat_group, very |-> flat_type] \in signalled
      /\ \A s \in signalled : s.group <= 4 * ((gn + 3) \div 4)
      /\ gn % 4 = 1 => (flat_flag <=> SignalledIn(gn))
      /\ gn > 1 => (sg_flag <=> SignalledIn(SupergroupStart(gn - 1)))
  BY DEF FlatInv, LoopInv, Adjusted, Parsed
<1>2. /\ FlatTypes'
      /\ phase' = "step" /\ gn' = gn /\ applied' = applied
      /\ sg_flag' = IF gn % 4 = 1 THEN flat_flag ELSE sg_flag
      /\ gn % 4 # 3 => flat_flag' = flat_flag
      /\ \/ /\ gn % 4 = 0 /\ flat_flag
            /\ flat_group' \in gn + 1 .. gn + 4
            /\ signalled' = signalled \cup {[group |-> flat_group', very |-> flat_type']}
         \/ /\ ~(gn % 4 = 0 /\ flat_flag)
            /\ UNCHANGED <<flat_group, flat_type, signalled>>
  BY <1>1, SyntaxReads
<1>3. Adjusted' = gn + 1 /\ Parsed' = gn + 1
  BY <1>2 DEF Adjusted, Parsed
<1>4. \A s \in signalled : s.group \in Nat
  BY <1>1 DEF FlatTypes, FlatSignals
<1>5. gn > 0 /\ gn % 4 # 1 => SupergroupStart(gn) = SupergroupStart(gn - 1) /\ gn > 1
  BY <1>1 DEF SupergroupStart
<1>6. gn % 4 = 1 => SupergroupStart(gn) = gn
  BY <1>1 DEF SupergroupStart
<1>7. CASE gn % 4 = 0 /\ flat_flag
  <2> DEFINE new == [group |-> flat_group', very |-> flat_type']
  <2>1. /\ new.group \in gn + 1 .. gn + 4 /\ new.group = flat_group' /\ new.very = flat_type'
        /\ signalled' = signalled \cup {new} /\ 4 * ((gn + 3) \div 4) = gn
    BY <1>1, <1>2, <1>7
  <2> HIDE DEF new
  <2>2. applied' = {s \in signalled' : s.group < gn + 1}
    BY <1>1, <1>2, <2>1
  <2>3. \A s \in signalled' : s.group >= gn + 1 => s.group = flat_group' /\ s.very = flat_type'
    <3>1. \A s \in signalled : s.group <= gn
      BY <1>1, <2>1
    <3> QED BY <1>1, <1>4, <2>1, <3>1
  <2>4. \A s \in signalled' : s.group <= 4 * (((gn + 1) + 3) \div 4)
    BY <1>1, <1>4, <1>7, <2>1
  <2>5. flat_flag' /\ SignalledIn(gn + 1)'
    <3>1. \E s \in signalled' : s.group \in gn + 1 .. (gn + 1) + 3
      BY <1>1, <2>1
    <3>4. gn % 4 # 3
      BY <1>7
    <3>2. flat_flag' = flat_flag
      BY <1>2, <3>4, Zenon
    <3>3. SignalledIn(gn + 1)'
      BY <1>2, <3>1 DEF SignalledIn
    <3> QED BY <1>7, <3>2, <3>3, Zenon
  <2>6. gn > 0 => (sg_flag' <=> SignalledIn(SupergroupStart(gn))')
    <3> SUFFICES ASSUME gn > 0 PROVE sg_flag' <=> SignalledIn(SupergroupStart(gn))'
      OBVIOUS
    <3>1. SupergroupStart(gn) + 3 = gn
      BY <1>1, <1>7 DEF SupergroupStart
    <3>6. gn % 4 # 1
      BY <1>7
    <3>5. sg_flag' = sg_flag
      BY <1>2, <3>6, Zenon
    <3>2. sg_flag <=> \E s \in signalled : s.group \in SupergroupStart(gn) .. SupergroupStart(gn) + 3
      BY <1>1, <1>5, <1>7 DEF SignalledIn
    <3>3. ~(new.group \in SupergroupStart(gn) .. SupergroupStart(gn) + 3)
      BY <1>1, <2>1, <3>1
    <3>4. SupergroupStart(gn)' = SupergroupStart(gn)
      BY <1>2 DEF SupergroupStart
    <3> QED BY <2>1, <3>2, <3>3, <3>4, <3>5 DEF SignalledIn
  <2>7. [group |-> flat_group, very |-> flat_type]' \in signalled'
    BY <2>1 DEF new
  <2> QED BY <1>1, <1>2, <1>3, <2>2, <2>3, <2>4, <2>5, <2>6, <2>7 DEF FlatInv
<1>8. CASE ~(gn % 4 = 0 /\ flat_flag)
  <2>1. UNCHANGED <<flat_group, flat_type, signalled>>
    BY <1>2, <1>8
  <2>2. \A s \in signalled : s.group <= 4 * (((gn + 1) + 3) \div 4)
    BY <1>1, <1>4
  <2>3. (gn + 1) % 4 = 1 => (flat_flag' <=> SignalledIn(gn + 1)')
    <3> SUFFICES ASSUME gn % 4 = 0 PROVE flat_flag' <=> SignalledIn(gn + 1)'
      BY <1>1
    <3>1. ~flat_flag'
      BY <1>2, <1>8
    <3>2. \A s \in signalled : s.group <= gn
      BY <1>1
    <3>3. ~\E s \in signalled : s.group \in gn + 1 .. (gn + 1) + 3
      BY <1>1, <3>2
    <3> QED BY <1>2, <2>1, <3>1, <3>3 DEF SignalledIn
  <2>4. gn > 0 => (sg_flag' <=> SignalledIn(SupergroupStart(gn)))
    BY <1>1, <1>2, <1>5, <1>6
  <2>5. SignalledIn(SupergroupStart(gn))' <=> SignalledIn(SupergroupStart(gn))
    BY <1>2, <2>1 DEF SignalledIn, SupergroupStart
  <2> QED BY <1>1, <1>2, <1>3, <2>1, <2>2, <2>3, <2>4, <2>5 DEF FlatInv
<1> QED BY <1>7, <1>8

(* The next group has been neither adjusted nor parsed.                     *)
LEMMA AdvanceKeepsFlat ==
    ASSUME FlatInv, LoopInv, phase = "step", phase' \in {"flat", "tail"}, gn' = gn + 1,
           UNCHANGED <<syntax_state, signalled, applied>>
    PROVE  FlatInv'
<1>1. Adjusted' = Adjusted /\ Parsed' = Parsed
  BY DEF Adjusted, Parsed
<1>2. UNCHANGED <<flat_flag, flat_type, flat_group, sg_flag, prev_flag, signalled, applied>>
  BY DEF syntax_state
<1>3. SignalledIn(Parsed)' = SignalledIn(Parsed)
      /\ SignalledIn(SupergroupStart(Parsed - 1))' = SignalledIn(SupergroupStart(Parsed - 1))
  BY <1>1, <1>2 DEF SignalledIn, SupergroupStart
<1> QED BY <1>1, <1>2, <1>3 DEF FlatInv, FlatTypes

LEMMA FinishKeepsFlat ==
    ASSUME FlatInv, phase' = "done", UNCHANGED <<syntax_state, signalled, applied>>
    PROVE  FlatInv'
BY DEF FlatInv, FlatTypes, syntax_state

-----------------------------------------------------------------------------
(* One group's step, then the next place of the loops.                      *)

LEMMA StepKeepsLoop ==
    ASSUME RcInv, LoopInv, Step
    PROVE  /\ LoopInv'
           /\ \/ phase' = "done"
              \/ phase' \in {"flat", "tail"} /\ gn' = gn + 1
<1> DEFINE w == cfg.slice_width
           h == cfg.slice_height
           n == Count
<1>1. /\ phase = "step" /\ StepGroup(y, gn, n, report) /\ AfterStep
      /\ UNCHANGED <<syntax_state, report, signalled, applied>>
  BY DEF Step
<1>2. /\ n \in 1..3 /\ (x + n = w \/ (n = 3 /\ x + 3 < w))
      /\ ArgumentsOk(y, gn, n, report)
  BY <1>1, GroupArguments
<1>3. /\ w \in Nat \ {0} /\ h \in Nat
      /\ y \in Nat /\ y < h /\ x \in 0 .. w - 1 /\ gn \in Nat /\ pixels \in Nat
      /\ gn = groups /\ pixels = y * w + x /\ report \in GroupReports
      /\ status = "decoding"
  BY <1>1, SliceSize DEF LoopInv, RcInv, TypeOK
<1> HIDE DEF n
<1>4. /\ failed' # "arguments"
      /\ failed' # "no" => UNCHANGED <<slice, buffer, inputs>>
      /\ failed' = "no" => pixels' = pixels + n /\ groups' = groups + 1 /\ UNCHANGED slice
  BY <1>1, <1>2, <1>3, StepChecked
<1>5. CASE failed' # "no"
  <2>1. phase' = "done" /\ status' = "rate_control" /\ UNCHANGED <<x, y, gn>>
    BY <1>1, <1>5 DEF AfterStep, Finish, position
  <2>2. cfg' = cfg /\ pixels' = pixels /\ report' = report
    BY <1>1, <1>4, <1>5 DEF slice, buffer
  <2>3. LoopInv'
    BY <1>3, <1>4, <1>5, <2>1, <2>2 DEF LoopInv, Statuses
  <2> QED BY <2>1, <2>3
<1>6. CASE failed' = "no"
  <2>1. /\ gn' = gn + 1 /\ status' = status
        /\ IF x + 3 < w THEN x' = x + 3 /\ y' = y ELSE x' = 0 /\ y' = y + 1
        /\ phase' = IF y' < h THEN "flat" ELSE "tail"
    BY <1>1, <1>6 DEF AfterStep, Advance
  <2>2. cfg' = cfg /\ pixels' = pixels + n /\ groups' = groups + 1 /\ report' = report
    BY <1>1, <1>4, <1>6 DEF slice
  <2>3. /\ x + n < w => pixels + n = y * w + (x + n)
        /\ x + n = w => pixels + n = (y + 1) * w + 0
    <3> HIDE DEF w, h
    <3>1. x + n <= w
      BY <1>2, <1>3
    <3> QED BY <1>2, <1>3, <3>1, Position
  <2>4. CASE x + 3 < w
    <3>1. n = 3 /\ x' = x + 3 /\ y' = y /\ phase' = "flat"
      BY <1>2, <1>3, <2>1, <2>4
    <3>2. pixels' = y' * w + x' /\ x' \in 0 .. w - 1
      BY <1>3, <2>2, <2>3, <2>4, <3>1
    <3>3. LoopInv'
      BY <1>3, <1>4, <1>6, <2>1, <2>2, <3>1, <3>2 DEF LoopInv, Statuses
    <3> QED BY <2>1, <3>1, <3>3
  <2>5. CASE ~(x + 3 < w)
    <3>1. x + n = w /\ x' = 0 /\ y' = y + 1
      BY <1>2, <1>3, <2>1, <2>5
    <3>2. pixels' = y' * w + x' /\ x' \in 0 .. w - 1
      BY <1>3, <2>2, <2>3, <3>1
    <3>3. (phase' = "flat" /\ y' < h) \/ (phase' = "tail" /\ y' = h)
      BY <1>3, <2>1, <3>1
    <3>4. y' \in 0 .. h
      BY <1>3, <3>1
    <3>5. LoopInv'
      BY <1>3, <1>4, <1>6, <2>1, <2>2, <3>1, <3>2, <3>3, <3>4 DEF LoopInv, Statuses
    <3> QED BY <2>1, <3>3, <3>5
  <2> QED BY <2>4, <2>5
<1> QED BY <1>5, <1>6

-----------------------------------------------------------------------------
(* The inductive invariant, action by action.                               *)

SliceInv == SafeInv /\ LoopInv /\ FlatInv

LEMMA SliceInvInit == Init => SliceInv
<1> SUFFICES ASSUME Init PROVE SliceInv
  OBVIOUS
<1>1. SafeInv
  BY SafeInvInit DEF Init
<1>2. RcInv
  BY <1>1 DEF SafeInv
<1> QED BY <1>1, <1>2, LoopInvInit, FlatInvInit DEF SliceInv

(* Actions that leave the rate control alone keep its promises.             *)
LEMMA SliceInvStep ==
    ASSUME SliceInv, [Next]_vars
    PROVE  SliceInv' /\ [Moves]_rc_vars
<1>1. SafeInv /\ RcInv /\ LoopInv /\ FlatInv
  BY DEF SliceInv, SafeInv
<1>2. UNCHANGED rc_vars => UNCHANGED <<cfg, failed, pixels>>
  BY DEF rc_vars, slice, buffer
<1>3. CASE UNCHANGED vars
  <2>1. UNCHANGED rc_vars /\ SafeInv'
    BY <1>1, <1>3, StutterKeepsSafe DEF vars
  <2>2. /\ UNCHANGED <<cfg, failed, pixels, groups>>
        /\ UNCHANGED <<phase, status, x, y, gn, report, signalled, applied>>
        /\ UNCHANGED <<flat_flag, flat_type, flat_group, sg_flag, prev_flag>>
    BY <1>3 DEF vars, rc_vars, slice, buffer, position, syntax_state
  <2>3. LoopInv'
    BY <1>1, <2>2 DEF LoopInv
  <2>4. FlatInv'
    BY <1>1, <2>2 DEF FlatInv, FlatTypes, Adjusted, Parsed, SignalledIn, SupergroupStart
  <2> QED BY <2>1, <2>3, <2>4 DEF SliceInv
<1>4. ASSUME UNCHANGED rc_vars, UNCHANGED <<position, syntax_state, report, signalled, applied>>,
             NEW s \in {"ok", "truncated", "bitstream"}, Finish(s), phase # "done",
             s = "ok" => pixels = cfg.slice_width * cfg.slice_height
      PROVE  SliceInv' /\ [Moves]_rc_vars
  <2>1. SafeInv'
    BY <1>1, <1>4, StutterKeepsSafe
  <2>2. LoopInv'
    BY <1>1, <1>2, <1>4, FinishKeepsLoop
  <2>3. FlatInv'
    BY <1>1, <1>4, FinishKeepsFlat DEF Finish
  <2> QED BY <1>4, <2>1, <2>2, <2>3 DEF SliceInv
<1>5. CASE RefillFails
  BY <1>4, <1>5 DEF RefillFails
<1>6. CASE GroupRejected
  BY <1>4, <1>6 DEF GroupRejected
<1>7. CASE CheckTail
  <2>1. pixels = cfg.slice_width * cfg.slice_height
    <3>1. cfg.slice_width \in Nat /\ cfg.slice_height \in Nat
      BY <1>1, SliceSize
    <3>2. pixels = cfg.slice_height * cfg.slice_width + 0
      BY <1>1, <1>7 DEF CheckTail, LoopInv
    <3> QED BY <3>1, <3>2
  <2>2. PICK s \in {"ok", "bitstream"} : Finish(s)
    BY <1>7 DEF CheckTail
  <2> QED BY <1>4, <1>7, <2>1, <2>2 DEF CheckTail
<1>8. CASE ApplyFlat
  <2>1. /\ phase = "flat" /\ ApplyFlatLine(flat_group = gn, flat_type, x = 0 /\ y > 0)
        /\ UNCHANGED <<position, syntax_state, report, signalled>>
        /\ applied' = IF flat_group = gn
                      THEN applied \cup {[group |-> gn, very |-> flat_type]} ELSE applied
    BY <1>8 DEF ApplyFlat
  <2>2. failed' = "no" /\ failed = "no" /\ UNCHANGED <<slice, buffer>>
    BY <1>1, <2>1, FlatCallKeeps
  <2>3. phase' = "syntax" /\ status' = status
    BY <1>8, <2>2 DEF ApplyFlat
  <2>4. SafeInv' /\ Moves
    <3>1. flat_type \in BOOLEAN
      BY <1>1 DEF FlatInv, FlatTypes
    <3>2. RcCall(0)
      BY <1>1, <2>1, <3>1, FlatIsCall
    <3> QED BY <1>1, <3>2, CallKeepsSafe
  <2>5. LoopInv'
    <3>1. UNCHANGED <<cfg, failed, pixels, groups, x, y, gn, report, status>>
      BY <2>1, <2>2, <2>3 DEF slice, buffer, position
    <3> QED BY <1>1, <2>1, <2>3, <3>1 DEF LoopInv
  <2>6. FlatInv'
    BY <1>1, <2>1, <2>3, ApplyKeepsFlat
  <2> QED BY <2>4, <2>5, <2>6 DEF SliceInv
<1>9. CASE Syntax
  <2>1. phase = "syntax" /\ gn \in Nat /\ FlatTypes
    BY <1>1, <1>9 DEF Syntax, LoopInv, FlatInv
  <2>2. /\ report' \in GroupReports /\ phase' = "step"
        /\ UNCHANGED <<rc_vars, status, position, applied>>
    BY <1>9, <2>1, SyntaxReads
  <2>3. SafeInv'
    BY <1>1, <2>2, StutterKeepsSafe
  <2>4. LoopInv'
    <3>1. UNCHANGED <<cfg, failed, pixels, groups, x, y, gn, status>>
      BY <2>2 DEF rc_vars, slice, buffer, position
    <3> QED BY <1>1, <2>1, <2>2, <3>1 DEF LoopInv
  <2>5. FlatInv'
    BY <1>1, <1>9, <2>1, SyntaxKeepsFlat
  <2> QED BY <2>2, <2>3, <2>4, <2>5 DEF SliceInv
<1>10. CASE Step
  <2>1. /\ phase = "step" /\ StepGroup(y, gn, Count, report)
        /\ UNCHANGED <<syntax_state, report, signalled, applied>>
    BY <1>10 DEF Step
  <2>2. SafeInv' /\ Moves
    <3>1. y \in Nat /\ Count \in Nat /\ report \in GroupReports
      BY <1>1, <2>1, SliceSize, GroupArguments DEF LoopInv
    <3>2. RcCall(y)
      BY <1>1, <2>1, <3>1, StepIsCall
    <3> QED BY <1>1, <3>1, <3>2, CallKeepsSafe
  <2>3. LoopInv' /\ (phase' = "done" \/ (phase' \in {"flat", "tail"} /\ gn' = gn + 1))
    BY <1>1, <1>10, StepKeepsLoop
  <2>4. FlatInv'
    BY <1>1, <2>1, <2>3, AdvanceKeepsFlat, FinishKeepsFlat
  <2> QED BY <2>2, <2>3, <2>4 DEF SliceInv
<1> QED BY <1>3, <1>5, <1>6, <1>7, <1>8, <1>9, <1>10 DEF Next

LEMMA AlwaysSlice == Spec => []SliceInv
<1>1. SliceInv /\ [Next]_vars => SliceInv'
  BY SliceInvStep
<1> QED BY <1>1, SliceInvInit, PTL DEF Spec

(* Type correctness of the slice loop; in particular the loops stay inside  *)
(* the slice (decode.c:380-381).                                            *)
THEOREM SliceTypeCorrect == Spec => []SliceTypeOK
<1>1. SliceInv => SliceTypeOK
  <2> SUFFICES ASSUME SliceInv PROVE SliceTypeOK
    OBVIOUS
  <2> QED BY DEF SliceInv, LoopInv, FlatInv, FlatTypes, SliceTypeOK
<1> QED BY <1>1, AlwaysSlice, PTL

(* decode_slice and dsc_rc_step_group count pixels, lines and groups each   *)
(* on their own and never disagree: the argument check never fires          *)
(* (rate_control.c:437-442), and a slice that ends well is complete.        *)
THEOREM CountersNeverDisagree == Spec => []CountersAgree
<1>1. SliceInv => CountersAgree
  <2> SUFFICES ASSUME SliceInv PROVE CountersAgree
    OBVIOUS
  <2>1. LoopInv /\ RcInv
    BY DEF SliceInv, SafeInv
  <2> DEFINE w == cfg.slice_width
  <2>2. w \in Nat \ {0} /\ x \in 0 .. w - 1 /\ y \in Int /\ pixels \in Nat
    BY <2>1, SliceSize DEF LoopInv, RcInv, TypeOK
  <2>3. phase # "done" => pixels = y * w + x
    BY <2>1 DEF LoopInv
  <2> HIDE DEF w
  <2>4. phase # "done" => y = pixels \div w /\ x = pixels % w
    BY <2>2, <2>3, Quotient
  <2> QED BY <2>1, <2>4 DEF LoopInv, CountersAgree, w
<1> QED BY <1>1, AlwaysSlice, PTL

(* No failure of the rate control is lost and none is reported that did not *)
(* happen (decode.c:390-393, 451-454).                                      *)
THEOREM EveryFailureReported == Spec => []FailureReported
<1>1. SliceInv => FailureReported
  BY DEF SliceInv, LoopInv, FailureReported
<1> QED BY <1>1, AlwaysSlice, PTL

(* Every flat group that the stream signals is adjusted at that group and   *)
(* with its own type, for slices of any size (decode.c:176-204, 390).       *)
THEOREM FlatGroupsAdjusted == Spec => []FlatAppliedOnce
<1>1. SliceInv => FlatAppliedOnce
  <2> SUFFICES ASSUME SliceInv, status = "decoding"
               PROVE  applied = {s \in signalled :
                                   s.group < gn \/ (s.group = gn /\ phase \notin {"flat", "tail"})}
    BY DEF FlatAppliedOnce
  <2>1. /\ phase \in {"flat", "syntax", "step", "tail"} /\ gn \in Nat
        /\ applied = {s \in signalled : s.group < Adjusted}
        /\ signalled \subseteq FlatSignals
    BY DEF SliceInv, LoopInv, FlatInv, FlatTypes
  <2>2. \A s \in signalled : s.group < Adjusted <=>
          s.group < gn \/ (s.group = gn /\ phase \notin {"flat", "tail"})
    BY <2>1 DEF Adjusted, FlatSignals
  <2> QED BY <2>1, <2>2
<1> QED BY <1>1, AlwaysSlice, PTL

(* sg_flag tells of each group whether its supergroup has a flat group      *)
(* (decode.c:177-181).                                                      *)
THEOREM SupergroupFlagRight == Spec => []SupergroupFlag
<1>1. SliceInv => SupergroupFlag
  <2> SUFFICES ASSUME SliceInv, phase = "step", gn > 0
               PROVE  sg_flag <=> SignalledIn(SupergroupStart(gn))
    BY DEF SupergroupFlag, SignalledIn, SupergroupStart
  <2>1. gn \in Nat /\ Parsed = gn + 1 /\ FlatInv
    BY DEF SliceInv, LoopInv, Parsed
  <2>2. Parsed - 1 = gn /\ Parsed > 1
    BY <2>1
  <2> QED BY <2>1, <2>2 DEF FlatInv
<1> QED BY <1>1, AlwaysSlice, PTL

(* Under this caller, too, the scale falls to unity, turns once and only    *)
(* rises from then on, and the offset never rises above its final value     *)
(* again (rate_control.c:479-500, 543-548).                                 *)
THEOREM SliceTurnsOnce == Spec => OneWay
<1>1. SliceInv /\ [Next]_vars => [Moves]_rc_vars
  BY SliceInvStep
<1>2. [Moves]_rc_vars =>
        [/\ scale' >= 8
         /\ increasing => increasing' /\ scale' >= scale
         /\ ~increasing /\ ~increasing' => scale' <= scale
         /\ clamp_offset => clamp_offset' /\ offset_q11' <= FinalOffset]_rc_vars
  BY Zenon DEF Moves, ScaleMoves, OffsetHolds
<1> QED BY <1>1, <1>2, AlwaysSlice, PTL DEF Spec, OneWay

(* What the rate control promises to any caller it promises to this one:    *)
(* its QPs stay on the scale and its pipeline is coherent across overrides. *)
THEOREM PromisesKept == Spec => [](TypeOK /\ QpCoherent /\ QueuedQpReproducible /\ DeadFailures)
<1>1. SliceInv => TypeOK /\ QpCoherent /\ QueuedQpReproducible /\ DeadFailures
  BY DEF SliceInv, SafeInv, RcInv, Promises
<1> QED BY <1>1, AlwaysSlice, PTL

-----------------------------------------------------------------------------
(* The rate buffer as a constant-rate channel, in the default reading of    *)
(* OQ-3: what the accumulators have removed is what the schedule says.      *)

ChannelInv == opt.frac_reset = CHUNK /\ \E n \in Nat : ChunksCounted(cfg, pixels, drain, n)

LEMMA Sixteenths ==
    ASSUME NEW bits \in Nat, NEW left \in 0..15, NEW a, 16 * bits + left = a
    PROVE  a \div 16 = bits
OBVIOUS

(* The account of the chunks, solved for the bits removed.                  *)
LEMMA CountedSchedule ==
    ASSUME NEW p \in Nat, NEW d, NEW n, ValidChunk(cfg), ChunksCounted(cfg, p, d, n)
    PROVE  d.removed = Buffer!Scheduled(p)
<1> DEFINE w == cfg.slice_width
           b == cfg.bits_per_pixel
           c == cfg.slice_chunk_size
           k == d.chunk_pixels
           kb == k * b
           times == DrainTimes(cfg, p)
<1>1. /\ w \in Nat \ {0} /\ b \in Nat /\ c \in Int /\ n \in Nat
      /\ k \in 0 .. w - 1 /\ d.chunk_bits \in Nat /\ d.fractional_bits \in 0..15
      /\ 16 * d.chunk_bits + d.fractional_bits = kb
      /\ d.removed = n * (8 * c) + d.chunk_bits /\ times = n * w + k
  BY ValidChunkSize, SMTT(30) DEF ValidChunk, ChunksCounted, ChunkOpen, DrainRecord
<1>2. times \in Nat /\ kb \in Nat
  <2>1. n * w \in Nat
    BY <1>1
  <2> QED BY <1>1, <2>1
<1>3. Buffer!Scheduled(p) = (times \div w) * 8 * c + ((times % w) * b) \div 16
  BY Zenon DEF Buffer!Scheduled, DrainTimes, FirstDrain
<1> HIDE DEF times, w, b, c
<1>4. (times \div w) = n /\ (times % w) = k
  BY <1>1, <1>2, Quotient
<1>5. kb \div 16 = d.chunk_bits
  <2>1. /\ d.chunk_bits \in Nat /\ d.fractional_bits \in 0..15
        /\ 16 * d.chunk_bits + d.fractional_bits = kb
    BY <1>1
  <2> HIDE DEF kb
  <2> QED BY <2>1, Sixteenths
<1>6. n * 8 * c = n * (8 * c)
  BY <1>1
<1> QED BY <1>1, <1>3, <1>4, <1>5, <1>6

LEMMA CountedGroup ==
    ASSUME ValidChunk(cfg), pixels \in Nat, NEW n \in 1..3, NEW d, NEW m,
           ChunksCounted(cfg, pixels, d, m)
    PROVE  \E done \in Nat : ChunksCounted(cfg, pixels + n, DrainGroup(n, CHUNK, d), done)
<1> DEFINE one   == DrainPixel(cfg, pixels + 1, CHUNK, d)
           two   == DrainPixel(cfg, pixels + 2, CHUNK, one)
           three == DrainPixel(cfg, pixels + 3, CHUNK, two)
<1>1. \E i : ChunksCounted(cfg, pixels + 1, one, i)
  BY CountedPixel
<1> HIDE DEF one
<1>2. PICK i : ChunksCounted(cfg, pixels + 1, one, i)
  BY <1>1
<1>3. \E j : ChunksCounted(cfg, pixels + 2, two, j)
  <2>1. pixels + 1 \in Nat /\ (pixels + 1) + 1 = pixels + 2
    OBVIOUS
  <2> QED BY <1>2, <2>1, CountedPixel
<1> HIDE DEF two
<1>4. PICK j : ChunksCounted(cfg, pixels + 2, two, j)
  BY <1>3
<1>5. \E k : ChunksCounted(cfg, pixels + 3, three, k)
  <2>1. pixels + 2 \in Nat /\ (pixels + 2) + 1 = pixels + 3
    OBVIOUS
  <2> QED BY <1>4, <2>1, CountedPixel
<1>6. DrainGroup(n, CHUNK, d) = IF n < 3 THEN (IF n < 2 THEN one ELSE two) ELSE three
  BY DEF DrainGroup, one, two
<1> HIDE DEF three
<1>7. \E done : ChunksCounted(cfg, pixels + n, DrainGroup(n, CHUNK, d), done)
  BY <1>2, <1>4, <1>5, <1>6
<1> QED BY <1>7 DEF ChunksCounted

LEMMA ChannelInit ==
    ASSUME \A o \in Readings : o.frac_reset = CHUNK, Init
    PROVE  ChannelInv /\ Buffer!Init
<1>1. /\ cfg \in Configs /\ opt \in Readings /\ pixels = 0 /\ drain = DrainStart
      /\ fullness = 0 /\ failed = "no" /\ last_inputs = NoInputs
  BY DEF Init, RcInit
<1>2. ValidChunk(cfg)
  BY <1>1, ConfigsAssumption DEF RcAccepts
<1>3. ChunksCounted(cfg, 0, DrainStart, 0)
  BY <1>2, CountedStart
<1> QED BY <1>1, <1>3 DEF ChannelInv, Buffer!Init, NoInputs

(* Whatever keeps the buffer as it is is a stutter of the channel.          *)
LEMMA ChannelStutter ==
    ASSUME ChannelInv, UNCHANGED <<slice, buffer>>, failed' = failed,
           last_inputs'.actual = last_inputs.actual
    PROVE  ChannelInv' /\ UNCHANGED Buffer!vars
<1>1. UNCHANGED <<cfg, opt, fullness, pixels, drain>>
  BY DEF slice, buffer
<1> QED BY <1>1 DEF ChannelInv, Buffer!vars

(* A group's step is a group of the channel, or stops it.                   *)
LEMMA ChannelStep ==
    ASSUME RcInv, LoopInv, ChannelInv, Step
    PROVE  ChannelInv' /\ Buffer!Next
<1> DEFINE n == Count
<1>1. phase = "step" /\ StepGroup(y, gn, n, report)
  BY DEF Step
<1>2. n \in 1..3 /\ y \in Nat /\ report \in GroupReports /\ pixels \in Nat /\ ValidChunk(cfg)
  BY <1>1, GroupArguments, SliceSize, RcAccepted DEF LoopInv, RcInv, TypeOK
<1> HIDE DEF n
<1>3. /\ failed = "no"
      /\ failed' # "no" => UNCHANGED <<slice, buffer, inputs>>
      /\ failed' = "no" =>
           /\ ArgumentsOk(y, gn, n, report)
           /\ ~(fullness + report.actual > BufferSize(cfg))
           /\ drain' = DrainGroup(n, opt.frac_reset, drain)
           /\ fullness' = (fullness + report.actual) - (drain'.removed - drain.removed)
           /\ fullness' \in Nat
           /\ pixels' = pixels + n
           /\ last_inputs'.actual = report.actual
           /\ UNCHANGED slice
  BY <1>1, <1>2, StepChecked
<1>4. CASE failed' # "no"
  <2>1. UNCHANGED <<cfg, opt, fullness, pixels, drain, last_inputs>>
    BY <1>3, <1>4 DEF slice, buffer, inputs
  <2>2. ChannelInv'
    BY <2>1 DEF ChannelInv
  <2>3. Buffer!Stop
    BY <1>4, <2>1 DEF Buffer!Stop
  <2> QED BY <2>2, <2>3 DEF Buffer!Next
<1>5. CASE failed' = "no"
  <2>1. PICK m \in Nat : ChunksCounted(cfg, pixels, drain, m)
    BY DEF ChannelInv
  <2>2. PICK m1 \in Nat : ChunksCounted(cfg, pixels + n, drain', m1)
    BY <1>2, <1>3, <1>5, <2>1, CountedGroup DEF ChannelInv
  <2>3. cfg' = cfg /\ opt' = opt /\ pixels' = pixels + n
    BY <1>3, <1>5 DEF slice
  <2>4. ChannelInv'
    BY <2>2, <2>3 DEF ChannelInv
  <2>5. drain.removed = Buffer!Scheduled(pixels) /\ drain'.removed = Buffer!Scheduled(pixels + n)
    BY <1>2, <2>1, <2>2, CountedSchedule
  <2>6. /\ drain.removed \in Int /\ drain'.removed \in Int /\ fullness \in Nat
        /\ report.actual \in 0..512
    BY <1>2, <2>1, <2>2 DEF ChunksCounted, ChunkOpen, DrainRecord, RcInv, TypeOK, GroupReports
  <2>7. Buffer!Group
    <3>1. /\ last_inputs'.actual \in 0..512
          /\ fullness' = fullness + last_inputs'.actual
                         - (Buffer!Scheduled(pixels + n) - Buffer!Scheduled(pixels))
          /\ fullness' >= 0
      BY <1>3, <1>5, <2>5, <2>6
    <3>2. fullness + last_inputs'.actual <= Buffer!Size
      <4>1. Buffer!Size = BufferSize(cfg) /\ BufferSize(cfg) \in Int
        <5>1. /\ cfg.initial_xmit_delay \in Nat /\ cfg.initial_dec_delay \in Nat
              /\ cfg.bits_per_pixel \in Nat
          BY BufferTerms
        <5> DEFINE bits == (cfg.initial_xmit_delay + cfg.initial_dec_delay) * cfg.bits_per_pixel
        <5>2. bits \in Nat
          BY <5>1
        <5>3. Buffer!Size = bits \div 16 /\ BufferSize(cfg) = bits \div 16
          BY Zenon DEF Buffer!Size, BufferSize
        <5> HIDE DEF bits
        <5> QED BY <5>2, <5>3
      <4> QED BY <1>3, <1>5, <2>6, <4>1
    <3>3. pixels' <= cfg.slice_width * cfg.slice_height
      BY <1>3, <1>5 DEF ArgumentsOk
    <3>4. UNCHANGED <<cfg, failed # "no">> /\ ~(failed # "no")
      BY <1>3, <1>5, <2>3
    <3> QED BY <1>2, <2>3, <3>1, <3>2, <3>3, <3>4, Zenon DEF Buffer!Group
  <2> QED BY <2>4, <2>7 DEF Buffer!Next
<1> QED BY <1>4, <1>5

LEMMA ChannelNext ==
    ASSUME SliceInv, ChannelInv, [Next]_vars
    PROVE  ChannelInv' /\ [Buffer!Next]_(Buffer!vars)
<1>1. RcInv /\ LoopInv
  BY DEF SliceInv, SafeInv
<1>2. CASE UNCHANGED rc_vars
  <2>1. UNCHANGED <<slice, buffer>> /\ failed' = failed /\ last_inputs' = last_inputs
    BY <1>2 DEF rc_vars, inputs
  <2> QED BY <2>1, ChannelStutter
<1>3. CASE ApplyFlat
  <2>1. /\ failed' = failed /\ UNCHANGED <<slice, buffer>>
        /\ last_inputs'.actual = last_inputs.actual
    BY <1>1, <1>3, FlatCallKeeps DEF ApplyFlat
  <2> QED BY <2>1, ChannelStutter
<1>4. CASE Step
  BY <1>1, <1>4, ChannelStep
<1>5. RefillFails \/ Syntax \/ GroupRejected \/ CheckTail \/ UNCHANGED vars => UNCHANGED rc_vars
  BY DEF RefillFails, Syntax, GroupRejected, CheckTail, vars
<1> QED BY <1>2, <1>3, <1>4, <1>5 DEF Next

(* If OQ-3 is read by chunks, the accumulators of rate_control.c implement  *)
(* the channel: no bit is lost or taken twice at the end of a chunk, for    *)
(* every rate, slice and sequence of group sizes.                           *)
THEOREM BufferIsChannel ==
    (\A o \in Readings : o.frac_reset = CHUNK) => (Spec => ImplementsCbrBuffer)
<1> SUFFICES ASSUME \A o \in Readings : o.frac_reset = CHUNK
             PROVE  Spec => ImplementsCbrBuffer
  OBVIOUS
<1>1. Init => ChannelInv /\ Buffer!Init
  BY ChannelInit
<1>2. SliceInv /\ ChannelInv /\ [Next]_vars => ChannelInv' /\ [Buffer!Next]_(Buffer!vars)
  BY ChannelNext
<1> QED BY <1>1, <1>2, AlwaysSlice, PTL DEF Spec, ImplementsCbrBuffer, Buffer!Spec

-----------------------------------------------------------------------------
(* The offset, term by term.                                                *)

(* How many groups of g were on the first line, and how many on the second. *)
First(g)  == UMin(g, GroupsPerLine)
Second(g) == UMin(g - First(g), GroupsPerLine)

FirstLineTerms(g) == g * cfg.slice_bpg_offset - First(g) * cfg.first_line_bpg_offset * 2048

LaterLineTerms(g) == (g - First(g)) * cfg.nfl_bpg_offset

SecondLineTerms(g) ==
    LET adj == cfg.second_line_offset_adj * 2048
    IN  IF ~V12(cfg) THEN 0
        ELSE ((g - Second(g)) * cfg.nsl_bpg_offset
              - Second(g) * cfg.second_line_bpg_offset * 2048)
             + ((IF g > 0 /\ opt.offset_adj = "start" THEN adj ELSE 0)
                - (IF g > GroupsPerLine THEN adj ELSE 0))

(* The pixels of the initial delay that have lowered the offset.            *)
Delayed == UMin(DelayEnd, IF opt.delay_partial = "group_end" THEN delay_group_end ELSE pixels)

DelayTerm(d) == d * cfg.bits_per_pixel * 128

Ledger ==
    (cfg.initial_offset - cfg.rc_model_size) * 2048
    + FirstLineTerms(groups)
    + (LaterLineTerms(groups) - DelayTerm(Delayed))
    + SecondLineTerms(groups)

LEMMA OffsetTypes ==
    ASSUME RcInv
    PROVE  /\ cfg.bits_per_pixel \in Int /\ cfg.initial_xmit_delay \in Nat
           /\ cfg.slice_bpg_offset \in Int /\ cfg.nfl_bpg_offset \in Int
           /\ cfg.nsl_bpg_offset \in Int
           /\ cfg.first_line_bpg_offset \in Int /\ cfg.second_line_bpg_offset \in Int
           /\ cfg.second_line_offset_adj \in Int
           /\ cfg.final_offset \in Int /\ cfg.initial_offset \in Int /\ cfg.rc_model_size \in Int
           /\ GroupsPerLine \in Nat \ {0}
<1>1. RcAccepts(cfg)
  BY RcAccepted
<1>2. cfg.slice_width \in Nat \ {0}
  BY <1>1, ConfigTypes
<1>3. GroupsPerLine \in Nat \ {0}
  BY <1>2 DEF GroupsPerLine
<1> QED BY <1>1, <1>3, ConfigTypes

LEMMA OneMore ==
    ASSUME NEW a \in Int, NEW c \in Int
    PROVE  (a + 1) * c = a * c + c /\ a * c \in Int
OBVIOUS

LEMMA GroupCounts ==
    ASSUME NEW g \in Nat, GroupsPerLine \in Nat \ {0}
    PROVE  /\ First(g) \in Nat /\ Second(g) \in Nat
           /\ First(g + 1) = IF g < GroupsPerLine THEN First(g) + 1 ELSE First(g)
           /\ Second(g + 1) = IF g >= GroupsPerLine /\ g < 2 * GroupsPerLine
                              THEN Second(g) + 1 ELSE Second(g)
BY DEF First, Second, UMin

LEMMA LineTermsTypes ==
    ASSUME RcInv, NEW g \in Nat
    PROVE  /\ FirstLineTerms(g) \in Int /\ LaterLineTerms(g) \in Int
           /\ FirstLineTerms(g + 1) \in Int /\ LaterLineTerms(g + 1) \in Int
<1>1. ASSUME NEW i \in Nat PROVE FirstLineTerms(i) \in Int /\ LaterLineTerms(i) \in Int
  <2>1. First(i) \in Nat
    BY OffsetTypes, GroupCounts
  <2>2. /\ i * cfg.slice_bpg_offset \in Int
        /\ First(i) * cfg.first_line_bpg_offset \in Int
        /\ (i - First(i)) * cfg.nfl_bpg_offset \in Int
    BY <2>1, OffsetTypes
  <2> QED BY <2>2 DEF FirstLineTerms, LaterLineTerms
<1> QED BY <1>1

(* One group more on line number line.                                      *)
LEMMA LineTermsStep ==
    ASSUME RcInv, NEW g \in Nat, NEW line \in Nat, line = 0 <=> g < GroupsPerLine
    PROVE  /\ FirstLineTerms(g) \in Int /\ LaterLineTerms(g) \in Int
           /\ FirstLineTerms(g + 1) + LaterLineTerms(g + 1) =
                (FirstLineTerms(g) + LaterLineTerms(g)) + (cfg.slice_bpg_offset
                + (IF line > 0 THEN cfg.nfl_bpg_offset ELSE -cfg.first_line_bpg_offset * 2048))
<1> DEFINE s   == cfg.slice_bpg_offset
           f   == cfg.first_line_bpg_offset
           nfl == cfg.nfl_bpg_offset
           a   == First(g)
           b   == First(g + 1)
<1>1. s \in Int /\ f \in Int /\ nfl \in Int /\ GroupsPerLine \in Nat \ {0}
  BY OffsetTypes
<1>2. a \in Nat /\ b = IF g < GroupsPerLine THEN a + 1 ELSE a
  BY <1>1, GroupCounts
<1>3. /\ FirstLineTerms(g) = g * s - a * f * 2048 /\ LaterLineTerms(g) = (g - a) * nfl
      /\ FirstLineTerms(g + 1) = (g + 1) * s - b * f * 2048
      /\ LaterLineTerms(g + 1) = ((g + 1) - b) * nfl
  BY DEF FirstLineTerms, LaterLineTerms
<1> HIDE DEF s, f, nfl, a, b
<1>4. (g + 1) * s = g * s + s /\ g * s \in Int
  BY <1>1, OneMore
<1>5. (a + 1) * f = a * f + f /\ a * f \in Int
  BY <1>1, <1>2, OneMore
<1>6. (g - a + 1) * nfl = (g - a) * nfl + nfl /\ (g - a) * nfl \in Int
  BY <1>1, <1>2, OneMore
<1>7. CASE line = 0
  <2>1. b = a + 1 /\ (g + 1) - b = g - a
    BY <1>2, <1>7
  <2> QED BY <1>1, <1>3, <1>4, <1>5, <1>6, <1>7, <2>1 DEF s, f, nfl
<1>8. CASE line # 0
  <2>1. b = a /\ (g + 1) - b = g - a + 1
    BY <1>2, <1>8
  <2> QED BY <1>1, <1>3, <1>4, <1>5, <1>6, <1>8, <2>1 DEF s, f, nfl
<1> QED BY <1>7, <1>8

LEMMA SecondLineTermsStep ==
    ASSUME RcInv, NEW line \in Nat,
           line = 1 <=> (groups >= GroupsPerLine /\ groups < 2 * GroupsPerLine),
           (line = 1 /\ pixels = cfg.slice_width) <=> groups = GroupsPerLine
    PROVE  /\ SecondLineTerms(groups) \in Int
           /\ SecondLineTerms(groups + 1) =
                SecondLineTerms(groups) + (StartAdjustment + SecondLineDelta(line))
<1> DEFINE nsl == cfg.nsl_bpg_offset
           t   == cfg.second_line_bpg_offset
           adj == cfg.second_line_offset_adj * 2048
           g   == groups
           a   == Second(g)
           b   == Second(g + 1)
           start(i) == IF i > 0 /\ opt.offset_adj = "start" THEN adj ELSE 0
           ends(i)  == IF i > GroupsPerLine THEN adj ELSE 0
<1>1. /\ nsl \in Int /\ t \in Int /\ adj \in Int /\ g \in Nat /\ GroupsPerLine \in Nat \ {0}
  BY OffsetTypes DEF RcInv, TypeOK
<1>2. CASE ~V12(cfg)
  BY <1>2 DEF SecondLineTerms, StartAdjustment, SecondLineDelta
<1>3. CASE V12(cfg)
  <2>1. /\ SecondLineTerms(g) = ((g - a) * nsl - a * t * 2048) + (start(g) - ends(g))
        /\ SecondLineTerms(g + 1) =
             (((g + 1) - b) * nsl - b * t * 2048) + (start(g + 1) - ends(g + 1))
    BY <1>3 DEF SecondLineTerms
  <2>2. a \in Nat /\ b = IF g >= GroupsPerLine /\ g < 2 * GroupsPerLine THEN a + 1 ELSE a
    BY <1>1, GroupCounts
  <2>3. /\ StartAdjustment = IF g = 0 /\ opt.offset_adj = "start" THEN adj ELSE 0
        /\ SecondLineDelta(line) =
             (IF line = 1 THEN -t * 2048 ELSE nsl) - (IF g = GroupsPerLine THEN adj ELSE 0)
    BY <1>3 DEF StartAdjustment, SecondLineDelta
  <2>4. /\ start(g) \in Int /\ ends(g) \in Int
        /\ start(g + 1) = start(g) + StartAdjustment
        /\ ends(g + 1) = ends(g) + (IF g = GroupsPerLine THEN adj ELSE 0)
    BY <1>1, <2>3
  <2> HIDE DEF nsl, t, adj, g, a, b, start, ends
  <2>5. (a + 1) * t = a * t + t /\ a * t \in Int
    BY <1>1, <2>2, OneMore
  <2>6. (g - a + 1) * nsl = (g - a) * nsl + nsl /\ (g - a) * nsl \in Int
    BY <1>1, <2>2, OneMore
  <2>7. StartAdjustment \in Int
    BY <1>1, <2>3
  <2>8. CASE line = 1
    <3>1. b = a + 1 /\ (g + 1) - b = g - a
      BY <1>1, <2>2, <2>8 DEF g
    <3> DEFINE at == a * t
               kept == (g - a) * nsl
               bt == b * t
               t2 == t * 2048
               e == IF g = GroupsPerLine THEN adj ELSE 0
    <3>2. bt = at + t /\ at \in Int /\ kept \in Int /\ e \in Int /\ t2 \in Int
      BY <1>1, <2>5, <2>6, <3>1
    <3>3. SecondLineDelta(line) = -t2 - e
      BY <2>3, <2>8
    <3>4. /\ SecondLineTerms(g) = (kept - at * 2048) + (start(g) - ends(g))
          /\ SecondLineTerms(g + 1) = (kept - bt * 2048) + (start(g + 1) - ends(g + 1))
      BY <2>1, <3>1
    <3>5. ends(g + 1) = ends(g) + e
      BY <2>4
    <3>6. bt * 2048 = at * 2048 + t2
      BY <1>1, <3>2
    <3> HIDE DEF at, kept, bt, t2, e
    <3> QED BY <2>4, <2>7, <3>2, <3>3, <3>4, <3>5, <3>6 DEF g
  <2>9. CASE line # 1
    <3>1. b = a /\ (g + 1) - b = g - a + 1
      BY <1>1, <2>2, <2>9 DEF g
    <3> QED BY <1>1, <2>1, <2>3, <2>4, <2>5, <2>6, <2>7, <2>9, <3>1 DEF g
  <2> QED BY <2>8, <2>9
<1> QED BY <1>2, <1>3

(* The pixels of the delay: counted as they are or to the group's end, each *)
(* lowers the offset once, also where the delay ends inside a group and     *)
(* where a line ends with a part of a group.                                *)
LEMMA DelayStep ==
    ASSUME RcInv, NEW n \in 1..3, delay_group_end <= pixels + 2,
           pixels' = pixels + n, delay_group_end' = pixels + 3, UNCHANGED slice
    PROVE  /\ Delayed \in Int /\ DelayPixels(n) \in Int
           /\ Delayed' = Delayed + DelayPixels(n)
<1>1. pixels \in Nat /\ delay_group_end \in Nat /\ cfg.initial_xmit_delay \in Nat
  BY OffsetTypes DEF RcInv, TypeOK
<1>2. DelayEnd \in Nat /\ DelayEnd' = DelayEnd
  BY <1>1 DEF DelayEnd, UMax, slice
<1>3. opt' = opt
  BY DEF slice
<1> QED BY <1>1, <1>2, <1>3 DEF Delayed, DelayPixels, UMin, UMax

LEMMA DelayTermStep ==
    ASSUME NEW d \in Int, NEW m \in Int, cfg.bits_per_pixel \in Int
    PROVE  /\ DelayTerm(d) \in Int
           /\ DelayTerm(d + m) = DelayTerm(d) + m * cfg.bits_per_pixel * 128
<1> DEFINE b == cfg.bits_per_pixel
<1>1. b \in Int
  OBVIOUS
<1> HIDE DEF b
<1>2. (d + m) * b = d * b + m * b /\ d * b \in Int /\ m * b \in Int
  BY <1>1
<1>3. /\ DelayTerm(d) = d * b * 128 /\ DelayTerm(d + m) = (d + m) * b * 128
  BY DEF DelayTerm, b
<1> QED BY <1>2, <1>3 DEF b

(* Where the groups are: a line has GroupsPerLine of them.                  *)
PlaceInv ==
    phase # "done" =>
      \E k \in 0 .. GroupsPerLine - 1 : x = 3 * k /\ groups = y * GroupsPerLine + k

LedgerInv ==
    /\ delay_group_end <= pixels + 2
    /\ IF clamp_offset THEN offset_q11 <= FinalOffset
       ELSE /\ groups > 0 => offset_q11 >= FinalOffset
            /\ offset_q11 = Ledger

LEMMA LedgerStutter ==
    ASSUME LedgerInv, UNCHANGED <<slice, buffer, model>>
    PROVE  LedgerInv'
<1>1. /\ UNCHANGED <<cfg, opt, groups, pixels>>
      /\ UNCHANGED <<offset_q11, clamp_offset, delay_group_end>>
  BY DEF slice, buffer, model
<1>2. Ledger' = Ledger
  BY <1>1 DEF Ledger, FirstLineTerms, LaterLineTerms, SecondLineTerms, DelayTerm, Delayed,
              DelayEnd, First, Second, GroupsPerLine, V12
<1>3. FinalOffset' = FinalOffset
  BY <1>1 DEF FinalOffset
<1> QED BY <1>1, <1>2, <1>3 DEF LedgerInv

(* OffsetLedger is the second part of LedgerInv.                            *)
LEMMA LedgerIsOffset ==
    ASSUME LedgerInv
    PROVE  OffsetLedger
<1>1. CASE clamp_offset
  BY <1>1 DEF LedgerInv, OffsetLedger
<1>2. CASE ~clamp_offset
  BY <1>2, Zenon DEF LedgerInv, OffsetLedger, Ledger, FirstLineTerms, LaterLineTerms,
              SecondLineTerms, DelayTerm, Delayed, First, Second
<1> QED BY <1>1, <1>2

(* What a step that is taken does to the offset.                            *)
LEMMA OffsetStep ==
    ASSUME RcInv, NEW line \in Nat, NEW n \in 1..3, NEW m \in Int, LedgerInv,
           m = offset_q11 + StartAdjustment + OffsetDelta(line, n),
           Ledger' = Ledger + StartAdjustment + OffsetDelta(line, n),
           offset_q11' = NextOffset(line, n).q11, clamp_offset' = NextOffset(line, n).clamp,
           pixels' = pixels + n, delay_group_end' = pixels + 3, UNCHANGED slice
    PROVE  LedgerInv'
<1>1. /\ pixels \in Nat /\ offset_q11 \in Int /\ clamp_offset \in BOOLEAN
  BY DEF RcInv, TypeOK
<1>2. FinalOffset \in Int /\ FinalOffset' = FinalOffset
  BY OffsetTypes DEF FinalOffset, slice
<1>3. /\ clamp_offset' = (clamp_offset \/ m < FinalOffset)
      /\ offset_q11' = IF clamp_offset' /\ m > FinalOffset THEN FinalOffset ELSE m
  BY Zenon DEF NextOffset
<1>4. delay_group_end' <= pixels' + 2
  BY <1>1
<1>5. CASE clamp_offset'
  <2>1. offset_q11' <= FinalOffset
    BY <1>2, <1>3, <1>5
  <2> QED BY <1>2, <1>4, <1>5, <2>1 DEF LedgerInv
<1>6. CASE ~clamp_offset'
  <2>1. ~clamp_offset /\ offset_q11' = m
    BY <1>1, <1>3, <1>6
  <2>2. offset_q11 = Ledger
    BY <2>1 DEF LedgerInv
  <2>3. offset_q11' >= FinalOffset
    <3>1. ~(m < FinalOffset)
      BY <1>3, <1>6, Zenon
    <3> QED BY <1>2, <2>1, <3>1
  <2> QED BY <1>2, <1>4, <1>6, <2>1, <2>2, <2>3 DEF LedgerInv
<1> QED BY <1>5, <1>6

(* The lines that the rate control counts its groups on.                    *)
LEMMA LineOfGroup ==
    ASSUME RcInv, LoopInv, PlaceInv, phase # "done"
    PROVE  /\ y = 0 <=> groups < GroupsPerLine
           /\ y = 1 <=> (groups >= GroupsPerLine /\ groups < 2 * GroupsPerLine)
           /\ (y = 1 /\ pixels = cfg.slice_width) <=> groups = GroupsPerLine
<1> DEFINE G == GroupsPerLine
           w == cfg.slice_width
           yG == y * G
<1>1. /\ G \in Nat \ {0} /\ w \in Nat \ {0} /\ y \in Nat /\ x \in Nat
      /\ pixels = y * w + x
  BY OffsetTypes, SliceSize DEF LoopInv
<1>2. PICK k \in 0 .. G - 1 : x = 3 * k /\ groups = yG + k
  BY DEF PlaceInv
<1> HIDE DEF G, w
<1>3. /\ yG \in Nat
      /\ y = 0 => yG = 0
      /\ y = 1 => yG = G /\ pixels = w + x
      /\ y > 1 => yG >= 2 * G
  <2>1. y = 0 => yG = 0
    BY <1>1
  <2>2. y = 1 => yG = G /\ pixels = w + x
    BY <1>1
  <2>3. CASE y > 1
    <3>1. PICK j \in Nat : y = j + 2
      <4>1. y - 2 \in Nat /\ y = (y - 2) + 2
        BY <1>1, <2>3
      <4> QED BY <4>1
    <3>2. (j + 2) * G = j * G + 2 * G /\ j * G \in Nat
      BY <1>1, <3>1
    <3> QED BY <1>1, <3>1, <3>2
  <2> QED BY <1>1, <2>1, <2>2, <2>3
<1> HIDE DEF yG
<1>4. groups \in Nat
  BY <1>1, <1>2, <1>3
<1> QED BY <1>1, <1>2, <1>3, <1>4 DEF G, w

LEMMA PlaceNext ==
    ASSUME RcInv, LoopInv, PlaceInv, Step, cfg' = cfg, groups' = groups + 1
    PROVE  PlaceInv'
<1> DEFINE G == GroupsPerLine
           w == cfg.slice_width
<1>1. phase = "step" /\ AfterStep
  BY DEF Step
<1>2. CASE failed' # "no"
  BY <1>1, <1>2 DEF AfterStep, Finish, PlaceInv
<1>3. CASE failed' = "no"
  <2>1. IF x + 3 < w THEN x' = x + 3 /\ y' = y ELSE x' = 0 /\ y' = y + 1
    BY <1>1, <1>3 DEF AfterStep, Advance
  <2>2. /\ G \in Nat \ {0} /\ w \in Nat \ {0} /\ y \in Nat /\ x \in 0 .. w - 1
        /\ G = (w + 2) \div 3 /\ G' = G
    BY OffsetTypes, SliceSize DEF LoopInv, GroupsPerLine
  <2>3. PICK k \in 0 .. G - 1 : x = 3 * k /\ groups = y * G + k
    BY <1>1 DEF PlaceInv
  <2> HIDE DEF G, w
  <2>4. CASE x + 3 < w
    <3>1. k + 1 \in 0 .. G - 1 /\ x' = 3 * (k + 1)
      BY <2>1, <2>2, <2>3, <2>4
    <3>2. y' * G = y * G /\ y * G \in Nat
      BY <2>1, <2>2, <2>4
    <3>3. groups' = y' * G + (k + 1)
      BY <2>3, <3>2
    <3> QED BY <2>2, <3>1, <3>3 DEF PlaceInv, G
  <2>5. CASE ~(x + 3 < w)
    <3>1. k + 1 = G
      BY <2>2, <2>3, <2>5
    <3>2. y' * G = y * G + G /\ y * G \in Nat
      BY <2>1, <2>2, <2>5
    <3>3. groups' = y' * G + 0 /\ 0 \in 0 .. G - 1 /\ x' = 3 * 0
      BY <2>1, <2>2, <2>3, <2>5, <3>1, <3>2
    <3> QED BY <2>2, <3>3 DEF PlaceInv, G
  <2> QED BY <2>4, <2>5
<1> QED BY <1>2, <1>3

LEMMA LedgerStep ==
    ASSUME RcInv, LoopInv, PlaceInv, LedgerInv, Step
    PROVE  PlaceInv' /\ LedgerInv'
<1> DEFINE n == Count
<1>1. phase = "step" /\ StepGroup(y, gn, n, report) /\ AfterStep
  BY DEF Step
<1>2. n \in 1..3 /\ y \in Nat /\ report \in GroupReports
  BY <1>1, GroupArguments, SliceSize DEF LoopInv
<1>3. /\ failed' # "no" => UNCHANGED <<slice, buffer, model, inputs>>
      /\ failed' = "no" =>
           /\ pixels' = pixels + n /\ groups' = groups + 1
           /\ offset_q11' = NextOffset(y, n).q11 /\ clamp_offset' = NextOffset(y, n).clamp
           /\ delay_group_end' = pixels + 3
           /\ UNCHANGED slice
  BY <1>1, <1>2, StepChecked
<1> HIDE DEF n
<1>4. CASE failed' # "no"
  <2>1. phase' = "done"
    BY <1>1, <1>4 DEF AfterStep, Finish
  <2>2. LedgerInv'
    BY <1>3, <1>4, LedgerStutter
  <2> QED BY <2>1, <2>2 DEF PlaceInv
<1>5. CASE failed' = "no"
  <2>1. PlaceInv'
    BY <1>3, <1>5, PlaceNext DEF slice
  <2>2. groups \in Nat /\ offset_q11 \in Int /\ delay_group_end <= pixels + 2
    BY DEF RcInv, TypeOK, LedgerInv
  <2>3. /\ FirstLineTerms(groups) \in Int /\ LaterLineTerms(groups) \in Int
        /\ FirstLineTerms(groups + 1) + LaterLineTerms(groups + 1) =
             (FirstLineTerms(groups) + LaterLineTerms(groups)) + (cfg.slice_bpg_offset
             + (IF y > 0 THEN cfg.nfl_bpg_offset ELSE -cfg.first_line_bpg_offset * 2048))
    BY <1>1, <1>2, <2>2, LineOfGroup, LineTermsStep
  <2>4. /\ FirstLineTerms(groups + 1) \in Int /\ LaterLineTerms(groups + 1) \in Int
    BY <2>2, LineTermsTypes
  <2>5. /\ SecondLineTerms(groups) \in Int
        /\ SecondLineTerms(groups + 1) =
             SecondLineTerms(groups) + (StartAdjustment + SecondLineDelta(y))
    BY <1>1, <1>2, LineOfGroup, SecondLineTermsStep
  <2>6. /\ Delayed \in Int /\ DelayPixels(n) \in Int
        /\ Delayed' = Delayed + DelayPixels(n)
    BY <1>2, <1>3, <1>5, <2>2, DelayStep
  <2>7. /\ DelayTerm(Delayed) \in Int
        /\ DelayTerm(Delayed') = DelayTerm(Delayed) + DelayPixels(n) * cfg.bits_per_pixel * 128
    BY <2>6, OffsetTypes, DelayTermStep
  <2> DEFINE c0 == (cfg.initial_offset - cfg.rc_model_size) * 2048
             a  == FirstLineTerms(groups)
             b  == LaterLineTerms(groups)
             d  == DelayTerm(Delayed)
             s  == SecondLineTerms(groups)
             a1 == FirstLineTerms(groups + 1)
             b1 == LaterLineTerms(groups + 1)
             d1 == DelayTerm(Delayed')
             s1 == SecondLineTerms(groups + 1)
             taken == DelayPixels(n) * cfg.bits_per_pixel * 128
             line  == IF y > 0 THEN cfg.nfl_bpg_offset ELSE -cfg.first_line_bpg_offset * 2048
             start == StartAdjustment
             second == SecondLineDelta(y)
             bpg   == cfg.slice_bpg_offset
  <2>8. Ledger = c0 + a + (b - d) + s
    BY Zenon DEF Ledger
  <2>9. Ledger' = c0 + a1 + (b1 - d1) + s1
    <3>1. groups' = groups + 1 /\ cfg' = cfg /\ opt' = opt
      BY <1>3, <1>5 DEF slice
    <3> QED BY <3>1 DEF Ledger, FirstLineTerms, LaterLineTerms, SecondLineTerms, DelayTerm,
                        First, Second, GroupsPerLine, V12
  <2>10. OffsetDelta(y, n) = bpg + (line - taken) + second
    BY Zenon DEF OffsetDelta
  <2>11. start \in Int /\ second \in Int
    BY OffsetTypes DEF StartAdjustment, SecondLineDelta
  <2>12. /\ bpg \in Int /\ line \in Int /\ c0 \in Int /\ taken \in Int
    <3>1. DelayPixels(n) * cfg.bits_per_pixel \in Int
      BY <2>6, OffsetTypes
    <3> QED BY <3>1, OffsetTypes
  <2> HIDE DEF c0, a, b, d, s, a1, b1, d1, s1, taken, line, start, second, bpg
  <2>13. /\ a1 + b1 = (a + b) + (bpg + line) /\ s1 = s + (start + second) /\ d1 = d + taken
         /\ a \in Int /\ b \in Int /\ a1 \in Int /\ b1 \in Int /\ s \in Int /\ d \in Int
    BY <2>3, <2>4, <2>5, <2>7 DEF a, b, d, s, a1, b1, d1, s1, taken, line, start, second, bpg
  <2>14. Ledger' = Ledger + start + OffsetDelta(y, n)
    BY <2>8, <2>9, <2>10, <2>11, <2>12, <2>13
  <2>15. offset_q11 + start + OffsetDelta(y, n) \in Int
    BY <2>2, <2>10, <2>11, <2>12
  <2>16. LedgerInv'
    BY <1>2, <1>3, <1>5, <2>14, <2>15, OffsetStep DEF start
  <2> QED BY <2>1, <2>16
<1> QED BY <1>4, <1>5

LEMMA LedgerInit ==
    ASSUME Init, RcInv
    PROVE  PlaceInv /\ LedgerInv
<1>1. /\ x = 0 /\ y = 0 /\ groups = 0 /\ pixels = 0 /\ delay_group_end = 0
      /\ clamp_offset = FALSE
      /\ offset_q11 = (cfg.initial_offset - cfg.rc_model_size) * 2048
  BY DEF Init, RcInit
<1>2. GroupsPerLine \in Nat \ {0}
  BY OffsetTypes
<1>3. PlaceInv
  <2>1. 0 \in 0 .. GroupsPerLine - 1 /\ x = 3 * 0 /\ groups = y * GroupsPerLine + 0
    BY <1>1, <1>2
  <2> QED BY <2>1 DEF PlaceInv
<1>4. First(0) = 0 /\ Second(0) = 0
  <2>1. UMin(0, GroupsPerLine) = 0
    BY <1>2 DEF UMin
  <2>2. First(0) = 0
    BY <2>1, Zenon DEF First
  <2>3. Second(0) = UMin(0 - 0, GroupsPerLine)
    BY <2>2, Zenon DEF Second
  <2> QED BY <2>1, <2>2, <2>3
<1>5. FirstLineTerms(0) = 0 /\ LaterLineTerms(0) = 0
  BY <1>4, OffsetTypes DEF FirstLineTerms, LaterLineTerms
<1>6. SecondLineTerms(0) = 0
  <2>1. ~(0 > 0) /\ ~(0 > GroupsPerLine)
    BY <1>2
  <2> QED BY <1>4, <2>1, OffsetTypes DEF SecondLineTerms
<1>7. Delayed = 0
  <2>1. DelayEnd \in Nat
    BY OffsetTypes DEF DelayEnd, UMax
  <2> QED BY <1>1, <2>1 DEF Delayed, UMin
<1>8. DelayTerm(0) = 0
  BY OffsetTypes DEF DelayTerm
<1>9. Ledger = offset_q11
  <2>1. offset_q11 \in Int
    BY DEF RcInv, TypeOK
  <2> QED BY <1>1, <1>5, <1>6, <1>7, <1>8, <2>1 DEF Ledger
<1> QED BY <1>1, <1>3, <1>9 DEF LedgerInv

LEMMA LedgerNext ==
    ASSUME SliceInv, PlaceInv, LedgerInv, [Next]_vars
    PROVE  PlaceInv' /\ LedgerInv'
<1>1. RcInv /\ LoopInv
  BY DEF SliceInv, SafeInv
<1>2. CASE Step
  BY <1>1, <1>2, LedgerStep
<1>3. ASSUME UNCHANGED <<slice, buffer, model>>,
             phase' = "done" \/ (phase # "done" /\ UNCHANGED position) \/ UNCHANGED vars
      PROVE  PlaceInv' /\ LedgerInv'
  <2>1. cfg' = cfg /\ groups' = groups
    BY <1>3 DEF slice, buffer
  <2>2. phase' # "done" => phase # "done" /\ x' = x /\ y' = y
    BY <1>3 DEF vars, position
  <2>3. PlaceInv'
    BY <2>1, <2>2 DEF PlaceInv, GroupsPerLine
  <2> QED BY <1>3, <2>3, LedgerStutter
<1>4. CASE ApplyFlat
  <2>1. UNCHANGED <<slice, buffer, model>>
    BY <1>1, <1>4, FlatCallKeeps DEF ApplyFlat
  <2>2. phase # "done" /\ UNCHANGED position
    BY <1>4 DEF ApplyFlat
  <2> QED BY <1>3, <2>1, <2>2
<1>5. CASE RefillFails \/ GroupRejected \/ CheckTail
  <2>1. UNCHANGED rc_vars /\ phase' = "done"
    BY <1>5 DEF RefillFails, GroupRejected, CheckTail, Finish
  <2> QED BY <1>3, <2>1 DEF rc_vars
<1>6. CASE Syntax
  <2>1. UNCHANGED rc_vars /\ phase # "done" /\ UNCHANGED position
    BY <1>6 DEF Syntax
  <2> QED BY <1>3, <2>1 DEF rc_vars
<1>7. CASE UNCHANGED vars
  <2>1. UNCHANGED rc_vars
    BY <1>7 DEF vars
  <2> QED BY <1>3, <1>7, <2>1 DEF rc_vars
<1> QED BY <1>2, <1>4, <1>5, <1>6, <1>7 DEF Next

(* The RC model's offset is the sum of its terms at every group of every    *)
(* slice, however the initial delay and the lines fall on the groups, until *)
(* it is clamped (rate_control.c:501-548).                                  *)
THEOREM OffsetIsItsTerms == Spec => []OffsetLedger
<1>1. Init => PlaceInv /\ LedgerInv
  <2> SUFFICES ASSUME Init PROVE PlaceInv /\ LedgerInv
    OBVIOUS
  <2>1. RcInv
    BY SliceInvInit DEF SliceInv, SafeInv
  <2> QED BY <2>1, LedgerInit
<1>2. SliceInv /\ (PlaceInv /\ LedgerInv) /\ [Next]_vars => (PlaceInv /\ LedgerInv)'
  BY LedgerNext
<1>3. SliceInv /\ (PlaceInv /\ LedgerInv) => OffsetLedger
  BY LedgerIsOffset
<1> QED BY <1>1, <1>2, <1>3, AlwaysSlice, PTL DEF Spec

-----------------------------------------------------------------------------
(* The end of a slice.                                                      *)

(* The steps left at most: three for each pixel not counted yet, and the    *)
(* check of the tail.                                                       *)
SliceStepsLeft ==
    LET left == 3 * (cfg.slice_width * cfg.slice_height - pixels)
    IN  CASE phase = "flat"   -> left + 1
          [] phase = "syntax" -> left
          [] phase = "step"   -> left - 1
          [] phase = "tail"   -> 1
          [] OTHER            -> 0

(* The group at hand has pixels of the slice.                               *)
LEMMA PixelsLeft ==
    ASSUME RcInv, LoopInv, phase \in {"flat", "syntax", "step"},
           NEW total, total = cfg.slice_width * cfg.slice_height
    PROVE  /\ total \in Nat /\ pixels \in Nat
           /\ Count \in 1..3 /\ pixels + Count <= total
<1> DEFINE w == cfg.slice_width
           h == cfg.slice_height
           k == Count
<1>1. /\ w \in Nat \ {0} /\ h \in Nat /\ y \in Nat /\ y < h /\ x \in 0 .. w - 1
      /\ pixels \in Nat /\ pixels = y * w + x /\ total = w * h
  BY SliceSize DEF LoopInv, RcInv, TypeOK
<1>2. k \in 1..3 /\ x + k <= w
  BY <1>1 DEF Count, UMin
<1> HIDE DEF w, h, k
<1>3. pixels + k <= w * h
  BY <1>1, <1>2, Position
<1>4. total \in Nat
  BY <1>1
<1> QED BY <1>1, <1>2, <1>3, <1>4 DEF k

LEMMA SliceStepsLeftIsNat == SliceInv => SliceStepsLeft \in Nat
<1> SUFFICES ASSUME SliceInv PROVE SliceStepsLeft \in Nat
  OBVIOUS
<1> DEFINE total == cfg.slice_width * cfg.slice_height
<1>1. RcInv /\ LoopInv
  BY DEF SliceInv, SafeInv
<1>2. phase \in {"flat", "syntax", "step"} =>
          total \in Nat /\ pixels \in Nat /\ Count \in 1..3 /\ pixels + Count <= total
  BY <1>1, PixelsLeft
<1>3. phase \in {"flat", "syntax", "step", "tail", "done"}
  BY <1>1 DEF LoopInv
<1>4. SliceStepsLeft = CASE phase = "flat"   -> 3 * (total - pixels) + 1
                         [] phase = "syntax" -> 3 * (total - pixels)
                         [] phase = "step"   -> 3 * (total - pixels) - 1
                         [] phase = "tail"   -> 1
                         [] OTHER            -> 0
  BY DEF SliceStepsLeft
<1> HIDE DEF total
<1> QED BY <1>2, <1>3, <1>4

(* Every step leaves fewer.                                                 *)
LEMMA SliceStepsLeftFall == SliceInv /\ Next => SliceStepsLeft' < SliceStepsLeft
<1> SUFFICES ASSUME SliceInv, Next PROVE SliceStepsLeft' < SliceStepsLeft
  OBVIOUS
<1> DEFINE total == cfg.slice_width * cfg.slice_height
           k == Count
<1>1. RcInv /\ LoopInv
  BY DEF SliceInv, SafeInv
<1>2. phase \in {"flat", "syntax", "step"} =>
          total \in Nat /\ pixels \in Nat /\ k \in 1..3 /\ pixels + k <= total
  BY <1>1, PixelsLeft
<1>3. /\ phase = "flat"   => SliceStepsLeft = 3 * (total - pixels) + 1
      /\ phase = "syntax" => SliceStepsLeft = 3 * (total - pixels)
      /\ phase = "step"   => SliceStepsLeft = 3 * (total - pixels) - 1
      /\ phase = "tail"   => SliceStepsLeft = 1
  BY DEF SliceStepsLeft
<1>4. cfg' = cfg =>
        /\ phase' = "flat"   => SliceStepsLeft' = 3 * (total - pixels') + 1
        /\ phase' = "syntax" => SliceStepsLeft' = 3 * (total - pixels')
        /\ phase' = "step"   => SliceStepsLeft' = 3 * (total - pixels') - 1
        /\ phase' = "tail"   => SliceStepsLeft' = 1
  BY DEF SliceStepsLeft
<1>5. phase' = "done" => SliceStepsLeft' = 0
  BY DEF SliceStepsLeft
<1> HIDE DEF total, k
<1>6. CASE phase' = "done" /\ phase \in {"flat", "syntax", "step", "tail"}
  BY <1>2, <1>3, <1>5, <1>6
<1>7. CASE RefillFails \/ GroupRejected \/ CheckTail
  <2>1. phase \in {"flat", "syntax", "tail"} /\ phase' = "done"
    BY <1>7 DEF RefillFails, GroupRejected, CheckTail, Finish
  <2> QED BY <1>6, <2>1
<1>8. CASE ApplyFlat
  <2>1. phase = "flat" /\ ApplyFlatLine(flat_group = gn, flat_type, x = 0 /\ y > 0)
    BY <1>8 DEF ApplyFlat
  <2>2. failed' = "no" /\ UNCHANGED <<slice, buffer>>
    BY <1>1, <2>1, FlatCallKeeps
  <2>3. phase' = "syntax" /\ cfg' = cfg /\ pixels' = pixels
    BY <1>8, <2>2 DEF ApplyFlat, slice, buffer
  <2> QED BY <1>2, <1>3, <1>4, <2>1, <2>3
<1>9. CASE Syntax
  <2>1. phase = "syntax" /\ phase' = "step" /\ cfg' = cfg /\ pixels' = pixels
    BY <1>9 DEF Syntax, rc_vars, slice, buffer
  <2> QED BY <1>2, <1>3, <1>4, <2>1
<1>10. CASE Step
  <2>1. phase = "step" /\ StepGroup(y, gn, k, report) /\ AfterStep
    BY <1>10 DEF Step, k
  <2>2. y \in Nat /\ k \in Nat /\ report \in GroupReports
    BY <1>1, <1>2, <2>1, SliceSize DEF LoopInv
  <2>3. failed' = "no" => pixels' = pixels + k /\ UNCHANGED slice
    BY <1>1, <2>1, <2>2, StepChecked
  <2>4. CASE failed' # "no"
    <3>1. phase' = "done"
      BY <2>1, <2>4 DEF AfterStep, Finish
    <3> QED BY <1>6, <2>1, <3>1
  <2>5. CASE failed' = "no"
    <3>1. phase' \in {"flat", "tail"} /\ cfg' = cfg /\ pixels' = pixels + k
      BY <2>1, <2>3, <2>5 DEF AfterStep, Advance, slice
    <3> QED BY <1>2, <1>3, <1>4, <2>1, <3>1
  <2> QED BY <2>4, <2>5
<1> QED BY <1>7, <1>8, <1>9, <1>10 DEF Next

(* decode_slice, for every slice, data and set of readings: a natural       *)
(* number falls with every step, so that the loops come to an end.          *)
THEOREM SliceLoopsEnd == Spec => [](SliceStepsLeft \in Nat) /\ [][SliceStepsLeft' < SliceStepsLeft]_vars
<1>1. SliceInv /\ [Next]_vars => [SliceStepsLeft' < SliceStepsLeft]_vars
  BY SliceStepsLeftFall
<1> QED BY <1>1, SliceStepsLeftIsNat, AlwaysSlice, PTL DEF Spec

=============================================================================
