---------------------------- MODULE RateControl ----------------------------
(***************************************************************************)
(* The rate control of one slice (rate_control.c, struct dsc_rc): the      *)
(* entry points dsc_rc_apply_flat_line and dsc_rc_step_group, called in    *)
(* any order. A group report g is what the entropy decoder hands over      *)
(* (struct dsc_rc_group).                                                  *)
(*                                                                         *)
(* A failed controller refuses every later call, and its caller gives the  *)
(* slice up: what a failing call has already written is never read, so a   *)
(* failure changes nothing here but the reason in failed. The statistics   *)
(* counters are left out.                                                  *)
(*                                                                         *)
(* have_inputs, have_lag and have_step_group are set by every step that    *)
(* succeeds and by nothing else: groups > 0 stands for each.               *)
(***************************************************************************)
EXTENDS QpSelect, Drain, FiniteSets

CONSTANTS Configs,      \* the PPS parameter sets
          Readings,     \* the readings of the open questions
          Reports,      \* the group reports that the caller may hand over
          MaxScale,     \* 65535 in the code
          MaxOffset,    \* 10^12 in the code
          GroupSizes,   \* the pixels of a group that the caller may report
          MaxGroups     \* bound of a run on the number of groups

(* The configurations that dsc_rc_init accepts, after validate.            *)
RcAccepts(c) ==
    /\ ValidFormat(c) /\ ValidChunk(c)
    /\ c.slice_height \in Nat \ {0}
    /\ c.initial_dec_delay \in Nat
    /\ c.rc_model_size \in Nat \ {0}
    /\ c.initial_offset \in 0 .. c.rc_model_size - 1
    /\ c.final_offset \in 0 .. c.rc_model_size - 1
    /\ c.initial_scale_value \in 8..63
    /\ c.scale_decrement_interval \in Nat
    /\ c.initial_scale_value > 8 => c.scale_decrement_interval > 0
    /\ c.scale_increment_interval \in Nat
    /\ c.slice_bpg_offset \in Nat /\ c.nfl_bpg_offset \in Nat /\ c.nsl_bpg_offset \in Nat
    /\ c.first_line_bpg_offset \in Nat /\ c.second_line_bpg_offset \in Nat
    /\ c.second_line_offset_adj \in Nat
    /\ c.rc_quant_incr_limit0 \in Nat /\ c.rc_quant_incr_limit1 \in Nat
    /\ c.rc_edge_factor \in 0..15
    /\ c.rc_tgt_offset_high \in 0..15 /\ c.rc_tgt_offset_low \in 0..15
    /\ c.rc_buf_thresh \in [0..13 -> 0..255]
    /\ \A i \in 1..13 : c.rc_buf_thresh[i - 1] < c.rc_buf_thresh[i]
    /\ c.flatness_min_qp \in Nat /\ c.flatness_max_qp \in Nat
    /\ c.range_min_qp \in [0..14 -> Nat] /\ c.range_max_qp \in [0..14 -> Nat]
    /\ c.range_bpg_offset \in [0..14 -> 0..63]
    /\ \A i \in 0..14 : /\ c.range_min_qp[i] <= c.range_max_qp[i]
                        /\ c.range_max_qp[i] <= MaxQp(c)

ASSUME ConfigsAssumption == \A c \in Configs : RcAccepts(c)

ASSUME ReadingsAssumption == \A o \in Readings : o.frac_reset \in FracReadings

(* A group holds at most four units of 4 * 16 + 4 bits.                    *)
GroupReports == [actual : 0..512, ideal : 0..512, mpp : 0..4, predicted : [0..3 -> 0..17],
                 ich : BOOLEAN, zero : BOOLEAN, flat : BOOLEAN]

ASSUME ReportsAssumption == Reports \subseteq GroupReports

ASSUME BoundsAssumption == MaxScale \in Nat /\ MaxOffset \in Nat /\ MaxGroups \in Nat
                            /\ GroupSizes \subseteq Nat

Reasons == {"arguments", "overflow", "removal", "underflow", "scale", "model", "qp"}

VARIABLES
    cfg, opt,                               \* of this slice
    failed,                                 \* "no" or the reason
    fullness, pixels, groups,               \* the buffer
    drain, shadow,                          \* bit removal, the selected and the other reading
    offset_q11, clamp_offset, delay_group_end,
    scale, scale_clock, increasing, increase_next,
    qp, pending_qp,                         \* of the next group and of the one after it
    last_qp, penultimate_qp, used_qp,
    range, lag_range,
    last_inputs, previous_ideal,
    bit_save, mpp_state,
    step_group, step_y, step_bit_save, step_mpp_state,  \* of the last step, for a re-run
    flat_override,
    mpp_groups      \* history: groups in MPP since the mode was last reset by line or flatness

slice    == <<cfg, opt>>
buffer   == <<fullness, pixels, groups, drain, shadow>>
model    == <<offset_q11, clamp_offset, delay_group_end>>
scaling  == <<scale, scale_clock, increasing, increase_next>>
qps      == <<qp, pending_qp, last_qp, penultimate_qp, used_qp>>
ranges   == <<range, lag_range>>
inputs   == <<last_inputs, previous_ideal>>
mode     == <<bit_save, mpp_state>>
step     == <<step_group, step_y, step_bit_save, step_mpp_state, mpp_groups>>

rc_vars == <<slice, failed, buffer, model, scaling, qps, ranges, inputs, mode, step,
             flat_override>>

NoInputs == [fullness |-> 0, model |-> 0, target |-> 0, actual |-> 0, ideal |-> 0,
             previous_ideal |-> 0, min_qp |-> 0, max_qp |-> 0, zero |-> FALSE,
             bit_save |-> 0, top_qp |-> 0, overflow |-> 0]

NoGroup == [actual |-> 0, ideal |-> 0, mpp |-> 0, predicted |-> [u \in 0..3 |-> 0],
            ich |-> FALSE, zero |-> FALSE, flat |-> FALSE]

RcInit ==
    /\ cfg \in Configs /\ opt \in Readings
    /\ failed = "no"
    /\ fullness = 0 /\ pixels = 0 /\ groups = 0
    /\ drain = DrainStart /\ shadow = DrainStart
    /\ offset_q11 = (cfg.initial_offset - cfg.rc_model_size) * 2048
    /\ clamp_offset = FALSE /\ delay_group_end = 0
    /\ scale = cfg.initial_scale_value /\ scale_clock = 0
    /\ increasing = FALSE /\ increase_next = FALSE
    /\ qp = 0 /\ pending_qp = 0 /\ last_qp = 0 /\ penultimate_qp = 0 /\ used_qp = 0
    /\ range = 0 /\ lag_range = 0
    /\ last_inputs = NoInputs /\ previous_ideal = 0
    /\ bit_save = 0 /\ mpp_state = 0
    /\ step_group = NoGroup /\ step_y = 0 /\ step_bit_save = 0 /\ step_mpp_state = 0
    /\ flat_override = FALSE
    /\ mpp_groups = 0

Fail(reason) ==
    /\ failed' = reason
    /\ UNCHANGED <<slice, buffer, model, scaling, qps, ranges, inputs, mode, step,
                   flat_override>>

-----------------------------------------------------------------------------
(* Flatness: dsc_rc_apply_flat_line.                                       *)

(* Mutant: the subtraction without its floor.                              *)
FourBelowNoFloor(q) == q - 4

FourBelow(q) == UMax(q - 4, 0)

(* DSC 1.2 adjusts the first group of every line after the first as very   *)
(* flat, whatever was signalled.                                           *)
LineFlat(line_start) == V12(cfg) /\ line_start

(* The QP that range 14's maximum is compared with (OQ-18), and when the   *)
(* comparison skips the adjustment (OQ-34).                                *)
FlatAtTop(line_start) ==
    LET current == IF opt.flat_max_qp = "previous" THEN used_qp ELSE qp
    IN  IF V12(cfg) /\ (line_start \/ opt.flat_top = "at_or_above")
        THEN current >= TopRangeQp(cfg)
        ELSE current = TopRangeQp(cfg)

(* OQ-16: very flat is treated as somewhat flat below somewhatFlatQpThresh,*)
(* and OQ-25 whether a line start is.                                      *)
Demoted(line_start) ==
    /\ ~(LineFlat(line_start) /\ opt.line_flat = "very")
    /\ \/ opt.very_flat = "group_qp" /\ qp < FlatTypeQp(cfg)
       \/ opt.very_flat = "previous_qp" /\ used_qp < FlatTypeQp(cfg)

FlatQp(very, line_start, q) ==
    IF (very \/ LineFlat(line_start)) /\ ~Demoted(line_start)
    THEN VeryFlatQp(cfg)
    ELSE FourBelow(q)

(* The prev2Qp of a re-run: adjusted like the group's QP in DSC 1.2.       *)
RerunPrev2(very, line_start) ==
    IF V12(cfg) THEN FlatQp(very, line_start, used_qp) ELSE used_qp

(* Mutant: the re-run goes on from the mode that the step left.            *)
RerunModeFromLast(master, prev2) ==
    IF V12(cfg) /\ opt.rerun_bitsave = "redo" /\ groups > 0
    THEN BitSaveUpdate(cfg, opt, step_y, step_group,
                       [bit_save |-> step_bit_save, mpp_state |-> mpp_state],
                       master, prev2)
    ELSE [bit_save |-> bit_save, mpp_state |-> mpp_state]

(* OQ-32: the last step's bit-save mode again, from the state before it.   *)
RerunMode(master, prev2) ==
    IF V12(cfg) /\ opt.rerun_bitsave = "redo" /\ groups > 0
    THEN BitSaveUpdate(cfg, opt, step_y, step_group,
                       [bit_save |-> step_bit_save, mpp_state |-> step_mpp_state],
                       master, prev2)
    ELSE [bit_save |-> bit_save, mpp_state |-> mpp_state]

FlatAdjusts(flat, very, line_start) ==
    /\ flat \/ LineFlat(line_start)
    /\ ~FlatAtTop(line_start)
    /\ \/ FlatQp(very, line_start, qp) # qp
       \/ V12(cfg) /\ opt.flat_rerun = "every"

(* Mutants: the pipeline registers that a re-run replaces.                 *)
NoPenultimate(master, redo) ==
    /\ pending_qp' = redo /\ last_qp' = redo /\ UNCHANGED penultimate_qp
QueueKept(master, redo) ==
    /\ last_qp' = redo /\ penultimate_qp' = master /\ UNCHANGED pending_qp

(* OQ-1: the queued QP is replaced by the re-run, or stands.               *)
Restart(master, redo) ==
    IF opt.flat_restart = "in_flight"
    THEN pending_qp' = redo /\ last_qp' = redo /\ penultimate_qp' = master
    ELSE last_qp' = master /\ UNCHANGED <<pending_qp, penultimate_qp>>

AdjustFlat(very, line_start) ==
    LET master == FlatQp(very, line_start, qp)
        prev2  == RerunPrev2(very, line_start)
        redone == RerunMode(master, prev2)
        in     == [last_inputs EXCEPT !.bit_save =
                     IF V12(cfg) /\ opt.rerun_bitsave = "redo" /\ groups > 0
                     THEN redone.bit_save ELSE @]
        redo   == IF groups > 0 THEN ShortTerm(cfg, opt, in, master, prev2) ELSE pending_qp
    IN  IF opt.flat_restart = "in_flight" /\ redo > MaxQp(cfg)
        THEN Fail("qp")
        ELSE /\ qp' = master
             /\ flat_override' = (master # qp)
             /\ Restart(master, redo)
             /\ bit_save' = redone.bit_save /\ mpp_state' = redone.mpp_state
             /\ last_inputs' = in
             /\ UNCHANGED <<slice, failed, buffer, model, scaling, used_qp, ranges,
                            previous_ideal, step>>

ApplyFlatLine(flat, very, line_start) ==
    /\ failed = "no"
    /\ IF FlatAdjusts(flat, very, line_start)
       THEN AdjustFlat(very, line_start)
       ELSE /\ flat_override' = FALSE
            /\ UNCHANGED <<slice, failed, buffer, model, scaling, qps, ranges, inputs, mode,
                           step>>

-----------------------------------------------------------------------------
(* One decoded group: dsc_rc_step_group.                                   *)

ArgumentsOk(y, groupnum, n, g) ==
    /\ n \in 1..3 /\ g.actual <= 512 /\ g.ideal <= 512
    /\ groupnum = groups
    /\ y = pixels \div cfg.slice_width
    /\ pixels + n <= cfg.slice_width * cfg.slice_height
    /\ (pixels % cfg.slice_width) + n <= cfg.slice_width

BufferSize(c) == ((c.initial_xmit_delay + c.initial_dec_delay) * c.bits_per_pixel) \div 16

(* The group's pixels, one after the other, under reading r.               *)
DrainGroup(n, r, d) ==
    LET one == DrainPixel(cfg, pixels + 1, r, d)
        two == IF n < 2 THEN one ELSE DrainPixel(cfg, pixels + 2, r, one)
    IN  IF n < 3 THEN two ELSE DrainPixel(cfg, pixels + 3, r, two)

(* Mutant: decrements that go on below unity.                              *)
DecrementsBelowUnity(y) == groups > 0 /\ (y = 0 \/ opt.scale_line = "until_unity")

(* OQ-14 and OQ-43: from which group on, and on which lines.               *)
ScaleDecrements(y) ==
    /\ groups > 0 \/ opt.scale_dec = "from_group_0"
    /\ scale > 8
    /\ y = 0 \/ opt.scale_line = "until_unity"

(* OQ-42: the first group counts, but may keep the scale.                  *)
NextScale(y) ==
    IF increase_next
      THEN [scale |-> 9, clock |-> 0, increasing |-> TRUE]
    ELSE IF increasing
      THEN IF scale_clock + 1 >= cfg.scale_increment_interval
           THEN [scale |-> scale + 1, clock |-> 0, increasing |-> TRUE]
           ELSE [scale |-> scale, clock |-> scale_clock + 1, increasing |-> TRUE]
    ELSE IF ScaleDecrements(y)
      THEN IF scale_clock + 1 >= cfg.scale_decrement_interval
           THEN [scale |-> IF groups > 0 \/ opt.scale_first = "group" THEN scale - 1 ELSE scale,
                 clock |-> 0, increasing |-> FALSE]
           ELSE [scale |-> scale, clock |-> scale_clock + 1, increasing |-> FALSE]
    ELSE [scale |-> scale, clock |-> scale_clock, increasing |-> FALSE]

(* OQ-12: the initial delay, in pixels, that lowers the offset.            *)
DelayEnd == IF opt.delay_offset = "exclusive" THEN UMax(cfg.initial_xmit_delay - 1, 0)
            ELSE cfg.initial_xmit_delay

(* Mutant: three pixels for every group, whatever is left of the delay.    *)
DelayThree(n) == IF pixels < DelayEnd THEN 3 ELSE 0

(* OQ-19: the pixels of this group inside the delay, counted as they are   *)
(* or to the group's end as if it had three.                               *)
DelayPixels(n) ==
    IF opt.delay_partial = "group_end"
    THEN UMax(UMin(pixels + 3, DelayEnd) - UMin(delay_group_end, DelayEnd), 0)
    ELSE UMin(UMax(DelayEnd - pixels, 0), n)

(* OQ-40: second_line_offset_adj is added at the start of the slice.       *)
StartAdjustment ==
    IF groups = 0 /\ V12(cfg) /\ opt.offset_adj = "start"
    THEN cfg.second_line_offset_adj * 2048 ELSE 0

(* The second-line terms of DSC 1.2, zero unless native 4:2:0 is used.     *)
SecondLineDelta(y) ==
    IF ~V12(cfg) THEN 0
    ELSE (IF y = 1 THEN -cfg.second_line_bpg_offset * 2048 ELSE cfg.nsl_bpg_offset)
         - (IF y = 1 /\ pixels = cfg.slice_width
            THEN cfg.second_line_offset_adj * 2048 ELSE 0)

OffsetDelta(y, n) ==
    cfg.slice_bpg_offset
    + (IF y > 0 THEN cfg.nfl_bpg_offset ELSE -cfg.first_line_bpg_offset * 2048)
    - DelayPixels(n) * cfg.bits_per_pixel * 128
    + SecondLineDelta(y)

FinalOffset == (cfg.final_offset - cfg.rc_model_size) * 2048

(* The offset rises to its final value and stays there once it has been    *)
(* below it.                                                               *)
NextOffset(y, n) ==
    LET moved == offset_q11 + StartAdjustment + OffsetDelta(y, n)
        clamp == clamp_offset \/ moved < FinalOffset
    IN  [q11 |-> IF clamp /\ moved > FinalOffset THEN FinalOffset ELSE moved, clamp |-> clamp]

(* OQ-2: the number of thresholds reached, which rise strictly.            *)
RangeOf(transformed) ==
    LET threshold(i) == cfg.rc_buf_thresh[i] * 64 - cfg.rc_model_size
    IN  Cardinality({i \in 0..13 : \/ transformed > threshold(i)
                                   \/ opt.threshold_eq = "upper" /\ transformed = threshold(i)})

(* Mutant: the range lags under no reading.                                *)
RangeOfThisGroup(computed) == computed

(* OQ-11: the reading in which a group uses the range of the step before.  *)
RangeUsed(computed) == IF opt.rc_pipeline = "range_lag" THEN lag_range ELSE computed

SignedBpg(r) == IF cfg.range_bpg_offset[r] >= 32 THEN cfg.range_bpg_offset[r] - 64
                ELSE cfg.range_bpg_offset[r]

(* rcXformBpgOffset; OQ-7: DSC 1.2's terms are added or replace the others.*)
XformBpg(y) ==
    LET first  == IF y > 0 THEN -(cfg.nfl_bpg_offset \div 2048) ELSE cfg.first_line_bpg_offset
        second == IF y = 1 THEN cfg.second_line_bpg_offset ELSE -(cfg.nsl_bpg_offset \div 2048)
    IN  IF ~V12(cfg) THEN first
        ELSE IF opt.bpg_combine = "add" THEN first + second ELSE second

(* rcTgtBitsGroup, with the readings of OQ-15 and OQ-30.                   *)
TargetBits(y, n, r) ==
    LET px     == IF opt.partial_target = "pixels" THEN n ELSE 3
        target == (px * cfg.bits_per_pixel + 8) \div 16 + SignedBpg(r) + XformBpg(y)
                  - (cfg.slice_bpg_offset \div 2048)
    IN  IF V12(cfg) /\ opt.target_floor = "zero" THEN UMax(target, 0) ELSE target

OverflowLevel == IF V12(cfg) /\ cfg.native = "422" THEN -224 ELSE -172

(* DSC 1.2's bit-save mode after the group.                                *)
NextMode(y, g) ==
    LET m == [bit_save |-> bit_save, mpp_state |-> mpp_state]
    IN  IF V12(cfg) THEN BitSaveUpdate(cfg, opt, y, g, m, last_qp, qp) ELSE m

(* What the short-term rate control is given: the buffer after the group,  *)
(* its target and the limits of range r.                                   *)
GroupInputs(y, n, g, left, offset, r, saved) ==
    [fullness |-> left, model |-> left + offset, target |-> TargetBits(y, n, r),
     actual |-> g.actual, ideal |-> g.ideal, previous_ideal |-> previous_ideal,
     min_qp |-> cfg.range_min_qp[r], max_qp |-> cfg.range_max_qp[r],
     zero |-> g.zero, bit_save |-> saved.bit_save,
     top_qp |-> 2 * cfg.bits_per_component - 1, overflow |-> OverflowLevel]

(* The group's QP moves up the pipeline: the queued QP is next, the        *)
(* selected one is queued.                                                 *)
ShiftQps(next) ==
    /\ used_qp' = qp /\ penultimate_qp' = last_qp /\ last_qp' = next
    /\ qp' = pending_qp /\ pending_qp' = next

StepGroup(y, groupnum, n, g) ==
    LET filled      == fullness + g.actual
        drained     == DrainGroup(n, opt.frac_reset, drain)
        left        == filled - (drained.removed - drain.removed)
        scaled      == NextScale(y)
        moved       == NextOffset(y, n)
        offset      == moved.q11 \div 2048
        transformed == ((left + offset) * scaled.scale) \div 8
        computed    == RangeOf(transformed)
        r           == RangeUsed(computed)
        saved       == NextMode(y, g)
        in          == GroupInputs(y, n, g, left, offset, r, saved)
        next        == ShortTerm(cfg, opt, in, last_qp, penultimate_qp)
        reason      == IF ~ArgumentsOk(y, groupnum, n, g) THEN "arguments"
                       ELSE IF filled > BufferSize(cfg) THEN "overflow"
                       ELSE IF drained.failed THEN "removal"
                       ELSE IF left < 0 THEN "underflow"
                       ELSE IF scaled.scale > MaxScale \/ offset \notin -MaxOffset .. MaxOffset
                         THEN "scale"
                       ELSE IF transformed > 0 THEN "model"
                       ELSE IF next > MaxQp(cfg) THEN "qp"
                       ELSE "no"
    IN  /\ failed = "no"
        /\ IF reason # "no"
           THEN Fail(reason)
           ELSE /\ fullness' = left /\ pixels' = pixels + n /\ groups' = groups + 1
                /\ drain' = drained
                /\ shadow' = DrainGroup(n, OtherFracReading(opt.frac_reset), shadow)
                /\ scale' = scaled.scale /\ scale_clock' = scaled.clock
                /\ increasing' = scaled.increasing
                /\ offset_q11' = moved.q11 /\ clamp_offset' = moved.clamp
                /\ delay_group_end' = pixels + 3
                /\ increase_next' = /\ ~scaled.increasing
                                    /\ cfg.scale_increment_interval > 0
                                    /\ y > 0
                                    /\ pixels + n >= cfg.initial_xmit_delay
                                    /\ offset > -cfg.rc_model_size
                /\ range' = r
                /\ lag_range' = IF opt.rc_pipeline = "range_lag" THEN computed ELSE lag_range
                /\ last_inputs' = in /\ previous_ideal' = g.ideal
                /\ bit_save' = saved.bit_save /\ mpp_state' = saved.mpp_state
                /\ IF V12(cfg)
                   THEN /\ step_group' = g /\ step_y' = y
                        /\ step_bit_save' = bit_save /\ step_mpp_state' = mpp_state
                        /\ mpp_groups' = IF y = 0 \/ g.flat THEN 0
                                         ELSE IF g.mpp >= 3 THEN mpp_groups + 1 ELSE mpp_groups
                   ELSE UNCHANGED step
                /\ ShiftQps(next)
                /\ UNCHANGED <<slice, failed, flat_override>>

-----------------------------------------------------------------------------
(* The controller with an arbitrary caller: any flatness, at any time, and *)
(* groups of any size.                                                     *)

RcNext ==
    \/ \E flat, very, line_start \in BOOLEAN : ApplyFlatLine(flat, very, line_start)
    \/ /\ groups < MaxGroups
       /\ \E n \in GroupSizes, g \in Reports :
            StepGroup(pixels \div cfg.slice_width, groups, n, g)

RcSpec == RcInit /\ [][RcNext]_rc_vars

-----------------------------------------------------------------------------
(* Properties.                                                             *)

QpRange == 0 .. MaxQp(cfg)

Inputs == [fullness : Nat, model : Int, target : Int, actual : 0..512, ideal : 0..512,
           previous_ideal : 0..512, min_qp : Nat, max_qp : Nat, zero : BOOLEAN,
           bit_save : 0..2, top_qp : Nat, overflow : Int]

(* The type invariant. That every QP stays on the scale of the bit depth   *)
(* is what its tables (qlevel, ranges) are indexed with.                   *)
TypeOK ==
    /\ cfg \in Configs /\ opt \in Readings
    /\ failed \in Reasons \cup {"no"}
    /\ fullness \in Nat /\ pixels \in Nat /\ groups \in Nat
    /\ drain \in DrainRecord /\ shadow \in DrainRecord
    /\ offset_q11 \in Int /\ clamp_offset \in BOOLEAN /\ delay_group_end \in Nat
    /\ scale \in Nat /\ scale_clock \in Nat
    /\ increasing \in BOOLEAN /\ increase_next \in BOOLEAN
    /\ qp \in QpRange /\ pending_qp \in QpRange
    /\ last_qp \in QpRange /\ penultimate_qp \in QpRange /\ used_qp \in QpRange
    /\ range \in 0..14 /\ lag_range \in 0..14
    /\ last_inputs \in Inputs /\ previous_ideal \in 0..512
    /\ bit_save \in 0..2 /\ mpp_state \in 0..2
    /\ step_group \in GroupReports /\ step_y \in Nat
    /\ step_bit_save \in 0..2 /\ step_mpp_state \in 0..2
    /\ flat_override \in BOOLEAN
    /\ mpp_groups \in Nat

(* In-flight reading (OQ-1): the registers that the next short-term RC     *)
(* reads as prevQp and prev2Qp are the queued QP and the QP of the group   *)
(* being decoded, whatever was overridden on the way (rate_control.c:302). *)
QpCoherent ==
    opt.flat_restart = "in_flight" => last_qp = pending_qp /\ penultimate_qp = qp

(* In-flight reading: the queued QP is always what the short-term RC gives *)
(* for the inputs kept from the last step, starting from the QP that the   *)
(* current group really has. So a re-run only replaces the starting QP of  *)
(* the cycle already run (rate_control.c:280-294).                         *)
QueuedQpReproducible ==
    opt.flat_restart = "in_flight" /\ groups > 0 =>
      \E prev2 \in {used_qp} \cup (IF V12(cfg) THEN {FourBelow(used_qp), VeryFlatQp(cfg)} ELSE {}) :
         pending_qp = ShortTerm(cfg, opt, last_inputs, qp, prev2)

(* For configurations that decode.c accepts, two of the failure returns    *)
(* are dead in every reading: chunk padding is always possible, and no QP  *)
(* leaves the scale (rate_control.c:303, 339, 650).                        *)
DeadFailures == failed \notin {"removal", "qp"}

(* The range of the buffer model as the last step left it.                 *)
ModelRange == RangeOf((last_inputs.model * scale) \div 8)

(* The limits of a group's QP are those of the range that the buffer model *)
(* had after the group before, in the range-lag reading, and of range 0    *)
(* for the first group; in the other reading of the one it has after this  *)
(* group. No flatness re-run between the two steps moves the model or the  *)
(* range that is kept (OQ-11, rate_control.c:583-600).                     *)
RangesLag ==
    [][groups' > groups =>
         /\ range' = IF opt.rc_pipeline # "range_lag" THEN ModelRange'
                     ELSE IF groups = 0 THEN 0 ELSE ModelRange
         /\ last_inputs'.min_qp = cfg.range_min_qp[range']
         /\ last_inputs'.max_qp = cfg.range_max_qp[range']]_rc_vars

(* A re-run recomputes the mode of the last step; it does not count its    *)
(* MPP group a second time (OQ-32).                                        *)
MppCountedOnce == mpp_state <= mpp_groups

(* The scale falls to unity, turns once, and only rises from then on; the  *)
(* offset, once it has been below its final value, never rises above it    *)
(* again (rate_control.c:479-500, 543-548).                                *)
OneWay ==
    [][/\ scale' >= 8
       /\ increasing => increasing' /\ scale' >= scale
       /\ ~increasing /\ ~increasing' => scale' <= scale
       /\ clamp_offset => clamp_offset' /\ offset_q11' <= FinalOffset]_rc_vars

=============================================================================
