------------------------------ MODULE QpSelect ------------------------------
(***************************************************************************)
(* The short-term rate control: how the QP that follows a group is chosen  *)
(* (rate_control.c, short_term and its helpers), and DSC 1.2's bit-save    *)
(* mode. All are functions of a configuration c, the inputs of one         *)
(* evaluation in (struct dsc_rc_inputs), the previous QPs and the readings *)
(* o of the open questions.                                                *)
(***************************************************************************)
EXTENDS DscFormat

Clamp(v, lo, hi) == IF v < lo THEN lo ELSE IF v > hi THEN hi ELSE v

(* Figure 6-13's permission test. OQ-5: which side of prev2 takes limit0.  *)
PermitIncrement(c, o, cur, prev2, edge) ==
    LET first == IF o.incr_order = "swapped" THEN cur > prev2 ELSE cur < prev2
    IN  \/ cur = prev2 /\ edge
        \/ cur # prev2 /\ first /\ edge /\ cur < c.rc_quant_incr_limit0
        \/ cur # prev2 /\ ~first /\ cur < c.rc_quant_incr_limit1

(* Mutant: the increment without the range's maximum.                      *)
IncrementUncapped(c, o, in, prev, prev2) ==
    UMax(in.min_qp, prev) + (in.actual - in.target) \div 2

(* The increment branch of Figures 6-12 and 6-18. It is taken only when    *)
(* the group is larger than its target, so the increment is not negative.  *)
IncrementQp(c, o, in, prev, prev2) ==
    LET cur  == UMax(in.min_qp, prev)
        edge == in.ideal * 2 < in.previous_ideal * c.rc_edge_factor
    IN  IF PermitIncrement(c, o, cur, prev2, edge)
        THEN UMin(cur + (in.actual - in.target) \div 2, in.max_qp)
        ELSE cur

OverTarget(c, in) ==
    in.actual > in.target + c.rc_tgt_offset_high /\ in.fullness >= 64

TopRangeQp(c) == c.range_max_qp[14]

(* DSC 1.1, Figure 6-12.                                                   *)
ShortTermV11(c, o, in, prev, prev2) ==
    LET low  == in.target - c.rc_tgt_offset_low
        down == UMax(prev - 1, 0)
    IN  IF in.model > in.overflow THEN TopRangeQp(c)
        ELSE IF in.ideal = 3 THEN UMax(down, in.min_qp \div 2)
        ELSE IF in.actual < low /\ in.ideal < low THEN UMax(down, in.min_qp)
        ELSE IF OverTarget(c, in) THEN IncrementQp(c, o, in, prev, prev2)
        ELSE prev

(* DSC 1.2b, Figure 6-17: the branches in order, then the clamp to the     *)
(* limits that the branch adjusts.                                         *)
ShortTermV12(c, o, in, prev, prev2) ==
    LET low     == in.target - c.rc_tgt_offset_low
        raised  == UMin(in.max_qp + 1, in.top_qp)
        from    == IF o.low_min = "min_qp" THEN in.min_qp ELSE in.max_qp
        smaller == /\ in.ideal < low
                   /\ o.decrement_test = "size" \/ in.actual < low
        up      == IF o.bitsave_step = "2" THEN 2 ELSE 1
    IN  IF in.model > in.overflow THEN Clamp(TopRangeQp(c), in.min_qp, TopRangeQp(c))
        ELSE IF in.fullness < 192 THEN Clamp(in.min_qp, in.min_qp, in.max_qp)
        ELSE IF in.bit_save = 2 THEN Clamp(prev + up, in.min_qp, raised)
        ELSE IF in.bit_save = 1 THEN Clamp(prev, in.min_qp, raised)
        ELSE IF in.zero THEN Clamp(prev - 1, UMax(from - 4, 0), in.max_qp)
        ELSE IF smaller THEN Clamp(prev - 1, in.min_qp, in.max_qp)
        ELSE IF OverTarget(c, in)
          THEN Clamp(IncrementQp(c, o, in, prev, prev2), in.min_qp, in.max_qp)
        ELSE Clamp(prev, in.min_qp, in.max_qp)

ShortTerm(c, o, in, prev, prev2) ==
    IF V12(c) THEN ShortTermV12(c, o, in, prev, prev2)
    ELSE ShortTermV11(c, o, in, prev, prev2)

-----------------------------------------------------------------------------

(* DSC 1.2b section 6.8.4 predActivity, with the readings of OQ-37 and     *)
(* OQ-38 for the native modes.                                             *)
PredActivity(c, o, g, qp) ==
    LET p == g.predicted
        all == p[0] + p[1] + p[2] + p[3]
    IN  CASE c.native = "420" ->
               IF o.activity420 = "sum" THEN qp + UMax(p[0], p[1] + p[2])
               ELSE qp + UMax(p[0], p[1]) + p[2]
          [] c.native = "422" ->
               IF o.activity422 = "total" THEN (qp + all) \div 2 ELSE qp + (all \div 2)
          [] OTHER -> qp + p[0] + UMax(p[1], p[2])

BitSaveThresh(c) == Depth(c, 0) + Depth(c, 1) - 2

(* bitSaveMode and mppState after a group on line y, from their values m   *)
(* before it.                                                              *)
BitSaveUpdate(c, o, y, g, m, prev, prev2) ==
    LET qp       == IF o.activity_qp = "prev2" THEN prev2 ELSE prev
        p_mode   == IF o.bitsave_ich = "set" THEN g.ich ELSE ~g.ich
        mpp      == UMin(m.mpp_state + 1, 2)
        Reset    == [bit_save |-> 0, mpp_state |-> 0]
    IN  IF y = 0 \/ g.flat THEN Reset
        ELSE IF p_mode /\ g.mpp >= 3
          THEN [bit_save |-> IF mpp = 2 THEN 2 ELSE m.bit_save, mpp_state |-> mpp]
        ELSE IF p_mode /\ PredActivity(c, o, g, qp) >= BitSaveThresh(c) THEN m
        ELSE IF g.ich THEN [m EXCEPT !.bit_save = UMax(1, @)]
        ELSE Reset

=============================================================================
