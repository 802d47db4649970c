------------------------------- MODULE Slice -------------------------------
(***************************************************************************)
(* One slice (decode.c, decode_slice): for every group of three pixels,    *)
(* refill the funnel shifters, apply the flatness signalled for the group, *)
(* parse it, reconstruct it and run the rate control; then check that      *)
(* nothing but zeros is left. The rate control is module RateControl; the  *)
(* flatness signalling of syntax() is modelled bit by bit, and the rest of *)
(* a parsed group is a member of Reports.                                  *)
(*                                                                         *)
(* Running out of data, a syntax error, rejected padding and an invalid    *)
(* prediction do not depend on anything kept here: they may happen at any  *)
(* group.                                                                  *)
(***************************************************************************)
EXTENDS RateControl

VARIABLES
    phase,                              \* what the loop body does next
    status,                             \* "decoding", then the result
    x, y, gn,                           \* the loops' counters
    flat_flag, flat_type, flat_group,   \* struct syntax_state
    sg_flag, prev_flag,
    report,                             \* the parsed group
    signalled, applied                  \* history: flat groups read, and adjusted

syntax_state == <<flat_flag, flat_type, flat_group, sg_flag, prev_flag>>
position     == <<x, y, gn>>
vars == <<rc_vars, phase, status, position, syntax_state, report, signalled, applied>>

Statuses == {"ok", "truncated", "invalid", "no_memory", "bitstream", "rate_control"}
FlatSignals == [group : Nat, very : BOOLEAN]

(* A slice of the wrong length, a configuration that dsc_rc_init refuses   *)
(* and a predictor without memory end before the first group.              *)
Init ==
    /\ RcInit
    /\ \/ phase = "flat" /\ status = "decoding"
       \/ phase = "done" /\ status \in {"truncated", "invalid", "no_memory"}
    /\ x = 0 /\ y = 0 /\ gn = 0
    /\ flat_flag = FALSE /\ flat_type = FALSE /\ flat_group = -1
    /\ sg_flag = FALSE /\ prev_flag = FALSE
    /\ report = NoGroup
    /\ signalled = {} /\ applied = {}

(* goto done, with a status.                                               *)
Finish(s) == phase' = "done" /\ status' = s

(* Mutant: three pixels in every group.                                    *)
CountThree == 3

(* The pixels of the group at x: the last group of a line may be partial.  *)
Count == UMin(cfg.slice_width - x, 3)

-----------------------------------------------------------------------------

(* A funnel shifter cannot be refilled: the data has ended.                *)
RefillFails ==
    /\ phase = "flat"
    /\ Finish("truncated")
    /\ UNCHANGED <<rc_vars, position, syntax_state, report, signalled, applied>>

(* dsc_rc_apply_flat_line, before the group is parsed.                     *)
ApplyFlat ==
    /\ phase = "flat"
    /\ ApplyFlatLine(flat_group = gn, flat_type, x = 0 /\ y > 0)
    /\ IF failed' # "no" THEN Finish("rate_control")
       ELSE phase' = "syntax" /\ UNCHANGED status
    /\ applied' = IF flat_group = gn
                  THEN applied \cup {[group |-> gn, very |-> flat_type]} ELSE applied
    /\ UNCHANGED <<position, syntax_state, report, signalled>>

CarriesFlag     == gn % 4 = 3
CarriesPosition == gn % 4 = 0 /\ flat_flag

(* Mutant: the type is cleared together with the flag.                     *)
FlatTypeCleared(bit) ==
    IF CarriesFlag THEN FALSE
    ELSE IF CarriesPosition THEN qp >= FlatTypeQp(cfg) /\ bit ELSE flat_type

(* The type bit is sent at or above somewhatFlatQpThresh only.             *)
FlatTypeRead(bit) ==
    IF CarriesPosition THEN qp >= FlatTypeQp(cfg) /\ bit ELSE flat_type

(* The flag bit is sent inside the flatness QP window only.                *)
FlatFlagRead(bit) ==
    IF CarriesFlag
    THEN qp \in cfg.flatness_min_qp .. cfg.flatness_max_qp /\ bit
    ELSE flat_flag

(* Mutant: the flag of a supergroup is taken one group late.               *)
SgFlagLate == IF gn % 4 = 2 THEN flat_flag ELSE sg_flag

(* A supergroup is four groups from group 1 on; its flag was read two      *)
(* groups before it starts.                                                *)
SgFlagRead == IF gn % 4 = 1 THEN flat_flag ELSE sg_flag

(* OQ-24: which groups a flag of 1 covers in the bit-save mode.            *)
ReportedFlat ==
    CASE opt.bitsave_flat = "group"    -> flat_group' = gn
      [] opt.bitsave_flat = "received" -> flat_flag'
      [] opt.bitsave_flat = "carrier"  -> flat_flag' /\ gn % 4 \in {0, 3}
      [] opt.bitsave_flat = "span"     -> flat_flag' \/ sg_flag'
      [] opt.bitsave_flat = "lagged"   -> prev_flag'
      [] OTHER                         -> sg_flag'

(* syntax(): the flatness bits, then the group itself.                     *)
Syntax ==
    /\ phase = "syntax"
    /\ prev_flag' = flat_flag
    /\ sg_flag' = SgFlagRead
    /\ \E bit \in IF CarriesFlag THEN BOOLEAN ELSE {FALSE} : flat_flag' = FlatFlagRead(bit)
    /\ \E bit \in IF CarriesPosition THEN BOOLEAN ELSE {FALSE} : flat_type' = FlatTypeRead(bit)
    /\ IF CarriesPosition
       THEN /\ \E v \in 0..3 : flat_group' = gn + 1 + v
            /\ signalled' = signalled \cup {[group |-> flat_group', very |-> flat_type']}
       ELSE UNCHANGED <<flat_group, signalled>>
    /\ \E g \in Reports : report' = [g EXCEPT !.flat = ReportedFlat]
    /\ phase' = "step"
    /\ UNCHANGED <<rc_vars, status, position, applied>>

(* Mutant: a group that is refused is parsed again.                        *)
GroupRetried ==
    /\ phase = "syntax"
    /\ phase' = "flat"
    /\ UNCHANGED <<rc_vars, status, position, syntax_state, report, signalled, applied>>

(* A syntax error, rejected padding or an invalid prediction.              *)
GroupRejected ==
    /\ phase = "syntax"
    /\ Finish("bitstream")
    /\ UNCHANGED <<rc_vars, position, syntax_state, report, signalled, applied>>

(* Mutant: a new line does not start at its left edge.                     *)
AdvanceKeepsX ==
    /\ gn' = gn + 1 /\ x' = x + 3
    /\ y' = IF x + 3 < cfg.slice_width THEN y ELSE y + 1
    /\ phase' = IF y' < cfg.slice_height THEN "flat" ELSE "tail"
    /\ UNCHANGED status

(* The loops' next group.                                                  *)
Advance ==
    /\ gn' = gn + 1
    /\ IF x + 3 < cfg.slice_width THEN x' = x + 3 /\ y' = y ELSE x' = 0 /\ y' = y + 1
    /\ phase' = IF y' < cfg.slice_height THEN "flat" ELSE "tail"
    /\ UNCHANGED status

(* Mutant: the result of dsc_rc_step_group is not looked at.               *)
ResultIgnored == Advance

AfterStep ==
    IF failed' # "no" THEN Finish("rate_control") /\ UNCHANGED position ELSE Advance

Step ==
    /\ phase = "step"
    /\ StepGroup(y, gn, Count, report)
    /\ AfterStep
    /\ UNCHANGED <<syntax_state, report, signalled, applied>>

(* What is left in the funnels and in the slice must be zero.              *)
CheckTail ==
    /\ phase = "tail"
    /\ \E s \in {"ok", "bitstream"} : Finish(s)
    /\ UNCHANGED <<rc_vars, position, syntax_state, report, signalled, applied>>

Next == RefillFails \/ ApplyFlat \/ Syntax \/ GroupRejected \/ Step \/ CheckTail

(* The decoder is one thread that runs to the end: it never stops midway.  *)
Spec == Init /\ [][Next]_vars

FairSpec == Spec /\ WF_vars(Next)

-----------------------------------------------------------------------------

SliceTypeOK ==
    /\ phase \in {"flat", "syntax", "step", "tail", "done"}
    /\ status \in Statuses \cup {"decoding"}
    /\ x \in 0 .. cfg.slice_width - 1 /\ y \in 0 .. cfg.slice_height /\ gn \in Nat
    /\ flat_flag \in BOOLEAN /\ flat_type \in BOOLEAN /\ flat_group \in Nat \cup {-1}
    /\ sg_flag \in BOOLEAN /\ prev_flag \in BOOLEAN
    /\ report \in GroupReports
    /\ signalled \subseteq FlatSignals /\ applied \subseteq FlatSignals

(* The loops of decode_slice and the rate control count pixels, lines and  *)
(* groups on their own; they never disagree, so the argument check of      *)
(* dsc_rc_step_group (rate_control.c:437-442) never fires, and a slice     *)
(* that ends well has stepped every pixel.                                 *)
CountersAgree ==
    /\ phase \in {"flat", "syntax", "step", "tail"} =>
         gn = groups /\ y = pixels \div cfg.slice_width /\ x = pixels % cfg.slice_width
    /\ failed # "arguments"
    /\ status = "ok" => pixels = cfg.slice_width * cfg.slice_height

(* A failure of the rate control always ends the slice, with its status.   *)
FailureReported == failed # "no" <=> status = "rate_control"

(* Every flat group that the stream signals is adjusted at that group and  *)
(* with the type read for it, although the flag of the next supergroup is  *)
(* read before the last position of this one (decode.c:176-204, 390).      *)
FlatAppliedOnce ==
    status = "decoding" =>
      applied = {s \in signalled : s.group < gn \/ (s.group = gn /\ phase \notin {"flat", "tail"})}

(* sg_flag says of each group whether its own supergroup has a flat group, *)
(* wherever in the supergroup the group is (decode.c:177-181).             *)
SupergroupFlag ==
    phase = "step" /\ gn > 0 =>
      LET start == 4 * ((gn - 1) \div 4) + 1
      IN  sg_flag <=> \E s \in signalled : s.group \in start .. start + 3

GroupsPerLine == (cfg.slice_width + 2) \div 3

(* The RC model's offset is the sum that DSC 1.2b section 6.8.2 describes, *)
(* term by term, however the groups, the initial delay and the lines fall  *)
(* on each other, as long as no group has left it below its final value;   *)
(* after one has, it never exceeds that value (rate_control.c:501-548).    *)
OffsetLedger ==
    LET first   == UMin(groups, GroupsPerLine)
        second  == UMin(groups - first, GroupsPerLine)
        delayed == UMin(DelayEnd, IF opt.delay_partial = "group_end" THEN delay_group_end
                                  ELSE pixels)
        adj     == cfg.second_line_offset_adj * 2048
    IN  IF clamp_offset THEN offset_q11 <= FinalOffset
        ELSE /\ groups > 0 => offset_q11 >= FinalOffset
             /\ offset_q11 =
               (cfg.initial_offset - cfg.rc_model_size) * 2048
               + groups * cfg.slice_bpg_offset
               - first * cfg.first_line_bpg_offset * 2048
               + (groups - first) * cfg.nfl_bpg_offset
               - delayed * cfg.bits_per_pixel * 128
               + (IF ~V12(cfg) THEN 0
                  ELSE (groups - second) * cfg.nsl_bpg_offset
                       - second * cfg.second_line_bpg_offset * 2048
                       + (IF groups > 0 /\ opt.offset_adj = "start" THEN adj ELSE 0)
                       - (IF groups > GroupsPerLine THEN adj ELSE 0))

(* Every slice ends with a status.                                         *)
SliceEnds == <>(status # "decoding")

Buffer == INSTANCE CbrBuffer
            WITH level <- fullness, clock <- pixels, stopped <- failed # "no",
                 arrived <- last_inputs.actual

(* With the default reading of OQ-3, the accumulators of rate_control.c    *)
(* implement the channel's schedule: no bit is lost or taken twice at the  *)
(* end of a chunk, whatever the fraction of the rate and the group sizes.  *)
ImplementsCbrBuffer == Buffer!Spec

=============================================================================
