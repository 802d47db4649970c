------------------------------ MODULE MCSlice ------------------------------
(* A slice of five lines with two groups each, the second one partial: ten  *)
(* groups, so that a flag is read, its supergroup is decoded and the next   *)
(* flag is read before the last position of this one comes up.              *)
EXTENDS Slice, MCRateControl

Small(c) == [c EXCEPT !.slice_width = 5, !.slice_height = 5, !.bits_per_pixel = 155,
                      !.slice_chunk_size = 7, !.initial_xmit_delay = 7,
                      !.initial_dec_delay = 13, !.rc_model_size = 1200,
                      !.initial_offset = 700, !.final_offset = 640,
                      !.flatness_min_qp = 4, !.flatness_max_qp = 10]

SliceConfigs == {Small(Rgb11), [Small(Native420) EXCEPT !.final_offset = 100, !.initial_scale_value = 9]}

(* Both keep the chunk reading of OQ-3; the second turns what the counters, *)
(* the delay and the flatness signalling depend on.                         *)
SliceReadings ==
    {Default,
     [Default EXCEPT !.delay_partial = "pixels", !.delay_offset = "exclusive",
                     !.scale_line = "until_unity", !.bitsave_flat = "supergroup",
                     !.offset_adj = "subtract", !.rc_pipeline = "same_group"]}

(* Less than the channel takes, about as much, and twice as much: some     *)
(* slices underflow, some overflow and some end well.                      *)
SliceReports == {G(12, 10, 0, 4, FALSE, FALSE, FALSE), G(26, 22, 0, 4, TRUE, FALSE, FALSE),
                 G(56, 50, 3, 8, FALSE, FALSE, FALSE)}

(* Two pixels to a line: every group is partial.                            *)
Thin == [Small(Rgb11) EXCEPT !.slice_width = 2, !.slice_height = 6, !.slice_chunk_size = 3,
                             !.initial_xmit_delay = 3, !.initial_dec_delay = 9]
ThinConfigs  == {Thin}
ThinReadings == {Default}
=============================================================================
