--------------------------- MODULE MCRateControl ---------------------------
(* A small slice and a small rate control model, whose thresholds, buffer   *)
(* and scale intervals a few groups already cross.                          *)
EXTENDS RateControl, Options

(* Every switch of the rate control on its other reading. *)
OtherReading ==
    [flat_restart |-> "next_cycle", threshold_eq |-> "upper", frac_reset |-> "literal",
     delay_offset |-> "exclusive", incr_order |-> "printed", rc_pipeline |-> "same_group",
     scale_dec |-> "from_group_1", partial_target |-> "three", very_flat |-> "group_qp",
     flat_max_qp |-> "own", delay_partial |-> "pixels", bpg_combine |-> "replace",
     bitsave_ich |-> "set", line_flat |-> "very", low_min |-> "max_qp",
     decrement_test |-> "both", activity_qp |-> "prev", bitsave_step |-> "1",
     target_floor |-> "none", flat_rerun |-> "changed", rerun_bitsave |-> "keep",
     flat_top |-> "equal", activity420 |-> "sum", activity422 |-> "total",
     offset_adj |-> "subtract", scale_first |-> "group", scale_line |-> "until_unity",
     bitsave_flat |-> "supergroup"]

Other == [f \in Fields |->
            IF f \in DOMAIN OtherReading THEN OtherReading[f] ELSE Default[f]]

MCReadings == {Default, Other, [Other EXCEPT !.flat_restart = "in_flight"]}

Table(t) == [i \in 0 .. Len(t) - 1 |-> t[i + 1]]

Rgb11 ==
    [dsc_version_minor |-> 1, bits_per_component |-> 8, native |-> "none", convert_rgb |-> TRUE,
     slice_width |-> 3, slice_height |-> 5, bits_per_pixel |-> 171, slice_chunk_size |-> 5,
     initial_xmit_delay |-> 4, initial_dec_delay |-> 28, rc_model_size |-> 960,
     initial_offset |-> 640, final_offset |-> 720,
     initial_scale_value |-> 10, scale_decrement_interval |-> 1, scale_increment_interval |-> 1,
     slice_bpg_offset |-> 9000, nfl_bpg_offset |-> 4096, nsl_bpg_offset |-> 0,
     first_line_bpg_offset |-> 6, second_line_bpg_offset |-> 0, second_line_offset_adj |-> 0,
     flatness_min_qp |-> 3, flatness_max_qp |-> 12,
     rc_quant_incr_limit0 |-> 11, rc_quant_incr_limit1 |-> 11, rc_edge_factor |-> 6,
     rc_tgt_offset_high |-> 3, rc_tgt_offset_low |-> 3,
     rc_buf_thresh |-> Table(<<1, 2, 3, 4, 5, 6, 7, 8, 9, 10, 11, 12, 13, 14>>),
     range_min_qp |-> Table(<<0, 0, 1, 1, 3, 3, 3, 3, 3, 3, 5, 5, 5, 7, 13>>),
     range_max_qp |-> Table(<<4, 4, 5, 6, 7, 7, 7, 8, 9, 10, 11, 12, 13, 13, 15>>),
     range_bpg_offset |-> Table(<<2, 0, 0, 62, 60, 58, 56, 56, 56, 54, 54, 52, 52, 52, 52>>)]

Ycc12 == [Rgb11 EXCEPT !.dsc_version_minor = 2, !.convert_rgb = FALSE]

Native420 ==
    [Ycc12 EXCEPT !.native = "420", !.second_line_bpg_offset = 3,
                  !.nsl_bpg_offset = 3000, !.second_line_offset_adj = 20]

MCConfigs == {Rgb11, Ycc12, Native420}

G(actual, ideal, mpp, p, ich, zero, flat) ==
    [actual |-> actual, ideal |-> ideal, mpp |-> mpp, predicted |-> [u \in 0..3 |-> p],
     ich |-> ich, zero |-> zero, flat |-> flat]

MCReports ==
    {G(4, 3, 0, 0, FALSE, TRUE, FALSE),        \* no residuals
     G(16, 16, 0, 4, TRUE, FALSE, FALSE),      \* ICH
     G(60, 50, 3, 8, FALSE, FALSE, FALSE),     \* every unit in MPP
     G(30, 26, 0, 7, FALSE, FALSE, FALSE)}     \* high activity
=============================================================================
