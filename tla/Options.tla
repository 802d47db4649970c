------------------------------ MODULE Options ------------------------------
(***************************************************************************)
(* The readings of RESEARCH.md's open questions: the switches that the     *)
(* decoder has, what it does without any option, and how the command line  *)
(* names them (dsc.h, options.c, main.c).                                  *)
(***************************************************************************)
EXTENDS Sequences

(* The readings of each question, in the order of their codes.             *)
Enumerators ==
    [flat_restart |-> <<"next_cycle", "in_flight">>,
     threshold_eq |-> <<"lower", "upper">>,
     frac_reset |-> <<"chunk", "literal">>,
     delay_offset |-> <<"inclusive", "exclusive">>,
     bp_left |-> <<"replicate", "midpoint">>,
     bp_edge |-> <<"window", "before">>, bp_sad |-> <<"shift", "clip">>,
     incr_order |-> <<"printed", "swapped">>,
     rc_pipeline |-> <<"same_group", "range_lag">>,
     scale_dec |-> <<"from_group_1", "from_group_0">>,
     partial_target |-> <<"three", "pixels">>,
     very_flat |-> <<"group_qp", "as_signaled", "previous_qp">>,
     partial_padding |-> <<"reject", "accept">>,
     flat_max_qp |-> <<"own", "previous">>,
     delay_partial |-> <<"pixels", "group_end">>,
     bpg_combine |-> <<"replace", "add">>,
     chroma_qlevel |-> <<"table", "equal_depth">>,
     prefix16 |-> <<"15", "13">>, bitsave_ich |-> <<"not", "set">>,
     bitsave_pred |-> <<"raw", "adjusted", "next">>,
     bitsave_flat |->
         <<"supergroup", "group", "received", "carrier", "span", "lagged">>,
     line_flat |-> <<"very", "signaled">>,
     low_min |-> <<"max_qp", "min_qp">>,
     decrement_test |-> <<"both", "size">>,
     activity_qp |-> <<"prev", "prev2">>, bitsave_step |-> <<"1", "2">>,
     target_floor |-> <<"none", "zero">>,
     flat_rerun |-> <<"changed", "every">>,
     rerun_bitsave |-> <<"keep", "redo">>, mux16 |-> <<"element", "word">>,
     prefix16_scope |-> <<"qp0", "qlevel">>,
     prefix16_cut |-> <<"always", "longer">>,
     flat_top |-> <<"equal", "at_or_above">>,
     activity420 |-> <<"luma", "sum">>, activity422 |-> <<"sizes", "total">>,
     bp420_edge |-> <<"luma", "all">>,
     offset_adj |-> <<"subtract", "start">>,
     ich_window |-> <<"pixels", "container">>,
     scale_first |-> <<"group", "not">>,
     scale_line |-> <<"until_unity", "first">>]

Fields == DOMAIN Enumerators

(* dsc_options_init                                                        *)
Default ==
    [flat_restart |-> "in_flight", threshold_eq |-> "lower",
     frac_reset |-> "chunk", delay_offset |-> "inclusive",
     bp_left |-> "midpoint", bp_edge |-> "window", bp_sad |-> "shift",
     incr_order |-> "swapped", rc_pipeline |-> "range_lag",
     scale_dec |-> "from_group_0", partial_target |-> "pixels",
     very_flat |-> "previous_qp", partial_padding |-> "accept",
     flat_max_qp |-> "previous", delay_partial |-> "group_end",
     bpg_combine |-> "add", chroma_qlevel |-> "equal_depth",
     prefix16 |-> "13", bitsave_ich |-> "not", bitsave_pred |-> "next",
     bitsave_flat |-> "lagged", line_flat |-> "signaled",
     low_min |-> "min_qp", decrement_test |-> "size",
     activity_qp |-> "prev2", bitsave_step |-> "2", target_floor |-> "zero",
     flat_rerun |-> "every", rerun_bitsave |-> "redo", mux16 |-> "word",
     prefix16_scope |-> "qlevel", prefix16_cut |-> "longer",
     flat_top |-> "at_or_above", activity420 |-> "luma",
     activity422 |-> "sizes", bp420_edge |-> "luma", offset_adj |-> "start",
     ich_window |-> "container", scale_first |-> "not",
     scale_line |-> "first"]

-----------------------------------------------------------------------------

(* The values that the command line spells otherwise, in the same order.   *)
Spelled ==
    [flat_restart |-> <<"next-cycle", "in-flight">>,
     rc_pipeline |-> <<"same-group", "range-lag">>,
     scale_dec |-> <<"from-group-1", "from-group-0">>,
     very_flat |-> <<"group-qp", "as-signaled", "previous-qp">>,
     delay_partial |-> <<"pixels", "group-end">>,
     chroma_qlevel |-> <<"table", "equal-depth">>,
     low_min |-> <<"max-qp", "min-qp">>, mux16 |-> <<"68", "64">>,
     flat_top |-> <<"equal", "at-or-above">>,
     scale_line |-> <<"until-unity", "first">>]

Values(field) ==
    IF field \in DOMAIN Spelled THEN Spelled[field] ELSE Enumerators[field]

Spelling(field, row) == field \o "=" \o Values(field)[row]

(* The loop over the table stops at the first setting that fits, and there *)
(* is no other.                                                            *)
ASSUME SpellingsDiffer ==
    \A f, g \in Fields : \A i \in DOMAIN Values(f), j \in DOMAIN Values(g) :
        Spelling(f, i) = Spelling(g, j) => f = g /\ i = j

(* The settings that an argument NAME=VALUE names: none, or one.           *)
FindReading(arg) ==
    {r \in UNION {{[name |-> f, row |-> i] : i \in DOMAIN Values(f)} :
                  f \in Fields} :
        arg = Spelling(r.name, r.row)}

(* set_reading: refused unless the table has it. A mutant: the readings    *)
(* given before are lost.                                                  *)
SetOnDefault(o, r) == [Default EXCEPT ![r.name] = Enumerators[r.name][r.row]]
SetReading(o, r) == [o EXCEPT ![r.name] = Enumerators[r.name][r.row]]

=============================================================================
