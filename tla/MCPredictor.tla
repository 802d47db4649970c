----------------------------- MODULE MCPredictor -----------------------------
(* A history of 14 entries, of which the line above takes seven.           *)
(* Lines of 22 pixels: three groups count from hPos 9, block prediction is  *)
(* possible at hPos 15 and 18, and the last group is partial; of 27: the    *)
(* last group is full; and lines about as wide as the window.              *)
EXTENDS Predictor

Slice(w, n) ==
    [width |-> w, height |-> 4, native |-> n, block_prediction |-> TRUE, multiple |-> FALSE,
     bp_edge |-> "window", bp_left |-> "midpoint", bp420_edge |-> "all",
     ich_window |-> "container"]

Other(c) == [c EXCEPT !.bp_edge = "before", !.bp_left = "replicate", !.ich_window = "pixels",
                      !.multiple = TRUE]

MCSlices ==
    {Slice(22, "none"), Slice(22, "420"), Other(Slice(22, "420")), Other(Slice(27, "422"))}
        \cup {Slice(w, n) : w \in {4, 5, 7}, n \in {"none", "422", "420"}}
        \cup {Other(Slice(w, n)) : w \in {3, 4, 6}, n \in {"none", "420"}}

MCVectors == {-1, -3, -10}

Index(a, b, c) == [j \in 0..2 |-> <<a, b, c>>[j + 1]]

MCIndices == {Index(0, 0, 0), Index(2, 6, 1), Index(7, 10, 13)}
=============================================================================
