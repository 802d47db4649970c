---------------------------- MODULE MCIchHistory ----------------------------
(* A history of six entries, four on lines with a line above. Two groups of *)
(* a line of seven or nine pixels are entered and three of one of twelve.   *)
EXTENDS IchHistory

Slice(w, h, f, m) == [width |-> w, height |-> h, first_lines |-> f, multiple |-> m]

MCSlices ==
    {Slice(w, 3, f, m) : w \in {7, 9}, f \in {1, 2}, m \in BOOLEAN}
        \cup {Slice(12, 2, f, FALSE) : f \in {1, 2}}

Index(a, b, c) == [j \in 0..2 |-> <<a, b, c>>[j + 1]]

(* The same entry twice and three times, old ones, entries about to fall    *)
(* out, and indices of the line above next to those of the history.        *)
MCIndices ==
    {Index(0, 0, 0), Index(1, 0, 1), Index(2, 3, 0), Index(3, 3, 1), Index(5, 4, 2),
     Index(4, 4, 5), Index(5, 0, 3)}
=============================================================================
