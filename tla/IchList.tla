------------------------------- MODULE IchList -------------------------------
(***************************************************************************)
(* The ICH history of the predictor (predict.c, history_update and the     *)
(* rules around it): a shift register whose first entry is the pixel used  *)
(* last. What an entry holds is left open.                                 *)
(***************************************************************************)
EXTENDS Integers, Sequences, FiniteSets

CONSTANTS History,      \* entries of the shift register: 32
          Above         \* indices that name pixels of the line above: 7

(* The three pixels of a group always find room.                           *)
ASSUME HistoryAssumption == History \in Nat /\ Above \in Nat /\ History - Above >= 3

Minimum(a, b) == IF a < b THEN a ELSE b

(* The history entries that the groups of line y can name.                 *)
Capacity(y, first_lines) == IF y >= first_lines THEN History - Above ELSE History

(* Of several pixels with one index the last one counts.                   *)
Repeated(index, i) == \E j \in i + 1 .. 2 : index[j] = index[i]

(* Mutant: a pixel named twice is entered twice.                           *)
FrontWithDuplicates(ich, index, pixels) == <<pixels[2], pixels[1], pixels[0]>>

(* Mutant: an index that repeats enters none of its pixels.                *)
FrontWithoutRepeats(ich, index, pixels) ==
    LET Once(i) ==
          IF ich /\ \E j \in 0..2 : j # i /\ index[j] = index[i] THEN <<>> ELSE <<pixels[i]>>
    IN  Once(2) \o Once(1) \o Once(0)

(* The group's pixels, the last one first.                                 *)
Front(ich, index, pixels) ==
    <<pixels[2]>> \o (IF ich /\ Repeated(index, 1) THEN <<>> ELSE <<pixels[1]>>)
                  \o (IF ich /\ Repeated(index, 0) THEN <<>> ELSE <<pixels[0]>>)

(* Mutant: an entry that was used keeps its old place as well.             *)
AllEntries(history, ich, index) == DOMAIN history

(* The entries that move up: those that the group did not name.            *)
Unselected(history, ich, index) ==
    {p \in DOMAIN history : ~(ich /\ \E j \in 0..2 : index[j] = p - 1)}

Nth(S, k) == CHOOSE p \in S : Cardinality({q \in S : q <= p}) = k

Kept(history, ich, index) ==
    LET U == Unselected(history, ich, index)
    IN  [k \in 1 .. Cardinality(U) |-> history[Nth(U, k)]]

(* history_update                                                          *)
Updated(history, ich, index, pixels, capacity) ==
    LET entries == Front(ich, index, pixels) \o Kept(history, ich, index)
    IN  SubSeq(entries, 1, Minimum(Len(entries), capacity))

(* Mutant: the entries beyond the capacity stay for the next line.         *)
AtLineEndUncut(history, next_y, first_lines, multiple) == IF multiple THEN <<>> ELSE history

(* With several slices to a line every line starts without a history; a    *)
(* line with a line above keeps what its groups can name.                  *)
AtLineEnd(history, next_y, first_lines, multiple) ==
    IF multiple THEN <<>>
    ELSE IF next_y >= first_lines /\ Len(history) > History - Above
         THEN SubSeq(history, 1, History - Above)
         ELSE history

=============================================================================
