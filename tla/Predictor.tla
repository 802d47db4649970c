------------------------------ MODULE Predictor ------------------------------
(***************************************************************************)
(* The predictor over the groups of one slice (predict.c,                  *)
(* dsc_predict_group_units): its three line buffers, the samples kept for  *)
(* MPP, the choice of block prediction and the ICH history.                *)
(*                                                                         *)
(* A sample of a buffer is the line it was reconstructed on, or Unwritten  *)
(* since the buffers were allocated; an entry of the history is a line,    *)
(* too. A unit stands for all those that are predicted from one line: 2    *)
(* for the chroma of native 4:2:0, which is predicted from two lines       *)
(* above, 1 for every other unit. The values of the samples are left out:  *)
(* with them the search for a vector and for an edge, whose outcomes are   *)
(* nondeterministic, and the rounding of a stored line.                    *)
(***************************************************************************)
EXTENDS IchList

CONSTANTS Slices,       \* sizes, formats and readings
          Vectors,      \* the vectors that a search may find
          Indices       \* the indices of the three pixels of an ICH group

ASSUME SlicesAssumption ==
    \A c \in Slices : /\ c.width \in Nat \ {0} /\ c.height \in Nat \ {0}
                      /\ c.native \in {"none", "422", "420"}
                      /\ c.block_prediction \in BOOLEAN /\ c.multiple \in BOOLEAN
                      /\ c.bp_edge \in {"window", "before"}
                      /\ c.bp_left \in {"replicate", "midpoint"}
                      /\ c.bp420_edge \in {"luma", "all"}
                      /\ c.ich_window \in {"pixels", "container"}

(* Entries 25 to 31.                                                       *)
ASSUME WindowAssumption == Above = 7

ASSUME VectorsAssumption == Vectors \subseteq {-1} \cup -10..-3

ASSUME IndicesAssumption == Indices \subseteq [0..2 -> 0 .. History - 1]

VARIABLES
    cfg, next_x, next_y,
    previous, current, older,   \* the line buffers
    last,                       \* the pixel whose samples are kept for MPP
    bp_count, history,
    status,                     \* "ok", or why the last group was refused
    reads                       \* history variable: the samples that the last group read

vars == <<cfg, next_x, next_y, previous, current, older, last, bp_count, history, status, reads>>

(* No line, nor one that a unit of the first lines could want.             *)
Unwritten == -3

Empty == [p \in 0 .. cfg.width - 1 |-> Unwritten]

(* The zeros that last holds before the first group: no pixel's samples.   *)
NoPixel == <<Unwritten, Unwritten>>

Init ==
    /\ cfg \in Slices
    /\ next_x = 0 /\ next_y = 0
    /\ previous = Empty /\ current = Empty /\ older = Empty
    /\ last = NoPixel
    /\ bp_count = 0
    /\ history = <<>>
    /\ status = "ok"
    /\ reads = {}

Clamp(v, lo, hi) == IF v < lo THEN lo ELSE IF v > hi THEN hi ELSE v

Units == IF cfg.native = "420" THEN {1, 2} ELSE {1}

(* Mutant: native 4:2:0 has its line above after one line.                 *)
FirstLinesOne == 1

FirstLines  == IF cfg.native = "420" THEN 2 ELSE 1
GroupPixels == Minimum(cfg.width - next_x, 3)
Room        == Capacity(next_y, FirstLines)

-----------------------------------------------------------------------------
(* What is read: a pixel and its line, and the one that is wanted there.   *)

(* Mutant: a unit has a line above when luma has one.                      *)
HasAboveLuma(unit) == next_y >= 1

HasAbove(unit) == next_y >= unit

ReferenceLine(unit) == IF unit = 2 THEN older ELSE previous

(* above, and bp_sample for what is in the slice or repeats its first      *)
(* sample.                                                                 *)
Look(unit, p) ==
    LET q == Clamp(p, 0, cfg.width - 1)
    IN  [pixel |-> <<q, ReferenceLine(unit)[q]>>, wants |-> <<q, next_y - unit>>]

(* A sample of the same line.                                              *)
Left(p) == [pixel |-> <<p, current[p]>>, wants |-> <<p, next_y>>]

(* The pixel decoded just before the group, if there is one: at the start  *)
(* of a line it is the last one of the line before.                        *)
PixelBefore ==
    IF next_x > 0 THEN <<next_x - 1, next_y>>
    ELSE IF next_y > 0 THEN <<cfg.width - 1, next_y - 1>>
    ELSE NoPixel

(* The low bits of MPP's prediction.                                       *)
Last == [pixel |-> last, wants |-> PixelBefore]

Blended(unit, p) == {Look(unit, q) : q \in p - 1 .. p + 1}

(* The samples that bp_sample looks up; the others are the midpoint.       *)
BpSamples(unit, from, to) ==
    {Look(unit, p) : p \in {q \in from .. to : q >= 0 \/ cfg.bp_left = "replicate"}}

(* Nine pixels, and up to ten to the left of them.                         *)
SearchReads == BpSamples(1, next_x - 16, next_x + 2)

(* Mutant: the chroma of native 4:2:0 has a line above on every line.      *)
EdgeUnitsAll == IF cfg.bp420_edge = "all" THEN Units ELSE {1}

EdgeUnits == {u \in Units : u = 1 \/ (cfg.bp420_edge = "all" /\ HasAbove(u))}

EdgeReads ==
    LET end == IF cfg.bp_edge = "before" THEN next_x - 1 ELSE next_x + 2
    IN  UNION {BpSamples(u, end - 3, end) : u \in EdgeUnits}

(* The reads of a unit's residuals. The sample left of the group and the   *)
(* blends of the line above at the group's start are looked up for every   *)
(* unit, the rest by its prediction: MPP, else block prediction where the  *)
(* group uses it (native 4:2:0 chroma never does), else the line above.    *)
UnitReads(unit, mpp, bp, vector) ==
    (IF next_x > 0 THEN {Left(next_x - 1)} ELSE {})
    \cup (IF HasAbove(unit)
          THEN Blended(unit, next_x) \cup (IF next_x > 0 THEN Blended(unit, next_x - 1) ELSE {})
          ELSE {})
    \cup (IF mpp THEN {Last}
          ELSE IF bp /\ unit = 1 THEN {Left(next_x + j + vector) : j \in 0 .. GroupPixels - 1}
          ELSE IF HasAbove(unit)
               THEN UNION {Blended(unit, next_x + j) : j \in 1 .. GroupPixels - 1}
               ELSE {})

-----------------------------------------------------------------------------
(* Block prediction (bp_decide).                                           *)

Searches == cfg.block_prediction /\ next_y > 0

(* Mutants: groups count from the start of the line; the count goes on     *)
(* from line to line; it has no end.                                       *)
CountedEarly(vector) ==
    LET count == IF next_x = 0 THEN 0 ELSE bp_count
    IN  IF ~Searches THEN bp_count
        ELSE IF vector = -1 THEN 0
        ELSE Minimum(count + 1, 3)
CountedOn(vector) ==
    IF ~Searches THEN bp_count
    ELSE IF vector = -1 THEN 0
    ELSE IF next_x >= 9 THEN Minimum(bp_count + 1, 3) ELSE bp_count

CountedUncapped(vector) ==
    LET count == IF next_x = 0 THEN 0 ELSE bp_count
    IN  IF ~Searches THEN bp_count
        ELSE IF vector = -1 THEN 0
        ELSE IF next_x >= 9 THEN count + 1 ELSE count

(* bpCount after the search of this group.                                 *)
Counted(vector) ==
    LET count == IF next_x = 0 THEN 0 ELSE bp_count
    IN  IF ~Searches THEN bp_count
        ELSE IF vector = -1 THEN 0
        ELSE IF next_x >= 9 /\ count < 3 THEN count + 1 ELSE count

TestsEdge(vector) ==
    Searches /\ vector # -1 /\ Counted(vector) >= 3 /\ GroupPixels = 3

UsesBp(vector, edge) == TestsEdge(vector) /\ edge

BpReads(vector) ==
    (IF Searches THEN SearchReads ELSE {})
    \cup (IF TestsEdge(vector) THEN EdgeReads ELSE {})

-----------------------------------------------------------------------------
(* The ICH indices of the line above (ich_above, ich_window).              *)

TooNarrow ==
    IF cfg.native # "none" THEN cfg.width < (IF cfg.ich_window = "container" THEN 5 ELSE 4)
    ELSE cfg.width < 7

(* Mutant: the pairs of the last groups of a line start too far right.     *)
WindowStartLate ==
    IF cfg.native = "none" THEN Clamp(next_x - 2, 0, cfg.width - 7)
    ELSE IF cfg.ich_window = "container" THEN 2 * Clamp(next_x, 1, cfg.width - 3) - 1
    ELSE Clamp(2 * next_x - 1, 0, 2 * cfg.width - 7)

(* The first pixel of the window, or its first luma sample in the native   *)
(* modes.                                                                  *)
WindowStart ==
    IF cfg.native = "none" THEN Clamp(next_x - 2, 0, cfg.width - 7)
    ELSE IF cfg.ich_window = "container" THEN 2 * Clamp(next_x, 1, cfg.width - 4) - 1
    ELSE Clamp(2 * next_x - 1, 0, 2 * cfg.width - 8)

(* The pixels that index i is made of. A pair of luma samples lies in one  *)
(* pixel of the container or in two, and its chroma in the second.         *)
WindowPixels(i) ==
    LET q == WindowStart + i - (History - Above)
    IN  IF cfg.native = "none" THEN {q} ELSE {q \div 2, (q + 1) \div 2}

WindowReads(i) ==
    {Look(1, p) : p \in WindowPixels(i)}
    \cup (IF cfg.native = "420"
          THEN {Look(2, (WindowStart + i - (History - Above) + 1) \div 2)} ELSE {})

(* Only real pixels are looked up.                                         *)
Named(index) == {index[j] : j \in 0 .. GroupPixels - 1}

RefusesIndex(index) ==
    \E i \in Named(index) : IF i < Room THEN i >= Len(history) ELSE TooNarrow

-----------------------------------------------------------------------------
(* The end of a group.                                                     *)

Rotate(line) == older' = previous /\ previous' = line /\ current' = older

(* The history of the group: entries are lines.                            *)
Entered(ich, index) ==
    IF next_x + GroupPixels < cfg.width
    THEN Updated(history, ich, index, [j \in 0..2 |-> next_y], Room)
    ELSE history

(* Mutant: always the third pixel, which in a partial group is still the   *)
(* previous group's.                                                       *)
ThirdPixel ==
    IF GroupPixels = 3 THEN <<next_x + 2, next_y>>
    ELSE IF next_x > 0 THEN <<next_x - 1, next_y>> ELSE NoPixel

(* The group's rightmost real pixel.                                       *)
LastPixel == <<next_x + GroupPixels - 1, next_y>>

(* The reconstructed pixels, the samples kept for MPP, and after the last  *)
(* group of a line the next line.                                          *)
Store(ich, index) ==
    LET line == [p \in 0 .. cfg.width - 1 |->
                    IF p \in next_x .. next_x + GroupPixels - 1 THEN next_y ELSE current[p]]
    IN  /\ last' = LastPixel
        /\ IF next_x + GroupPixels = cfg.width
           THEN /\ next_x' = 0 /\ next_y' = next_y + 1
                /\ Rotate(line)
                /\ history' = AtLineEnd(Entered(ich, index), next_y + 1, FirstLines, cfg.multiple)
           ELSE /\ next_x' = next_x + GroupPixels /\ next_y' = next_y
                /\ current' = line /\ UNCHANGED <<previous, older>>
                /\ history' = Entered(ich, index)

Refuse(why) ==
    status' = why /\ UNCHANGED <<next_x, next_y, previous, current, older, last, history, reads>>

(* The reference must be left of the group: "Checked, not assumed"         *)
(* (predict.c:430).                                                        *)
RefusesReference(vector, edge) == UsesBp(vector, edge) /\ next_x < -vector

(* mpp are the units that the group codes in MPP.                          *)
ResidualGroup(vector, edge, mpp) ==
    /\ ~RefusesReference(vector, edge)
    /\ bp_count' = Counted(vector)
    /\ reads' = BpReads(vector)
                \cup UNION {UnitReads(u, u \in mpp, UsesBp(vector, edge), vector) : u \in Units}
    /\ Store(FALSE, <<>>)
    /\ UNCHANGED <<cfg, status>>

RefusedReference(vector, edge) ==
    /\ RefusesReference(vector, edge)
    /\ bp_count' = Counted(vector)
    /\ Refuse("reference")
    /\ UNCHANGED cfg

(* The search runs for ICH groups as well.                                 *)
IchGroup(vector, index) ==
    /\ ~RefusesIndex(index)
    /\ bp_count' = Counted(vector)
    /\ reads' = BpReads(vector) \cup UNION {WindowReads(i) : i \in {k \in Named(index) : k >= Room}}
    /\ Store(TRUE, index)
    /\ UNCHANGED <<cfg, status>>

RefusedIch(vector, index) ==
    /\ RefusesIndex(index)
    /\ bp_count' = Counted(vector)
    /\ Refuse("index")
    /\ UNCHANGED cfg

(* A level or a residual that the unit does not have.                      *)
RefusedLevel == Refuse("level") /\ UNCHANGED <<cfg, bp_count>>

Next ==
    /\ status = "ok" /\ next_y < cfg.height
    /\ \/ RefusedLevel
       \/ \E vector \in IF Searches THEN Vectors ELSE {-1} :
            \/ \E edge \in BOOLEAN : \/ \E mpp \in SUBSET Units : ResidualGroup(vector, edge, mpp)
                                     \/ RefusedReference(vector, edge)
            \/ \E index \in Indices : IchGroup(vector, index) \/ RefusedIch(vector, index)

Spec == Init /\ [][Next]_vars

-----------------------------------------------------------------------------

Lines == {Unwritten} \cup 0 .. cfg.height - 1
Buffers == [0 .. cfg.width - 1 -> Lines]

PredictorTypeOK ==
    /\ cfg \in Slices
    /\ next_x \in 0 .. cfg.width - 1 /\ next_y \in 0 .. cfg.height
    /\ previous \in Buffers /\ current \in Buffers /\ older \in Buffers
    /\ last \in {NoPixel} \cup (0 .. cfg.width - 1) \X (0 .. cfg.height - 1)
    /\ bp_count \in 0..3
    /\ history \in Seq(Lines)
    /\ status \in {"ok", "reference", "index", "level"}

(* Every sample that a group reads from a line buffer was reconstructed in *)
(* this slice, on the line that the unit is predicted from, or on its own  *)
(* line left of the group. The sample kept for MPP is the one decoded just *)
(* before: after a partial group its "rightmost actual pixel"              *)
(* (research/prediction-ambiguities.md:10), so at the start of a line it   *)
(* is of the line before, for the chroma of native 4:2:0 of the other      *)
(* chroma type, and only the slice's first group finds the zeros that it   *)
(* was allocated with (predict.c:73-86, 140-146, 437-458, 465-470,         *)
(* 490-493).                                                               *)
ReadsAreDecoded == \A r \in reads : r.pixel = r.wants

(* "bpVector <= -3 and hPos >= 15 keep it inside the slice"                *)
(* (predict.c:448-449): with three groups counted from hPos 9 on, the      *)
(* reference of block prediction is never left of the slice, and the       *)
(* check for it is dead.                                                   *)
ReferenceInside == status # "reference"

(* The seven indices of the line above name pixels inside the slice        *)
(* without any clamping, and one of them is the pixel above the group      *)
(* (predict.c:294-306, 325-341).                                           *)
WindowInside ==
    next_y >= FirstLines /\ ~TooNarrow =>
      LET pixels == UNION {WindowPixels(i) : i \in History - Above .. History - 1}
      IN  pixels \subseteq 0 .. cfg.width - 1 /\ next_x \in pixels

(* An entry is at most as old as the slice allows: with several slices to  *)
(* a line it is of this line, and no group can name it after the line's    *)
(* end (predict.c:497-502). No index of the line above is in the history.  *)
HistoryBounded ==
    /\ Len(history) <= Room
    /\ cfg.multiple => \A p \in DOMAIN history : history[p] = next_y

=============================================================================
