----------------------------- MODULE Substream -----------------------------
(***************************************************************************)
(* One substream of a slice and the unit it carries in every group         *)
(* (decode.c: refill, take and syntax). The units of a group meet only in  *)
(* the ICH mode, which the luma prefix selects for all of them, and in the *)
(* order of the mux words: one substream at a time shows what happens in   *)
(* each.                                                                   *)
(*                                                                         *)
(* A bit is not kept: a residual is its size, the bits that two's          *)
(* complement needs, and the funnel shifter is the number of bits it       *)
(* holds. The QP of a group is any QP of the scale: the rate control       *)
(* chooses it.                                                             *)
(***************************************************************************)
EXTENDS DscFormat

CONSTANTS Formats,      \* the configurations
          Readings,     \* the readings of the open questions
          Qps(_),       \* the QPs that the rate control may choose
          Shapes        \* the sizes of three residuals, cut to the width coded

ASSUME FormatsAssumption ==
    \A c \in Formats : /\ ValidFormat(c)
                       /\ c.flatness_min_qp \in Nat /\ c.flatness_max_qp \in 0..MaxQp(c)
                       /\ Qps(c) \subseteq 0..MaxQp(c)

ASSUME ShapesAssumption == Shapes \subseteq [0..2 -> 0..17]

VARIABLES
    cfg, opt, unit,
    count,              \* bits in the funnel shifter (struct reservoir)
    predicted, last_level, was_ich,     \* struct syntax_state
    flat_flag, group,   \* the flag, and the group's number modulo 4
    status              \* "ok", or why the group was rejected

vars == <<cfg, opt, unit, count, predicted, last_level, was_ich, flat_flag, group, status>>

Init ==
    /\ cfg \in Formats /\ opt \in Readings /\ unit \in Units(cfg)
    /\ count = 0
    /\ predicted = 0 /\ last_level = 0 /\ was_ich = FALSE
    /\ flat_flag = FALSE /\ group = 0
    /\ status = "ok"

-----------------------------------------------------------------------------

Threshold == MaxSe(cfg, opt, unit)

(* Mutants: a bit too few is not noticed; a word for every group.          *)
RefilledLate(n) == IF n + 1 >= Threshold THEN n ELSE n + MuxWord(cfg)
RefilledAlways(n) == n + MuxWord(cfg)

(* refill: at most one mux word before every group.                        *)
Refilled(n) == IF n >= Threshold THEN n ELSE n + MuxWord(cfg)

Level(qp) == QLevel(cfg, opt, qp, unit)

(* Mutant: the prediction is not kept below the full width.                *)
PredictedWidthFull(level, full) ==
    UMin(UMax(predicted + last_level - level, 0), full)

(* The width predicted from the unit's last residuals, at this level.      *)
PredictedWidth(level, full) ==
    UMin(UMax(predicted + last_level - level, 0), full - 1)

(* OQ-35: the groups whose 16 bpc luma prefix may be cut.                  *)
Limited(qp) ==
    /\ unit = 0 /\ V12(cfg) /\ cfg.bits_per_component = 16
    /\ IF opt.prefix16_scope = "qlevel" THEN Level(qp) <= 1 ELSE qp = 0

(* The flatness bits, in the luma substream of two groups out of four.     *)
InFlatWindow(qp) == qp \in cfg.flatness_min_qp .. cfg.flatness_max_qp

FlatnessBits(qp) ==
    IF unit # 0 THEN 0
    ELSE IF group = 3 THEN (IF InFlatWindow(qp) THEN 1 ELSE 0)
    ELSE IF group = 0 /\ flat_flag THEN (IF qp >= FlatTypeQp(cfg) THEN 3 ELSE 2)
    ELSE 0

(* What is known of the unit before its prefix is read: the full width of  *)
(* a residual, the predicted one, whether the prefix is cut, and after how *)
(* many zeros it has said all it can. Luma has one zero more than widths   *)
(* to tell, for the ICH escape. OQ-21 and OQ-36: where and how a cut is.   *)
Coding(qp) ==
    LET level == Level(qp)
        full  == Depth(cfg, unit) - level
        pred  == PredictedWidth(level, full)
        limit == full - pred + (IF unit = 0 THEN 1 ELSE 0)
        most  == IF level > 0 \/ opt.prefix16 = "15" THEN 15 ELSE 13
        cut   == Limited(qp) /\ (opt.prefix16_cut = "always" \/ limit > most)
    IN  [full |-> full, pred |-> pred, cut |-> cut, cap |-> IF cut THEN most ELSE limit,
         flatness |-> FlatnessBits(qp)]

(* Mutant: a "1" after every prefix.                                       *)
PrefixBitsEnded(k, zeros) == zeros + 1

(* A "1" ends a prefix that is shorter than its limit.                     *)
PrefixBits(k, zeros) == IF zeros < k.cap THEN zeros + 1 ELSE zeros

(* What a luma prefix means: the ICH mode, or the residuals' width. After  *)
(* an ICH group the mode goes on with no zero at all.                      *)
SelectsIch(k, zeros) ==
    /\ unit = 0 /\ ~k.cut
    /\ IF was_ich THEN zeros = 0 ELSE k.pred + zeros = k.full + 1

(* Mutant: the zero that leaves the ICH mode counts for the width.         *)
WidthAfterIch(k, zeros) ==
    IF k.cut /\ zeros = k.cap THEN k.full ELSE k.pred + zeros

Width(k, zeros) ==
    IF k.cut /\ zeros = k.cap THEN k.full
    ELSE IF unit = 0 /\ ~k.cut /\ was_ich THEN k.pred + zeros - 1
    ELSE k.pred + zeros

CodesIch(k)       == {zeros \in 0 .. k.cap : SelectsIch(k, zeros)}
CodesResiduals(k) == {zeros \in 0 .. k.cap : ~SelectsIch(k, zeros) /\ Width(k, zeros) <= k.full}

-----------------------------------------------------------------------------

FlatFlagRead(qp) ==
    IF group # 3 THEN flat_flag' = flat_flag
    ELSE flat_flag' \in (IF unit = 0 /\ InFlatWindow(qp) THEN BOOLEAN ELSE {FALSE})

(* A group that takes n bits, or runs out of them.                         *)
Take(n) ==
    IF n > Refilled(count)
    THEN status' = "starved" /\ count' = Refilled(count)
    ELSE status' = "ok" /\ count' = Refilled(count) - n

Reject(why) ==
    /\ status' = why
    /\ UNCHANGED <<count, predicted, last_level, was_ich, flat_flag, group>>

(* The predictor refuses a level that leaves no bit of the sample, whatever*)
(* the parser made of it.                                                  *)
RejectLevel(qp) == Level(qp) >= Depth(cfg, unit) /\ Reject("level")

(* The unit's index in an ICH group; Y holds only the escape in native     *)
(* 4:2:2.                                                                  *)
IndexBits == IF cfg.native = "422" /\ unit = 0 THEN 0 ELSE 5

IchBits(k, zeros)      == k.flatness + PrefixBits(k, zeros) + IndexBits
ResidualBits(k, zeros) == k.flatness + PrefixBits(k, zeros) + 3 * Width(k, zeros)

(* The size prediction stands.                                             *)
IchUnit(bits) == Take(bits) /\ was_ich' = TRUE /\ UNCHANGED predicted

(* Mutant: sizes that the width does not bound.                            *)
RequiredUncut(k, width, shape) == shape

(* The residuals' sizes: what each needs, or all of the width in MPP.      *)
Required(k, width, shape) ==
    [j \in 0..2 |-> IF width = k.full THEN width ELSE UMin(shape[j], width)]

(* The unit's part of rcSizeGroup.                                         *)
RcSize(r) == 3 * UMax(r[0], UMax(r[1], r[2])) + 1

ResidualUnit(k, zeros) ==
    /\ Take(ResidualBits(k, zeros))
    /\ \E shape \in Shapes :
         LET r == Required(k, Width(k, zeros), shape)
         IN  predicted' = (r[0] + r[1] + 2 * r[2] + 2) \div 4
    /\ was_ich' = FALSE

(* Luma decides the mode; the other units are told.                        *)
ParseUnit(k) ==
    \/ \E zeros \in CodesIch(k) : IchUnit(IchBits(k, zeros))
    \/ \E zeros \in CodesResiduals(k) : ResidualUnit(k, zeros)
    \/ unit > 0 /\ IchUnit(IndexBits)

RejectPrefix(qp) ==
    LET k == Coding(qp)
    IN  /\ Level(qp) < Depth(cfg, unit)
        /\ 0 .. k.cap # CodesIch(k) \cup CodesResiduals(k)
        /\ Reject("prefix")

(* Only luma has a use for the group's number.                             *)
Group(qp) ==
    /\ Level(qp) < Depth(cfg, unit)
    /\ ParseUnit(Coding(qp))
    /\ FlatFlagRead(qp)
    /\ last_level' = Level(qp)
    /\ group' = IF unit = 0 THEN (group + 1) % 4 ELSE group

Next ==
    /\ status = "ok"
    /\ UNCHANGED <<cfg, opt, unit>>
    /\ \E qp \in Qps(cfg) : Group(qp) \/ RejectPrefix(qp) \/ RejectLevel(qp)

Spec == Init /\ [][Next]_vars

-----------------------------------------------------------------------------

TypeOK ==
    /\ cfg \in Formats /\ opt \in Readings /\ unit \in Units(cfg)
    /\ count \in Nat
    /\ predicted \in 0 .. Depth(cfg, unit) /\ last_level \in 0 .. Depth(cfg, unit) - 1
    /\ was_ich \in BOOLEAN /\ flat_flag \in BOOLEAN /\ group \in 0..3
    /\ status \in {"ok", "starved", "prefix", "level"}

(* One mux word before a group is enough for the longest element the group *)
(* can hold, flatness bits included: no legal stream starves a substream.  *)
(* format.c:12-20 and 126-127 claim it for the thresholds it computes.     *)
NeverStarves == status # "starved"

Codings == {Coding(qp) : qp \in {q \in Qps(cfg) : Level(q) < Depth(cfg, unit)}}

(* The claim itself: max_se is the longest element (format.c:8-15).        *)
ElementFits ==
    \A k \in Codings :
      /\ \A zeros \in CodesResiduals(k) : ResidualBits(k, zeros) <= Threshold
      /\ \A zeros \in CodesIch(k) : IchBits(k, zeros) <= Threshold

(* "It holds at most max_se - 1 bits plus a mux word, below 160 for every  *)
(* supported format" (decode.c:15-16).                                     *)
FunnelFits == Refilled(count) <= Threshold - 1 + MuxWord(cfg) /\ Refilled(count) < 160

(* "rcSizeGroup never exceeds codedGroupSize" (rate_control.c:144): it     *)
(* holds unit by unit for residuals, so for every group of them, and for an *)
(* ICH group, whose rcSizeGroup is 16, with the indices of all the units.  *)
SizeWithinCoded ==
    \A k \in Codings :
      /\ \A zeros \in CodesResiduals(k), shape \in Shapes :
            RcSize(Required(k, Width(k, zeros), shape)) <= ResidualBits(k, zeros) - k.flatness
      /\ \A zeros \in CodesIch(k) : 16 <= PrefixBits(k, zeros) + 15

(* Only a cut prefix can name a width that the unit does not have: the     *)
(* error return for it (decode.c:257) is dead below 16 bpc.            *)
PrefixNeverInvalid == status = "prefix" => cfg.bits_per_component = 16 /\ unit = 0

(* Every QP that the rate control may choose leaves the unit a level that  *)
(* it can be decoded with.                                                 *)
EveryLevelDecodes == status # "level"

============================================================================
