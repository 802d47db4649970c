----------------------------- MODULE DscFormat -----------------------------
(***************************************************************************)
(* What format.c derives from the PPS. A configuration is a record with    *)
(* the fields of struct drm_dsc_config that the modules here use.          *)
(***************************************************************************)
EXTENDS Integers

UMax(a, b) == IF a > b THEN a ELSE b
UMin(a, b) == IF a < b THEN a ELSE b

Versions == {1, 2}
Natives == {"none", "422", "420"}

V12(c) == c.dsc_version_minor = 2

(* The configurations that dsc_format_init accepts.                        *)
ValidFormat(c) ==
    /\ c.dsc_version_minor \in Versions
    /\ c.bits_per_component \in {8, 10, 12} \cup (IF V12(c) THEN {14, 16} ELSE {})
    /\ c.native \in Natives
    /\ c.convert_rgb \in BOOLEAN
    /\ c.native # "none" => V12(c) /\ ~c.convert_rgb

(* dsc_qp_scale: the QP scale, two steps for every bit above 8.            *)
MaxQp(c)      == 15 + 2 * (c.bits_per_component - 8)
FlatTypeQp(c) == 7 + 2 * (c.bits_per_component - 8)
VeryFlatQp(c) == 1 + 2 * (c.bits_per_component - 8)

NumUnits(c) == IF c.native = "422" THEN 4 ELSE 3
Units(c)    == 0 .. NumUnits(c) - 1

(* Y, Co and Cg, or Y, Cb and Cr: YCoCg-R chroma has one bit more, but at  *)
(* 16 bpc.                                                                 *)
Depth(c, u) ==
    IF u > 0 /\ c.convert_rgb /\ c.bits_per_component < 16
    THEN c.bits_per_component + 1
    ELSE c.bits_per_component

(* The unit of the odd-position luma samples in native modes.              *)
OddLuma(c) == CASE c.native = "422" -> 3
                [] c.native = "420" -> 1
                [] OTHER -> 0
Luma(c, u) == u = 0 \/ (OddLuma(c) > 0 /\ u = OddLuma(c))

MuxWord(c) == IF c.bits_per_component <= 10 THEN 48 ELSE 64

(* The refill threshold of a substream: the longest element of its unit.   *)
(* OQ-33: at 16 bpc the luma threshold is the formula's 68, or the word.   *)
MaxSe(c, o, u) ==
    IF u > 0 THEN 4 * Depth(c, u)
    ELSE IF c.bits_per_component = 16 /\ o.mux16 = "word" THEN MuxWord(c)
    ELSE 4 * c.bits_per_component + 4

(* DSC 1.2 lowers the chroma level by one when the depths are equal; OQ-20 *)
(* asks whether that covers 16 bpc RGB.                                    *)
ChromaAdjust(c, o) ==
    /\ V12(c)
    /\ Depth(c, 1) = Depth(c, 0)
    /\ ~c.convert_rgb \/ o.chroma_qlevel = "equal_depth"

(* dsc_qlevel: the quantisation level of a unit at a QP, Table 6-2.        *)
QLevel(c, o, qp, u) ==
    LET top == IF qp + 2 = MaxQp(c) THEN 1 ELSE 0
        y == (IF qp = 0 THEN 0 ELSE (qp - 1) \div 2) - top
        l == (IF qp = 0 THEN 0 ELSE (qp \div 2) + 1) + top
    IN  IF Luma(c, u) THEN y
        ELSE IF ChromaAdjust(c, o) /\ l > 0 THEN l - 1
        ELSE l

============================================================================
