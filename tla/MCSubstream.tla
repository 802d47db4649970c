---------------------------- MODULE MCSubstream ----------------------------
(* One configuration for each shape of a unit: RGB and YCbCr, the native    *)
(* modes, and 16 bpc with its cut prefix. The QPs are the ends of the scale *)
(* and those next to a change of level or of the flatness type.             *)
EXTENDS Substream, Options

Format(minor, bpc, rgb, mode) ==
    [dsc_version_minor |-> minor, bits_per_component |-> bpc, convert_rgb |-> rgb,
     native |-> mode, flatness_min_qp |-> 0, flatness_max_qp |-> 11 + 2 * (bpc - 8)]

Rgb11 == Format(1, 8, TRUE, "none")
Rgb16 == Format(2, 16, TRUE, "none")
Ycc11 == Format(1, 8, FALSE, "none")
MCFormats == {Rgb11, Ycc11, Rgb16, Format(2, 8, FALSE, "422")}

MCQps(c) == IF c.bits_per_component = 16 THEN {0, 4, 31} ELSE {0, 7, 14}

Shape(a, b, c) == [k \in 0..2 |-> <<a, b, c>>[k + 1]]
MCShapes == {Shape(0, 0, 0), Shape(3, 1, 17)}

MCReadings == {Default}

(* OQ-21 with the prefix of Table 4-10.                                    *)
Formats16   == {Rgb16}
Qps16(c)    == {0, 4}
Prefix15    == {[Default EXCEPT !.prefix16 = "15"]}

(* DSC 1.1 YCbCr, and OQ-20 with the table as it is printed.               *)
LevelFormats  == {Ycc11, Rgb16}
LevelReadings == {[Default EXCEPT !.chroma_qlevel = "table"]}
=============================================================================
