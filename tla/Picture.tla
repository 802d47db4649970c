------------------------------ MODULE Picture ------------------------------
(***************************************************************************)
(* Picture assembly (decode.c: decode_picture, decode_single, put_slice):  *)
(* the chunks of every slice are gathered from the lines of the picture    *)
(* that the transport interleaves, the slice is decoded (module Slice), and *)
(* its pixels are unpacked into the output planes.                         *)
(*                                                                         *)
(* A sample is its origin: the slice, the pixel of the coded slice and the *)
(* unit it was decoded from. out holds every write to a plane, so that two *)
(* writes to one place stay visible. The 8 bpc RGB sink has one plane of   *)
(* pixels, which is plane 0 here, as is the conversion of a pixel to RGB   *)
(* for all of its planes.                                                  *)
(***************************************************************************)
EXTENDS Integers, FiniteSets

CONSTANTS Pictures,     \* picture and slice sizes and formats
          MaxColumns    \* 255 slices to a line in the code

(* Annex B and DSC 1.2b Table 4-1, as validate checks them.                *)
ValidPicture(c) ==
    /\ c.format \in {"rgb", "444", "simple_422", "native_422", "native_420"}
    /\ {c.pic_width, c.pic_height, c.slice_width, c.slice_height} \subseteq Nat \ {0}
    /\ c.format \in {"simple_422", "native_422", "native_420"} => c.slice_width % 2 = 0
    /\ c.format = "native_420" => c.slice_height % 2 = 0

ASSUME PicturesAssumption == \A c \in Pictures : ValidPicture(c)
ASSUME ColumnsAssumption == MaxColumns \in Nat

VARIABLES
    cfg, whole,     \* the configuration, and a picture or a single slice
    length,         \* the data against the length expected: -1, 0 or 1
    phase, status,
    sx, sy, y,      \* the loops' counters
    slice,          \* the chunk gathered for each line
    out,            \* the writes
    used            \* history: the chunks gathered

vars == <<cfg, whole, length, phase, status, sx, sy, y, slice, out, used>>

CeilDiv(a, b) == (a + b - 1) \div b

Columns == IF whole THEN CeilDiv(cfg.pic_width, cfg.slice_width) ELSE 1
Rows    == IF whole THEN CeilDiv(cfg.pic_height, cfg.slice_height) ELSE 1

Native    == cfg.format \in {"native_422", "native_420"}
HalfWidth == Native \/ cfg.format = "simple_422"

(* Pixels of a line of the coded slice.                                    *)
CodedWidth == IF Native THEN cfg.slice_width \div 2 ELSE cfg.slice_width

(* dsc_plane_size: the samples of a plane of the picture, or of one slice. *)
PlaneWidth(p) ==
    LET width == IF whole THEN cfg.pic_width ELSE cfg.slice_width
    IN  IF p > 0 /\ HalfWidth THEN CeilDiv(width, 2) ELSE width
PlaneHeight(p) ==
    LET height == IF whole THEN cfg.pic_height ELSE cfg.slice_height
    IN  IF p > 0 /\ cfg.format = "native_420" THEN CeilDiv(height, 2) ELSE height

Planes == IF cfg.format = "rgb" THEN {0} ELSE 0..2

Init ==
    /\ cfg \in Pictures /\ whole \in BOOLEAN /\ length \in -1..1
    /\ phase = "start" /\ status = "decoding"
    /\ sx = 0 /\ sy = 0 /\ y = 0
    /\ slice = [l \in 0 .. cfg.slice_height - 1 |-> -1]
    /\ out = {} /\ used = {}

Finish(s) == phase' = "done" /\ status' = s

-----------------------------------------------------------------------------

(* The data must hold the chunks of all slices, and nothing else. A single *)
(* slice allocates its buffer before that is looked at.                    *)
Start ==
    /\ phase = "start"
    /\ \/ IF whole /\ Columns > MaxColumns THEN Finish("limit")
          ELSE IF length < 0 THEN Finish("truncated")
          ELSE IF length > 0 THEN Finish("invalid")
          ELSE phase' = "gather" /\ UNCHANGED status
       \/ /\ whole => Columns <= MaxColumns /\ length = 0
          /\ Finish("no_memory")
    /\ UNCHANGED <<cfg, whole, length, sx, sy, y, slice, out, used>>

(* Mutant: the slices of a row of slices one after the other.              *)
SourceSliceBySlice == (sy * Columns + sx) * cfg.slice_height + y

(* The chunk of line y of slice (sx, sy): one chunk of every slice in turn *)
(* for each line of the picture.                                           *)
Source == sy * cfg.slice_height * Columns + y * Columns + sx

GatherLine ==
    /\ phase = "gather"
    /\ slice' = [slice EXCEPT ![y] = Source]
    /\ used' = used \cup {Source}
    /\ IF y + 1 < cfg.slice_height THEN y' = y + 1 /\ UNCHANGED phase
       ELSE y' = 0 /\ phase' = "decode"
    /\ UNCHANGED <<cfg, whole, length, status, sx, sy, out>>

(* decode_slice, whose outcome is that of module Slice, or a rate control  *)
(* that does not accept the configuration, or no memory for the predictor. *)
DecodeSlice ==
    /\ phase = "decode"
    /\ \/ phase' = "put" /\ UNCHANGED status
       \/ \E s \in {"truncated", "bitstream", "rate_control", "invalid", "no_memory"} : Finish(s)
    /\ UNCHANGED <<cfg, whole, length, sx, sy, y, slice, out, used>>

-----------------------------------------------------------------------------
(* put_slice: the writes for pixel x of line l of the decoded slice.       *)

X0 == sx * cfg.slice_width
Y0 == sy * cfg.slice_height

Sample(p, px, py, from) == [plane |-> p, x |-> px, y |-> py, from |-> from]
Origin(x, l, u) == [sx |-> sx, sy |-> sy, x |-> x, y |-> l, unit |-> u]

OddLumaUnit == IF cfg.format = "native_422" THEN 3 ELSE 1

(* The container holds two luma samples, and one of each chroma, or of Cb  *)
(* on even lines and Cr on odd ones.                                       *)
NativeWrites(x, l) ==
    LET cx == X0 \div 2 + x
        py == Y0 + l
    IN  {Sample(0, X0 + 2 * x, py, Origin(x, l, 0)),
         Sample(0, X0 + 2 * x + 1, py, Origin(x, l, OddLumaUnit))}
        \cup IF cfg.format = "native_422"
             THEN {Sample(p, cx, py, Origin(x, l, p)) : p \in 1..2}
             ELSE {Sample(IF py % 2 = 1 THEN 2 ELSE 1, cx, py \div 2, Origin(x, l, 2))}

(* Simple 4:2:2 keeps the chroma of the even positions.                    *)
PlainWrites(x, l) ==
    LET px == X0 + x
        py == Y0 + l
    IN  {Sample(0, px, py, Origin(x, l, 0))}
        \cup IF cfg.format = "simple_422"
             THEN IF px % 2 = 0
                  THEN {Sample(p, px \div 2, py, Origin(x, l, p)) : p \in 1..2} ELSE {}
             ELSE {Sample(p, px, py, Origin(x, l, p)) : p \in Planes \ {0}}

(* Mutant: every pixel is written, in the picture or not.                  *)
InPlaneAlways(s) == TRUE

(* put_sample leaves out what the last slices have beyond the picture.     *)
InPlane(s) == s.x < PlaneWidth(s.plane) /\ s.y < PlaneHeight(s.plane)

SliceWrites ==
    {s \in UNION {IF Native THEN NativeWrites(x, l) ELSE PlainWrites(x, l) :
                    x \in 0 .. CodedWidth - 1, l \in 0 .. cfg.slice_height - 1} : InPlane(s)}

(* A mutant: the row of slices is not counted.                             *)
NextSliceSameRow ==
    IF sx + 1 < Columns THEN sx' = sx + 1 /\ UNCHANGED sy ELSE sx' = 0 /\ UNCHANGED sy

NextSlice ==
    IF sx + 1 < Columns THEN sx' = sx + 1 /\ UNCHANGED sy ELSE sx' = 0 /\ sy' = sy + 1

Continue == IF sy' < Rows THEN phase' = "gather" /\ UNCHANGED status ELSE Finish("ok")

PutSlice ==
    /\ phase = "put"
    /\ out' = out \cup SliceWrites
    /\ NextSlice
    /\ Continue
    /\ UNCHANGED <<cfg, whole, length, y, slice, used>>

Next == Start \/ GatherLine \/ DecodeSlice \/ PutSlice

Spec == Init /\ [][Next]_vars /\ WF_vars(Next)

-----------------------------------------------------------------------------

SlicesDone == sy * Columns + sx

(* Every chunk of the data is read once, into the line of the slice that   *)
(* the transport order gives it to (decode.c:706-712): chunk i is that of  *)
(* picture line i \div Columns in column i % Columns.                      *)
ChunksOnce ==
    /\ status = "decoding" =>
         Cardinality(used) = SlicesDone * cfg.slice_height
                             + (IF phase \in {"decode", "put"} THEN cfg.slice_height ELSE y)
    /\ phase = "decode" =>
         \A l \in DOMAIN slice : /\ slice[l] % Columns = sx
                                 /\ slice[l] \div Columns = sy * cfg.slice_height + l
    /\ status = "ok" => used = 0 .. Columns * Rows * cfg.slice_height - 1

(* The origin that the formats' sampling gives to the sample of plane p at *)
(* (px, py), found from the sample and not from the pixel.                 *)
SampleOrigin(p, px, py) ==
    LET luma_x  == IF p > 0 /\ HalfWidth THEN 2 * px ELSE px
        line    == IF cfg.format = "native_420" /\ p > 0 THEN 2 * py + (p - 1) ELSE py
        in_x    == luma_x % cfg.slice_width
        unit    == IF p = 0 THEN (IF Native /\ in_x % 2 = 1 THEN OddLumaUnit ELSE 0)
                   ELSE IF cfg.format = "native_420" THEN 2 ELSE p
    IN  [sx |-> luma_x \div cfg.slice_width, sy |-> line \div cfg.slice_height,
         x |-> IF Native THEN in_x \div 2 ELSE in_x, y |-> line % cfg.slice_height,
         unit |-> unit]

PictureSamples ==
    UNION {{Sample(p, px, py, SampleOrigin(p, px, py)) :
              px \in 0 .. PlaneWidth(p) - 1, py \in 0 .. PlaneHeight(p) - 1} : p \in Planes}

(* The planes hold the samples of the slices decoded so far, each from its *)
(* own origin, and nothing is written outside the picture or twice; so a   *)
(* picture that ends well is complete, and one that fails has the slices   *)
(* before the failure and no part of another one.                          *)
OutputIsPrefix ==
    /\ out = {s \in PictureSamples : s.from.sy * Columns + s.from.sx < SlicesDone}
    /\ status = "ok" => out = PictureSamples

(* Every picture ends with a status.                                       *)
PictureEnds == <>(phase = "done")

============================================================================
