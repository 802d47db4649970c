------------------------------- MODULE Drain -------------------------------
(***************************************************************************)
(* Bit removal of the DSC rate control (rate_control.c, drain_pixel): one  *)
(* pixel time takes bits_per_pixel/16 bits out of the rate buffer, and the *)
(* last pixel time of a chunk takes the chunk's padding as well.           *)
(*                                                                         *)
(* The two readings of open question OQ-3 differ in when the fraction is   *)
(* dropped: CHUNK at the end of every chunk, LITERAL at the pixel times    *)
(* that satisfy the printed condition.                                     *)
(***************************************************************************)
EXTENDS Integers

CHUNK    == "chunk"
LITERAL  == "literal"
FracReadings == {CHUNK, LITERAL}

OtherFracReading(r) == IF r = CHUNK THEN LITERAL ELSE CHUNK

(* The accumulators of one reading (struct dsc_rc_drain). *)
DrainRecord == [fractional_bits : 0..15, chunk_bits : Nat, chunk_pixels : Nat,
                removed : Int, failed : BOOLEAN]

DrainStart == [fractional_bits |-> 0, chunk_bits |-> 0, chunk_pixels |-> 0,
               removed |-> 0, failed |-> FALSE]

(* The chunk size that decode.c accepts: the bytes that hold one line's    *)
(* bits, slice_width and bits_per_pixel being positive.                    *)
ValidChunk(c) == /\ c.slice_width \in Nat \ {0}
                 /\ c.bits_per_pixel \in 1..1023
                 /\ c.initial_xmit_delay \in Nat
                 /\ c.slice_chunk_size = (c.slice_width * c.bits_per_pixel + 127) \div 128

(* Mutants, for the checks only: the bound of the chunk reading used for    *)
(* both, a reset without the modulus, a chunk that keeps its fraction.      *)
MaxPaddingOfChunk(r) == 8
ResetsEveryPixel(c, pixel, r) == r = LITERAL /\ pixel >= c.initial_xmit_delay
FractionKept(r, left) == left

(* The literal reading can drop one fractional bit from the first chunk.   *)
MaxPadding(r) == IF r = LITERAL THEN 9 ELSE 8

FractionResets(c, pixel, r) ==
    r = LITERAL /\ (pixel - c.initial_xmit_delay) % c.slice_width = 0

FractionLeft(c, pixel, r, sum) ==
    IF FractionResets(c, pixel, r) THEN 0 ELSE sum % 16

FractionAfterChunk(r, left) == IF r = CHUNK THEN 0 ELSE left

Accumulators(left, bits, pixels, removed, failed) ==
    [fractional_bits |-> left, chunk_bits |-> bits, chunk_pixels |-> pixels,
     removed |-> removed, failed |-> failed]

(* One pixel time under reading r. A chunk whose padding is impossible     *)
(* fails and leaves its accumulators as they stand.                        *)
DrainPixel(c, pixel, r, d) ==
    LET sum     == d.fractional_bits + c.bits_per_pixel
        whole   == sum \div 16
        left    == FractionLeft(c, pixel, r, sum)
        bits    == d.chunk_bits + whole
        pixels  == d.chunk_pixels + 1
        padding == c.slice_chunk_size * 8 - bits
    IN  IF pixel < c.initial_xmit_delay
          THEN d
        ELSE IF pixels # c.slice_width
          THEN Accumulators(left, bits, pixels, d.removed + whole, d.failed)
        ELSE IF padding \in 0..MaxPadding(r)
          THEN Accumulators(FractionAfterChunk(r, left), 0, 0,
                            d.removed + whole + padding, d.failed)
        ELSE Accumulators(left, bits, pixels, d.removed, TRUE)

============================================================================
