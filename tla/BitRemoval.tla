----------------------------- MODULE BitRemoval -----------------------------
(***************************************************************************)
(* The pixel clock of one slice, driving drain_pixel under both readings   *)
(* of OQ-3 at once, as dsc_rc_step_group does for the selected reading and *)
(* its shadow.                                                             *)
(*                                                                         *)
(* chunks is a history variable: the number of chunks each reading has     *)
(* completed.                                                              *)
(***************************************************************************)
EXTENDS Drain

CONSTANT Configs    \* the slice geometries: records that satisfy ValidChunk

ASSUME ConfigsAssumption ==
    \A c \in Configs : ValidChunk(c) /\ c.slice_height \in Nat \ {0}

VARIABLES cfg, pixels, drain, chunks

vars == <<cfg, pixels, drain, chunks>>

Init == /\ cfg \in Configs
        /\ pixels = 0
        /\ drain = [r \in FracReadings |-> DrainStart]
        /\ chunks = [r \in FracReadings |-> 0]

(* One pixel of the slice: the loop body of dsc_rc_step_group. A failed    *)
(* reading ends the slice when it is the selected one.                     *)
PixelTime ==
    /\ pixels < cfg.slice_width * cfg.slice_height
    /\ pixels' = pixels + 1
    /\ drain' = [r \in FracReadings |-> DrainPixel(cfg, pixels + 1, r, drain[r])]
    /\ chunks' = [r \in FracReadings |->
                    IF /\ pixels + 1 >= cfg.initial_xmit_delay
                       /\ drain[r].chunk_pixels + 1 = cfg.slice_width
                    THEN chunks[r] + 1 ELSE chunks[r]]
    /\ UNCHANGED cfg

Next == PixelTime

Spec == Init /\ [][Next]_vars

-----------------------------------------------------------------------------

(* Pixel times that have removed bits so far: none before the delay.       *)
FirstPixel == IF cfg.initial_xmit_delay = 0 THEN 1 ELSE cfg.initial_xmit_delay
Drained == IF pixels < FirstPixel THEN 0 ELSE pixels - FirstPixel + 1

(* A chunk size that decode.c accepts never leaves impossible padding, in  *)
(* either reading: the failure return of drain_pixel (rate_control.c:339)  *)
(* is dead for validated configurations, and with it the frac failure of   *)
(* the shadow.                                                             *)
PaddingPossible == \A r \in FracReadings : ~drain[r].failed

(* Constant bit rate: every completed chunk has removed exactly its bytes, *)
(* whatever fraction the pixels left, and an open chunk the whole bits of  *)
(* its pixels. No fraction leaks from one chunk into the next.             *)
ExactChunks ==
    LET d == drain[CHUNK]
    IN  /\ d.removed = chunks[CHUNK] * (8 * cfg.slice_chunk_size) + d.chunk_bits
        /\ 16 * d.chunk_bits + d.fractional_bits = d.chunk_pixels * cfg.bits_per_pixel
        /\ Drained = chunks[CHUNK] * cfg.slice_width + d.chunk_pixels

(* The two readings never differ by more than one bit, and agree at the    *)
(* end of every chunk: the choice of OQ-3 cannot move the buffer by more.  *)
ReadingsAgree ==
    /\ drain[CHUNK].removed - drain[LITERAL].removed \in -1..1
    /\ drain[CHUNK].chunk_pixels = 0 => drain[CHUNK].removed = drain[LITERAL].removed

=============================================================================
