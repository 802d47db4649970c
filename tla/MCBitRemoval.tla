---------------------------- MODULE MCBitRemoval ----------------------------
(* Every slice width and initial delay of a small slice at bit rates with   *)
(* every 1/16 fraction around 8 bpp, and the extremes that the PPS allows.   *)
EXTENDS BitRemoval

CONSTANTS Widths, Height, Rates, Delays

MCConfigs ==
    {[slice_width |-> w, slice_height |-> Height, bits_per_pixel |-> b,
      initial_xmit_delay |-> d, slice_chunk_size |-> (w * b + 127) \div 128] :
        w \in Widths, b \in Rates, d \in Delays}

=============================================================================
