----------------------------- MODULE CbrBuffer -----------------------------
(***************************************************************************)
(* What the rate buffer promises, with no accumulators: groups of bits     *)
(* arrive, and a constant-rate channel takes whole chunks away on a fixed  *)
(* schedule of pixel times. Inside a chunk it has taken the whole bits of  *)
(* the chunk's pixels so far.                                              *)
(***************************************************************************)
EXTENDS Integers

VARIABLES cfg, level, clock, stopped,
          arrived     \* the bits of the last group

vars == <<cfg, level, clock, stopped, arrived>>

Size == ((cfg.initial_xmit_delay + cfg.initial_dec_delay) * cfg.bits_per_pixel) \div 16

(* The bits the channel has taken after p pixels of the slice.             *)
Scheduled(p) ==
    LET first == IF cfg.initial_xmit_delay = 0 THEN 1 ELSE cfg.initial_xmit_delay
        times == IF p < first THEN 0 ELSE p - first + 1
    IN  (times \div cfg.slice_width) * 8 * cfg.slice_chunk_size
        + ((times % cfg.slice_width) * cfg.bits_per_pixel) \div 16

Init == level = 0 /\ clock = 0 /\ ~stopped /\ arrived = 0

(* A group of at most 512 bits over n pixel times, which neither overfills *)
(* the buffer nor leaves the channel without bits to take.                 *)
Group == \E n \in 1..3 :
    /\ ~stopped
    /\ arrived' \in 0..512
    /\ level + arrived' <= Size
    /\ level' = level + arrived' - (Scheduled(clock + n) - Scheduled(clock))
    /\ level' >= 0
    /\ clock' = clock + n
    /\ clock' <= cfg.slice_width * cfg.slice_height
    /\ UNCHANGED <<cfg, stopped>>

Stop == stopped' = TRUE /\ UNCHANGED <<cfg, level, clock, arrived>>

Next == Group \/ Stop

Spec == Init /\ [][Next]_vars

============================================================================
