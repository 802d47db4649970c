---------------------------- MODULE MCReadFile ----------------------------
(* A limit below the first buffer, as the one of a PPS, one that doubling  *)
(* the first buffer meets and one that it would pass, and no room at all;  *)
(* files shorter than, as long as and longer than each of them.            *)
EXTENDS ReadFile

MCLimits  == {0, 2, 11, 12}
MCLengths == 0..14
=============================================================================
