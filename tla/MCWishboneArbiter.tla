-------------------------- MODULE MCWishboneArbiter --------------------------
(* The four masters of the SoC in the order of their priority: 0 the data   *)
(* cache, 1 the instruction cache, 2 the DMA port, 3 the debug master.      *)
(* Bursts of two accesses are long enough for a strobe to follow one that   *)
(* is still unanswered; the SRAM holds at most two accesses unanswered.     *)
EXTENDS WishboneArbiter

MCCore == {0, 1}
=============================================================================
