------------------------ MODULE MCWishboneDebugMaster ------------------------
(* Two words of two bytes behind a pointer that wraps at three words: the   *)
(* step of 1 takes two accesses to leave a word, the step of 2 goes to the  *)
(* next, and the third word aliases the first, as addresses beyond 2^32 do. *)
EXTENDS WishboneDebugMaster

MCSizes        == {1, 2}
MCHostPointers == {3}
MCHostModes    == {[auto |-> TRUE, size |-> 1], [auto |-> TRUE, size |-> 2]}
=============================================================================
