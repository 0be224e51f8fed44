-------------------------- MODULE MCTapController --------------------------
(* Exhaustive check of the TAP: it has no parameters and a finite state.    *)
EXTENDS TapController
=============================================================================
