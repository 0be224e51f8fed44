------------------------------ MODULE MCDmiDtm ------------------------------
(* The debug transport with two addresses and two data words, enough to     *)
(* tell a request from the one before it and an answer from the data of the *)
(* request.                                                                 *)
EXTENDS DmiDtm
=============================================================================
