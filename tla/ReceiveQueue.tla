---------------------------- MODULE ReceiveQueue ----------------------------
(***************************************************************************)
(* What the UART's receive buffer is to the processor: a bounded queue of  *)
(* characters, each with an error mark, and the flag that says that a      *)
(* character is ready.  Two of its actions are not what a user expects:    *)
(* a character that arrives at a full queue is lost and takes the data of  *)
(* the oldest one with it (Overrun), and one that arrives in the clock in  *)
(* which an empty queue is read is lost and leaves the flag up (Vanish).   *)
(***************************************************************************)
EXTENDS Naturals, Sequences

CONSTANTS Depth, Chars   \* characters: [data, error]

VARIABLES q, ready

Init == q = <<>> /\ ready = FALSE

Arrive(c) ==
  /\ Len(q) < Depth
  /\ q' = Append(q, c)
  /\ ready' = TRUE

Overrun(c) ==
  /\ Len(q) = Depth
  /\ q' = [q EXCEPT ![1].data = c.data]
  /\ UNCHANGED ready

Read ==
  /\ q # <<>>
  /\ q' = Tail(q)
  /\ ready' = (Len(q) > 1)

(* A read and an arrival in one clock.                                     *)
Exchange(c) ==
  /\ q # <<>>
  /\ q' = Append(Tail(q), c)
  /\ UNCHANGED ready

Vanish == q = <<>> /\ ready' = TRUE /\ UNCHANGED q

Clear == q' = <<>> /\ ready' = FALSE

Next ==
  \/ \E c \in Chars : Arrive(c) \/ Overrun(c) \/ Exchange(c)
  \/ Read \/ Vanish \/ Clear

Spec == Init /\ [][Next]_<<q, ready>>
=============================================================================
