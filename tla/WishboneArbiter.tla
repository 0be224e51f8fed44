-------------------------- MODULE WishboneArbiter --------------------------
(***************************************************************************)
(* The system bus: wishbone_arbiter_4 between its masters (0 data cache,   *)
(* 1 instruction cache, 2 the DMA port, 3 the debug master) and a          *)
(* pipelined slave that answers the strobes it takes in order.             *)
(*                                                                         *)
(* One step is one system clock edge.  The arbiter has a single register,  *)
(* `selected`: the master it points at keeps the bus for as long as it     *)
(* holds cyc; a free bus goes to the lowest-numbered master that asks, in  *)
(* the same clock.  Acknowledges carry no identity: whoever has the bus    *)
(* takes them.                                                             *)
(*                                                                         *)
(* A master asks for a burst of accesses.  It strobes until every access   *)
(* has been taken, counts acknowledges and ends its cycle at the last.     *)
(***************************************************************************)
EXTENDS Integers, Sequences

CONSTANTS
  N,         \* number of masters
  Core,      \* the masters a core reset reaches
  MaxBurst,  \* longest burst of a master
  Depth      \* accesses the slave holds unanswered at most

Masters == 0..(N - 1)

ASSUME ConstantsAssumption ==
  /\ N \in Nat \ {0}
  /\ Core \subseteq Masters
  /\ MaxBurst \in Nat \ {0}
  /\ Depth \in Nat \ {0}

VARIABLES
  selected,   \* the arbiter's register
  todo,       \* accesses each master has still to strobe
  due,        \* acknowledges each master still waits for
  queue,      \* the slave: masters whose accesses it took and has not answered
  orphaned    \* history: a core reset left accesses in the slave that are
              \* nobody's, and masters may be counting their answers

vars == <<selected, todo, due, queue, orphaned>>

cyc(i) == due[i] > 0
stb(i) == todo[i] > 0

Requesting == {i \in Masters : cyc(i)}

\* Mutants: the bus is free between two strobes; the highest number wins.
Bug_busy == stb(selected)
Bug_candidate ==
  IF Requesting = {} THEN selected
  ELSE CHOOSE i \in Requesting : \A j \in Requesting : i >= j

busy      == cyc(selected)
candidate == IF Requesting = {} THEN selected
             ELSE CHOOSE i \in Requesting : \A j \in Requesting : i <= j
effective == IF busy THEN selected ELSE candidate

Init ==
  /\ selected = 0
  /\ todo = [i \in Masters |-> 0]
  /\ due = [i \in Masters |-> 0]
  /\ queue = <<>>
  /\ orphaned = FALSE

\* Mutants: a clock without a stall takes an access, strobe or no strobe; every
\* waiting master sees the acknowledge.
Bug_Taken(i, stall) == i = effective /\ ~stall
Bug_Acked(i, ack)   == cyc(i) /\ ack

\* What reaches master i: the slave's stall and ack if i has the bus, else
\* stall and no ack.
Taken(i, stall) == i = effective /\ stb(i) /\ ~stall
Acked(i, ack)   == i = effective /\ cyc(i) /\ ack

\* The slave's queue once this clock's strobe has been taken.
Arrived(stall) == IF Taken(effective, stall) THEN Append(queue, effective) ELSE queue

\* Masters still waiting after the acknowledge of this clock.
Due(i, ack)  == IF Acked(i, ack) THEN due[i] - 1 ELSE due[i]

\* Strobes left; the last acknowledge ends the cycle whatever is left.
Todo(i, stall, ack) ==
  IF Due(i, ack) = 0 THEN 0 ELSE IF Taken(i, stall) THEN todo[i] - 1 ELSE todo[i]

\* What the masters do at the edge: an idle one may start a burst, one that a
\* reset reaches drops everything.
MastersMove(stall, ack, reset) ==
  \E start \in [Masters -> 0..MaxBurst] :
    /\ \A i \in Masters : cyc(i) => start[i] = 0
    /\ due'  = [i \in Masters |-> IF i \in reset THEN 0 ELSE Due(i, ack) + start[i]]
    /\ todo' = [i \in Masters |-> IF i \in reset THEN 0 ELSE Todo(i, stall, ack) + start[i]]

Clock(stall, ack, reset) ==
  /\ ack => Arrived(stall) # <<>>
  /\ ~stall => Len(queue) < Depth
  /\ selected' = effective
  /\ queue' = IF ack THEN Tail(Arrived(stall)) ELSE Arrived(stall)
  /\ MastersMove(stall, ack, reset)
  /\ orphaned' = ((orphaned \/ effective \in reset) /\ ~(queue' = <<>> /\ due' = todo'))

\* A clock on which the slave takes and answers what it can.
Serve ==
  LET stall == Len(queue) >= Depth
  IN  Clock(stall, Arrived(stall) # <<>>, {})

RunClock  == \E stall, ack \in BOOLEAN : Clock(stall, ack, {})

\* The core, its caches with it, is reset; the bus is not.
CoreReset == \E stall, ack \in BOOLEAN : Clock(stall, ack, Core)

SystemReset ==
  /\ selected' = 0
  /\ todo' = [i \in Masters |-> 0]
  /\ due' = [i \in Masters |-> 0]
  /\ queue' = <<>>
  /\ orphaned' = FALSE

Next == RunClock \/ CoreReset \/ SystemReset

Spec == Init /\ [][Next]_vars

\* The slave does not stall, nor keep an answer, for ever.
FairSpec == Spec /\ WF_vars(Serve)

-----------------------------------------------------------------------------
(* Properties.                                                              *)

\* Type correctness of the bus.
TypeOK ==
  /\ selected \in Masters
  /\ todo \in [Masters -> 0..MaxBurst]
  /\ due \in [Masters -> 0..MaxBurst]
  /\ queue \in Seq(Masters)
  /\ orphaned \in BOOLEAN

\* Acknowledges carry no identity, and yet each goes to the master whose
\* access it answers: the accesses inside the slave all belong to the master
\* the arbiter has selected, and it waits for exactly that many answers.
\* Every other master that waits has all its accesses still to strobe.  Only
\* a core reset that strikes while a core master has the bus voids this, until
\* the slave has drained.
AnswersAreOwners ==
  \/ orphaned
  \/ /\ \A k \in 1..Len(queue) : queue[k] = selected
     /\ due[selected] = todo[selected] + Len(queue)
     /\ \A i \in Masters : i # selected => due[i] = todo[i]

\* The bus is not taken from a master in the middle of its cycle, not even
\* while it waits between two strobes, and not by the highest priority.
NoHandoverMidCycle ==
  [][\A i \in Masters : i = effective /\ cyc(i) /\ cyc(i)' => effective' = i]_vars

\* A master that waits is not passed over for ever by masters of lower
\* priority (by those of higher priority it may be: the priority is fixed).
LowPriorityYields ==
  \A i \in Masters :
    []<>(~cyc(i) \/ i = effective \/ \E j \in Masters : j < i /\ cyc(j))
=============================================================================
