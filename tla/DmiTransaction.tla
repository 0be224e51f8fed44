---------------------------- MODULE DmiTransaction ----------------------------
(***************************************************************************)
(* What the debug transport promises: the life of one DMI request.         *)
(*                                                                         *)
(*   idle -> posted -> presented -> answered -> returned -> released       *)
(*                                                                         *)
(* and back to idle.  The host posts a request, the system side presents   *)
(* it to a DMI slave, the slave answers exactly once, the answer is        *)
(* returned to the host, the request line is released, and only then can   *)
(* the next request be posted.  The request does not change on the way,    *)
(* and the host keeps the slave's answer until it posts again.             *)
(*                                                                         *)
(* A reset may lose a request that the system side has already seen; the   *)
(* link promises nothing until it has drained ("lost").                    *)
(***************************************************************************)
EXTENDS Naturals

CONSTANTS
  Addr,    \* DMI addresses
  Data,    \* data words
  Blank,   \* the frame a cleared register holds
  None     \* no answer

READ  == 1
WRITE == 2

VARIABLES phase, frame, answer

txVars == <<phase, frame, answer>>

Phases == {"idle", "posted", "presented", "answered", "returned", "released", "lost"}
Frame  == [op : 0..3, addr : Addr, data : Data]

Init ==
  /\ phase = "idle"
  /\ frame = Blank
  /\ answer = None

Post ==
  /\ phase = "idle"
  /\ phase' = "posted"
  /\ frame' \in Frame
  /\ frame'.op \in {READ, WRITE}
  /\ answer' = None

Present ==
  /\ phase = "posted"
  /\ phase' = "presented"
  /\ UNCHANGED <<frame, answer>>

\* A slave with a combinational acknowledge answers as soon as it is asked.
Answer ==
  /\ phase \in {"posted", "presented"}
  /\ phase' = "answered"
  /\ IF frame.op = READ THEN answer' \in Data ELSE answer' = None
  /\ UNCHANGED frame

Advance(from, to) ==
  /\ phase = from
  /\ phase' = to
  /\ UNCHANGED <<frame, answer>>

Return  == Advance("answered", "returned")
Release == Advance("returned", "released")
Ready   == Advance("released", "idle")

\* A reset before the system side has seen the request, or after it has let
\* go of it, leaves the link idle.
Cancel ==
  /\ phase \in {"idle", "posted", "released", "lost"}
  /\ phase' = "idle"
  /\ frame' = Blank
  /\ answer' = None

Abort ==
  /\ phase' = "lost"
  /\ frame' = Blank
  /\ answer' = None

Recover ==
  /\ phase = "lost"
  /\ phase' \in {"idle", "released"}
  /\ frame' \in Frame
  /\ answer' \in Data \cup {None}

Next ==
  \/ Post \/ Present \/ Answer
  \/ Return \/ Release \/ Ready
  \/ Cancel \/ Abort \/ Recover

Spec == Init /\ [][Next]_txVars
=============================================================================
