------------------------------- MODULE DrScan -------------------------------
(***************************************************************************)
(* What a data register hanging off the JTAG TAP may rely on, seen one TCK *)
(* rising edge at a time: the data-register column of the TAP is walked    *)
(* Capture -> Shift* -> Update, and the instruction that selects the       *)
(* register does not change while a scan is under way.                     *)
(*                                                                         *)
(* TapController implements this module (with dr and sel as functions of   *)
(* its flip-flops); DmiDtm uses it as its environment.                     *)
(***************************************************************************)

VARIABLES
  dr,    \* the strobe the data register sees at the next TCK edge
  sel    \* debug_select: the DEBUG instruction is in force

scanVars == <<dr, sel>>

\* "hold" stands for Exit1-, Pause- and Exit2-DR, "idle" for every state
\* outside the data-register column.
Strobes == {"idle", "capture", "shift", "hold", "update"}

Init ==
  /\ dr = "idle"
  /\ sel = FALSE

Follows(from, to) ==
  \/ from = "idle"    /\ to \in {"idle", "capture"}
  \/ from = "capture" /\ to \in {"shift", "hold"}
  \/ from = "shift"   /\ to \in {"shift", "hold"}
  \/ from = "hold"    /\ to \in {"hold", "shift", "update"}
  \/ from = "update"  /\ to = "idle"

\* One rising edge of TCK: the TAP moves to a state of its choice.
Edge ==
  /\ dr' \in Strobes
  /\ Follows(dr, dr')
  /\ sel' \in BOOLEAN
  /\ {dr, dr'} # {"idle"} => sel' = sel

\* TRST abandons the scan and deselects the debug register.
Reset ==
  /\ dr' = "idle"
  /\ sel' = FALSE

Next == Edge \/ Reset

Spec == Init /\ [][Next]_scanVars

TypeOK ==
  /\ dr \in Strobes
  /\ sel \in BOOLEAN
=============================================================================
