------------------------------ MODULE CoreDebug ------------------------------
(***************************************************************************)
(* The debug registers of the core (core_debug_0): run control, the index  *)
(* of the register to read, and the log address.  One step is one system   *)
(* clock edge.                                                             *)
(*                                                                         *)
(* On the DMI side stands the debug transport.  Its synchronisers keep a   *)
(* request up for two edges or more, until the acknowledge has come round, *)
(* and down for LowEdges or more (two for the depth of its synchroniser).  *)
(* TRST may tear a request away.  Behind the registers stands the core: it *)
(* executes attn, and answers a request for a special purpose register   *)
(* in its own time.  The core reset of syscon is a pulse of one edge; the  *)
(* system reset lasts, and empties the transport as well.                  *)
(*                                                                         *)
(* Left out: the trigger register, which is storage (its trigger input is  *)
(* tied low in this build), and the values of NIA, MSR and the log.        *)
(***************************************************************************)
EXTENDS Naturals

CONSTANTS
  LowEdges,   \* edges a request line stays low between two requests
  Used,       \* the debug registers the host uses
  Commands    \* sets of CTRL bits the host writes

CtrlBits == {"stop", "reset", "icreset", "step", "start"}
Indexes  == {"gpr", "spr", "ls_spr"}   \* which unit holds the indexed register
LogLow   == 0..3                       \* the low two bits of the log address

ASSUME ConstantsAssumption ==
  /\ LowEdges \in Nat \ {0}
  /\ "stat" \in Used
  /\ Commands \subseteq SUBSET CtrlBits

Requests ==
  [addr : Used \cap {"ctrl"}, wr : {TRUE}, value : Commands]
    \cup [addr : Used \cap {"gspr_index"}, wr : {TRUE}, value : Indexes]
    \cup [addr : Used \cap {"log_addr"}, wr : {TRUE}, value : LogLow]
    \cup [addr : Used \cap {"gspr_data", "log_data"}, wr : BOOLEAN, value : {0}]
    \cup [addr : Used \cap {"stat"}, wr : {FALSE}, value : {0}]

VARIABLES
  dmi_req, request,        \* the DMI request lines
  answered,                \* the transport has seen the acknowledge
  low,                     \* edges dmi_req has been low, up to LowEdges
  dmi_req_1,               \* dmi_req one edge ago
  stopping, terminated,    \* run control
  do_step, do_reset, do_icreset,
  gspr_index,              \* the register to read
  unit_req, unit_ack,      \* the unit asked for it ("none" or an index), its answer
  log_dmi_addr,            \* low bits of the log address
  dmi_read_log_data, dmi_read_log_data_1,
  rst,                     \* reset in force ("no", "core" or "system")
  acts,                    \* history: edges on which this request took effect
  cursor,                  \* history: the log address the host counts on, or 4
  torn                     \* history: the last request was torn away

dmiVars  == <<dmi_req, request, answered, low, torn>>
runVars  == <<stopping, terminated, do_step, do_reset, do_icreset>>
readVars == <<gspr_index, unit_req, unit_ack>>
logVars  == <<log_dmi_addr, dmi_read_log_data, dmi_read_log_data_1>>
vars == <<dmiVars, dmi_req_1, runVars, readVars, logVars, rst, acts, cursor>>

Unknown == 4   \* the host does not know the log address

Init ==
  /\ dmi_req = FALSE /\ request \in [addr : {"stat"}, wr : {FALSE}, value : {0}]
  /\ answered = FALSE /\ low = LowEdges /\ torn = FALSE
  /\ dmi_req_1 = FALSE
  /\ stopping = FALSE /\ terminated = FALSE
  /\ do_step = FALSE /\ do_reset = FALSE /\ do_icreset = FALSE
  /\ gspr_index = "gpr" /\ unit_req = "none" /\ unit_ack = FALSE
  /\ log_dmi_addr = 0 /\ dmi_read_log_data = FALSE /\ dmi_read_log_data_1 = FALSE
  /\ rst = "no"
  /\ acts = 0 /\ cursor = 0

-----------------------------------------------------------------------------
(* The debug registers.                                                     *)

\* Mutant: the acknowledge of the load-store unit is not wired.
Bug_dmi_ack == IF request.addr = "gspr_data" THEN unit_ack /\ unit_req # "ls_spr" ELSE dmi_req

dmi_ack == IF request.addr = "gspr_data" THEN unit_ack ELSE dmi_req

core_stop == stopping /\ ~do_step

\* Mutant: a write takes effect for as long as it stands.
Bug_Rises == dmi_req

\* The first edge that sees a request is the one on which it takes effect.
Rises     == dmi_req /\ ~dmi_req_1
Performs  == rst = "no" /\ Rises /\ request.wr
Writes(r) == Performs /\ request.addr = r
Commanded(bit) == Writes("ctrl") /\ bit \in request.value

RunControl(terminate) ==
  /\ do_step'    = Commanded("step")
  /\ do_reset'   = Commanded("reset")
  /\ do_icreset' = Commanded("icreset")
  /\ stopping' = (/\ rst = "no"
                  /\ \/ terminate
                     \/ (stopping \/ Commanded("stop")) /\ ~Commanded("start"))
  /\ terminated' = (/\ rst = "no"
                    /\ \/ terminate
                       \/ terminated /\ ~(\E b \in {"reset", "step", "start"} : Commanded(b)))

\* Mutant: the acknowledge outlives the request that it answers.
Bug_UnitAcks(answers) == rst = "no" /\ (unit_ack \/ answers)

\* The unit that is asked answers in its own time and lets go one edge after it
\* is asked no more.
UnitAcks(answers) == rst = "no" /\ unit_req # "none" /\ (unit_ack \/ answers)

\* No unit answers for a general purpose register: the register file of this
\* build has its dbg_gpr_ack tied low.
ReadPort(answers) ==
  /\ gspr_index' = IF rst # "no" THEN "gpr"
                   ELSE IF Writes("gspr_index") THEN request.value ELSE gspr_index
  /\ unit_req' = IF rst = "no" /\ dmi_req /\ request.addr = "gspr_data"
                 THEN gspr_index ELSE "none"
  /\ answers => unit_req \in {"spr", "ls_spr"}
  /\ unit_ack' = UnitAcks(answers)

\* Mutants: the log address moves when the read begins; its low bits do not wrap.
Bug_LogReadOver == dmi_read_log_data /\ ~dmi_read_log_data_1
Bug_Advanced    == log_dmi_addr + 1

LogReadOver == ~dmi_read_log_data /\ dmi_read_log_data_1
Advanced    == (log_dmi_addr + 1) % 4

\* The log address moves on when the read of the log data is over; a request
\* that rises on that very edge goes first, and the move is lost.
LogPort ==
  IF rst # "no" THEN UNCHANGED logVars
  ELSE /\ dmi_read_log_data' = (dmi_req /\ request.addr = "log_data")
       /\ dmi_read_log_data_1' = dmi_read_log_data
       /\ log_dmi_addr' =
            IF Rises THEN (IF Writes("log_addr") THEN request.value ELSE log_dmi_addr)
            ELSE IF LogReadOver THEN Advanced ELSE log_dmi_addr

Registers(terminate, answers) ==
  /\ dmi_req_1' = IF rst = "no" THEN dmi_req ELSE dmi_req_1
  /\ RunControl(terminate)
  /\ ReadPort(answers)
  /\ LogPort

-----------------------------------------------------------------------------
(* The transport.                                                           *)

Hold == UNCHANGED <<dmi_req, request, torn>>

Ask(r) == ~dmi_req /\ low >= LowEdges /\ rst # "system"
            /\ dmi_req' = TRUE /\ request' = r /\ torn' = FALSE

Withdraw == dmi_req /\ answered /\ dmi_req' = FALSE /\ UNCHANGED <<request, torn>>

Tear == dmi_req /\ dmi_req' = FALSE /\ torn' = TRUE /\ UNCHANGED request

Lines == Hold \/ (\E r \in Requests : Ask(r)) \/ Withdraw

Watches ==
  /\ answered' = (dmi_req' /\ dmi_req /\ (answered \/ dmi_ack))
  /\ low' = IF dmi_req' THEN 0 ELSE IF low < LowEdges THEN low + 1 ELSE low

\* What the host makes of it.
Histories ==
  /\ acts' = IF ~dmi_req /\ dmi_req' THEN 0
             ELSE IF Performs /\ acts < 2 THEN acts + 1 ELSE acts
  /\ cursor' = IF rst # "no" \/ (torn' /\ ~torn) THEN Unknown
               ELSE IF ~dmi_req \/ dmi_req' THEN cursor
               ELSE IF request.addr = "log_addr" THEN request.value
               ELSE IF request.addr = "log_data" /\ cursor # Unknown THEN (cursor + 1) % 4
               ELSE cursor

Edge(terminate, answers) ==
  /\ Registers(terminate, answers)
  /\ Watches
  /\ Histories

\* An edge of normal operation: the last reset, if any, is over.
Clock(terminate, answers) ==
  /\ rst' = "no"
  /\ Lines
  /\ Edge(terminate, answers)

CoreReset(terminate, answers) ==
  /\ rst = "no" /\ rst' = "core"
  /\ Lines
  /\ Edge(terminate, answers)

SystemReset(terminate, answers) ==
  /\ rst' = "system"
  /\ Tear \/ (~dmi_req /\ Hold)
  /\ Edge(terminate, answers)

Trst(terminate, answers) ==
  /\ rst' = "no"
  /\ Tear
  /\ Edge(terminate, answers)

Next ==
  \E terminate, answers \in BOOLEAN :
    \/ Clock(terminate, answers)
    \/ CoreReset(terminate, answers)
    \/ SystemReset(terminate, answers)
    \/ Trst(terminate, answers)

Spec == Init /\ [][Next]_vars

\* The unit that holds a special purpose register gets to answer (decode2
\* gives it a turn between two instructions).
Serve == \E terminate \in BOOLEAN : Clock(terminate, unit_req \in {"spr", "ls_spr"})

FairSpec == Spec /\ WF_vars(Serve)

-----------------------------------------------------------------------------
(* Properties.                                                              *)

\* Type correctness of the debug registers.
TypeOK ==
  /\ dmi_req \in BOOLEAN /\ request \in Requests
  /\ answered \in BOOLEAN /\ low \in 0..LowEdges /\ torn \in BOOLEAN
  /\ dmi_req_1 \in BOOLEAN
  /\ stopping \in BOOLEAN /\ terminated \in BOOLEAN
  /\ do_step \in BOOLEAN /\ do_reset \in BOOLEAN /\ do_icreset \in BOOLEAN
  /\ gspr_index \in Indexes /\ unit_req \in Indexes \cup {"none"}
  /\ unit_ack \in BOOLEAN
  /\ log_dmi_addr \in LogLow
  /\ dmi_read_log_data \in BOOLEAN /\ dmi_read_log_data_1 \in BOOLEAN
  /\ rst \in {"no", "core", "system"}
  /\ acts \in 0..2
  /\ cursor \in LogLow \cup {Unknown}

\* A write that was acknowledged took effect on exactly one edge, although the
\* request stands for many edges and the core reset, which freezes dmi_req_1,
\* may strike on any of them: no command is lost and no step is taken twice.
WritesActOnce ==
  /\ acts <= 1
  /\ ~dmi_req /\ request.wr /\ ~torn => acts = 1

\* A host that knows the log address and reads the log data over and over gets
\* one entry after the other: the address does not move while a read stands,
\* and has moved on exactly once by the time the next request can see it.
LogReadsInOrder ==
  dmi_req /\ cursor # Unknown
    => \/ request.addr \notin {"log_addr", "log_data"}
       \/ request.addr = "log_addr" /\ answered
       \/ log_dmi_addr = cursor

\* The acknowledge of a special purpose register outlives its request by two
\* edges, and has fallen before another request can take it for its own.
AnswerIsFresh ==
  [][~dmi_req /\ dmi_req' /\ request'.addr = "gspr_data" => ~unit_ack']_vars

\* Every request is acknowledged, unless it is torn away or asks for the data
\* of a general purpose register, which no unit of this build answers.
RequestIsAnswered ==
  dmi_req ~> \/ dmi_ack
             \/ ~dmi_req
             \/ request.addr = "gspr_data" /\ gspr_index = "gpr"
=============================================================================
