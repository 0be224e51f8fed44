------------------------- MODULE WishboneDebugMaster -------------------------
(***************************************************************************)
(* The debug master (wishbone_debug_master): three DMI registers and a     *)
(* small state machine that turns an access to the data register into one  *)
(* cycle on the system bus.                                                *)
(*                                                                         *)
(* One step is one system clock edge.  On the DMI side stands the debug    *)
(* transport: it holds a request until its acknowledge has come round (two *)
(* edges at least, the depth of its synchroniser), then withdraws it; TRST *)
(* may tear a request away.  On the bus side stands a slave behind the     *)
(* arbiter: it stalls, takes the strobe, performs the access and           *)
(* acknowledges it, each after any delay; the processor writes to the same *)
(* memory.  Byte selects are left out: an access is of a whole word.       *)
(***************************************************************************)
EXTENDS Naturals

CONSTANTS
  AddrSpace,     \* number of byte addresses reg_addr can hold (2^64)
  WordBytes,     \* bytes in a word of the bus (8)
  BusWords,      \* number of words the bus can address (2^29)
  Data,          \* contents of a word
  Sizes,         \* steps of the autoincrement ({1, 2, 4, 8})
  HostPointers,  \* addresses the host writes to reg_addr
  HostModes,     \* contents the host writes to reg_ctrl
  None           \* no value

ADDR == 0   \* DMI register numbers; register 3 does not exist
DATA == 1
CTRL == 2

Pointers == 0..(AddrSpace - 1)
Words    == 0..(BusWords - 1)
Modes    == [auto : BOOLEAN, size : Sizes]

ASSUME ConstantsAssumption ==
  /\ AddrSpace \in Nat \ {0}
  /\ WordBytes \in Nat \ {0}
  /\ BusWords \in Nat \ {0}
  /\ Sizes \subseteq Nat /\ 1 \in Sizes
  /\ HostPointers \subseteq Pointers
  /\ HostModes \subseteq Modes
  /\ Data # {}
  /\ None \notin Data

Pointer0 == 0
Mode0    == [auto |-> FALSE, size |-> 1]

WordAt(p)   == (p \div WordBytes) % BusWords
Moved(p, m) == IF m.auto THEN (p + m.size) % AddrSpace ELSE p

Reads    == [reg : {ADDR, DATA, CTRL, 3}, wr : {FALSE}, value : {None}]
Writes   == [reg : {ADDR}, wr : {TRUE}, value : HostPointers]
              \cup [reg : {DATA}, wr : {TRUE}, value : Data]
              \cup [reg : {CTRL}, wr : {TRUE}, value : HostModes]
              \cup [reg : {3}, wr : {TRUE}, value : {None}]
Requests == Reads \cup Writes
Blank    == [reg |-> ADDR, wr |-> FALSE, value |-> None]

\* An access the slave has taken.
Access == [wr : BOOLEAN, word : Words, value : Data \cup {None},
           done : BOOLEAN, got : Data \cup {None}]

ASSUME NoneAssumption == None \notin Access

VARIABLES
  dmi_req, request,       \* the DMI request lines
  answered,               \* the transport has seen the acknowledge
  reg_addr, reg_ctrl, data_latch,
  state, stb, do_inc,     \* the state machine
  mem,                    \* the memory behind the bus
  pend,                   \* the access the slave has taken
  served,                 \* history: this request has taken effect
  torn                    \* history: TRST tore a request away

vars == <<dmi_req, request, answered, reg_addr, reg_ctrl, data_latch,
          state, stb, do_inc, mem, pend, served, torn>>

\* Mutants: a data access is acknowledged when it starts, or at once.
Bug_dmi_ack       == dmi_req /\ (request.reg # DATA \/ state # 0)
Bug_dmi_ackAtOnce == dmi_req

dmi_ack == dmi_req /\ (request.reg # DATA \/ state = 2)

Init ==
  /\ dmi_req = FALSE /\ request = Blank /\ answered = FALSE
  /\ reg_addr = Pointer0 /\ reg_ctrl = Mode0
  /\ data_latch \in Data
  /\ state = 0 /\ stb = FALSE /\ do_inc = FALSE
  /\ mem \in [Words -> Data]
  /\ pend = None
  /\ served = FALSE /\ torn = FALSE

-----------------------------------------------------------------------------
(* The slave.                                                               *)

\* The data lines as the bus sees them: a torn request may have left a value
\* there that was never meant for the bus.
OnBus(v) == IF v \in Data THEN {v} ELSE Data

\* The access inside the slave once it has, or has not, taken the strobe.
Taken(stall) == stb /\ ~stall
Arriving(stall) ==
  IF Taken(stall)
  THEN [wr : {request.wr}, word : {WordAt(reg_addr)}, value : OnBus(request.value),
        done : {FALSE}, got : {None}]
  ELSE {pend}

Performed(access) ==
  [access EXCEPT !.done = TRUE, !.got = IF access.wr THEN None ELSE mem[access.word]]

\* `access` is in the slave; it performs it now or later.
SlaveMoves(access, perform, ack) ==
  /\ perform => access # None /\ ~access.done
  /\ ack => access # None /\ (access.done \/ perform)
  /\ mem' = IF perform /\ access.wr THEN [mem EXCEPT ![access.word] = access.value] ELSE mem
  /\ pend' = IF ack THEN None ELSE IF perform THEN Performed(access) ELSE access

\* What the slave drives on its data lines with the acknowledge.
Driven(access) ==
  IF access.wr THEN Data ELSE IF access.done THEN {access.got} ELSE {mem[access.word]}

-----------------------------------------------------------------------------
(* The debug master.                                                        *)

RegWrite(r) == dmi_req /\ request.wr /\ request.reg = r

\* Mutant: the pointer does not wrap.
Bug_Registers ==
  /\ reg_addr' = IF do_inc THEN reg_addr + reg_ctrl.size
                 ELSE IF RegWrite(ADDR) THEN request.value ELSE reg_addr
  /\ reg_ctrl' = IF ~do_inc /\ RegWrite(CTRL) THEN request.value ELSE reg_ctrl

Registers ==
  /\ reg_addr' = IF do_inc THEN (reg_addr + reg_ctrl.size) % AddrSpace
                 ELSE IF RegWrite(ADDR) THEN request.value ELSE reg_addr
  /\ reg_ctrl' = IF ~do_inc /\ RegWrite(CTRL) THEN request.value ELSE reg_ctrl

Latch(access, ack) ==
  IF ack /\ state = 1 /\ ~request.wr THEN data_latch' \in Driven(access)
                                     ELSE UNCHANGED data_latch

Starts ==
  /\ state = 0
  /\ IF dmi_req /\ request.reg = DATA THEN state' = 1 /\ stb' = TRUE
                                      ELSE UNCHANGED <<state, stb>>
  /\ UNCHANGED do_inc

\* Mutant: the strobe is up for one clock, whether it is taken or not.
Bug_Waits(stall, ack) ==
  /\ state = 1
  /\ stb' = FALSE
  /\ state' = IF ack THEN 2 ELSE 1
  /\ do_inc' = IF ack THEN reg_ctrl.auto ELSE do_inc

Waits(stall, ack) ==
  /\ state = 1
  /\ stb' = (stb /\ stall /\ ~ack)
  /\ state' = IF ack THEN 2 ELSE 1
  /\ do_inc' = IF ack THEN reg_ctrl.auto ELSE do_inc

\* Mutant: the pointer goes on moving for as long as the request stands.
Bug_Finishes ==
  /\ state = 2
  /\ state' = IF dmi_req THEN 2 ELSE 0
  /\ do_inc' = (do_inc /\ dmi_req)
  /\ UNCHANGED stb

Finishes ==
  /\ state = 2
  /\ state' = IF dmi_req THEN 2 ELSE 0
  /\ do_inc' = FALSE
  /\ UNCHANGED stb

Machine(stall, ack) == Starts \/ Waits(stall, ack) \/ Finishes

-----------------------------------------------------------------------------
(* The transport.                                                           *)

Hold     == UNCHANGED <<dmi_req, request>>
Ask      == ~dmi_req /\ dmi_req' = TRUE /\ request' \in Requests
Withdraw == dmi_req /\ dmi_ack /\ answered /\ dmi_req' = FALSE /\ UNCHANGED request

\* After TRST the lines follow the transport's cleared request register, and
\* may carry a new request before they have been low once.
Drift == dmi_req' \in BOOLEAN /\ request' \in Requests

TransportMoves == IF torn THEN Drift ELSE Hold \/ Ask \/ Withdraw

-----------------------------------------------------------------------------

Clock(stall, perform, ack) ==
  \E access \in Arriving(stall) :
    /\ SlaveMoves(access, perform, ack)
    /\ Latch(access, ack)
    /\ Registers
    /\ Machine(stall, ack)
    /\ TransportMoves
    /\ answered' = (dmi_ack /\ dmi_req')
    /\ served' = (dmi_req' /\ (served \/ (dmi_req /\ (request.reg # DATA \/ perform))))
    /\ torn' = (torn /\ ~(~dmi_req' /\ state' = 0 /\ ~do_inc' /\ pend' = None))

\* A clock with no strobe on the bus, on which the slave answers what it has
\* taken.
Serve ==
  /\ ~stb
  /\ \E perform \in BOOLEAN : Clock(FALSE, perform, pend # None)

SysEdge == \E stall, perform, ack \in BOOLEAN : Clock(stall, perform, ack)

Trst ==
  /\ request' = Blank
  /\ torn' = TRUE
  /\ served' = FALSE
  /\ UNCHANGED <<dmi_req, answered, reg_addr, reg_ctrl, data_latch, state, stb, do_inc, mem, pend>>

\* System reset: transport, debug master, bus and slaves together.
Reset ==
  /\ dmi_req' = FALSE /\ request' = Blank /\ answered' = FALSE
  /\ reg_addr' = Pointer0 /\ reg_ctrl' = Mode0
  /\ state' = 0 /\ stb' = FALSE /\ do_inc' = FALSE
  /\ pend' = None
  /\ served' = FALSE /\ torn' = FALSE
  /\ UNCHANGED <<data_latch, mem>>

\* The processor's own stores.
CpuWrite ==
  /\ \E w \in Words, d \in Data : mem' = [mem EXCEPT ![w] = d]
  /\ UNCHANGED <<dmi_req, request, answered, reg_addr, reg_ctrl, data_latch,
                 state, stb, do_inc, pend, served, torn>>

Next == SysEdge \/ Trst \/ Reset \/ CpuWrite

Spec == Init /\ [][Next]_vars

\* The slave answers what it has taken.  Nothing says that it takes a strobe:
\* the debug master is the last in the fixed priority of wishbone_arbiter_4
\* and may wait for the bus for as long as the caches and the DMA port ask.
FairSpec == Spec /\ WF_vars(Serve)

-----------------------------------------------------------------------------
(* Properties.                                                              *)

\* Type correctness of the debug master and its two neighbours.
TypeOK ==
  /\ dmi_req \in BOOLEAN /\ request \in Requests /\ answered \in BOOLEAN
  /\ reg_addr \in Pointers /\ reg_ctrl \in Modes /\ data_latch \in Data
  /\ state \in 0..2 /\ stb \in BOOLEAN /\ do_inc \in BOOLEAN
  /\ mem \in [Words -> Data]
  /\ pend \in Access \cup {None}
  /\ served \in BOOLEAN /\ torn \in BOOLEAN

\* The acknowledge of a data access never reaches the transport before the
\* access has been performed, and by then the bus is free again.
AckMeansDone ==
  dmi_ack /\ request.reg = DATA /\ ~torn => served /\ pend = None /\ ~stb

\* Address, direction and data of a bus cycle come straight from registers
\* the host can write; they do not move under the cycle, so a strobe that
\* waits for the arbiter goes out as it was asked for.
BusCycleHeld ==
  [][state = 1 /\ state' = 1 /\ ~torn'
       => /\ reg_addr' = reg_addr
          /\ reg_ctrl' = reg_ctrl
          /\ request' = request]_vars

\* The promise to the host.
Phase == IF torn THEN "lost" ELSE IF ~dmi_req THEN "idle" ELSE IF served THEN "done" ELSE "asked"

\* The access is done but the pointer has not moved yet.
Moving == (state = 1 /\ served) \/ do_inc

HostAnswer ==
  IF torn \/ ~dmi_req \/ ~served \/ request.wr THEN None
  ELSE CASE request.reg = ADDR -> reg_addr
         [] request.reg = DATA -> IF state = 1 THEN pend.got ELSE data_latch
         [] request.reg = CTRL -> reg_ctrl
         [] OTHER -> None

Window == INSTANCE DebugMemory WITH
            ptr <- IF Moving THEN Moved(reg_addr, reg_ctrl) ELSE reg_addr,
            mode <- reg_ctrl,
            phase <- Phase,
            request <- IF torn \/ ~dmi_req THEN None ELSE request,
            answer <- HostAnswer

\* Whatever the bus and the slave do, every operation of the host takes effect
\* exactly once, on the word under the pointer, the pointer moves once per
\* access and the answer is the word as it was at that instant.
ImplementsDebugMemory == Window!Spec

\* If no strobe stays up for ever, that is if the bus is granted whenever it
\* is asked for long enough, every request that the transport keeps up is
\* acknowledged: no strobe is given up before the bus has taken it, and the
\* one answer to it is not missed, wherever stall and acknowledge fall.
RequestIsAnswered ==
  []<>~stb => (dmi_req /\ ~torn ~> dmi_ack \/ ~dmi_req \/ torn)
=============================================================================
