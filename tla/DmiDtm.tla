------------------------------- MODULE DmiDtm -------------------------------
(***************************************************************************)
(* The JTAG debug transport (dmi_dtm_jtag): a 74-bit data register behind  *)
(* the DEBUG instruction and a four-phase handshake that carries one DMI   *)
(* request at a time from the TCK domain to the system clock domain and    *)
(* its answer back.  The two clocks are independent: each rising edge is a *)
(* step of its own, in any order.                                          *)
(*                                                                         *)
(*   jtag_req -> jtag_req_0 -> jtag_req_1 = dmi_req     (system clock)     *)
(*               dmi_ack    -> dmi_ack_0  -> dmi_ack_1  (TCK)              *)
(*                                                                         *)
(* The environment is the scan contract DrScan on the JTAG side, and on    *)
(* the system side any slave that, once it acknowledges a request, keeps   *)
(* the acknowledge and the data until the request is withdrawn, and lets   *)
(* the acknowledge fall then or some edges later (the core debug registers *)
(* take two edges after the read of a special purpose register).  Which    *)
(* slave drives the acknowledge depends on the address, so that a change   *)
(* of the request register can move it with no clock at all.  TRST may     *)
(* strike at any time, and so may the system reset, which lasts one or     *)
(* more system clock cycles.                                               *)
(***************************************************************************)
EXTENDS Naturals

CONSTANTS
  Addr,    \* DMI addresses
  Data,    \* data words
  Addr0,   \* the address of a cleared request
  Data0,   \* the data of a cleared request
  None     \* no data at all

ASSUME ConstantsAssumption == Addr0 \in Addr /\ Data0 \in Data /\ None \notin Data

READ  == 1
WRITE == 2
OK    == 0
BUSY  == 3

Frame == [op : 0..3, addr : Addr, data : Data]
Blank == [op |-> 0, addr |-> Addr0, data |-> Data0]

VARIABLES
  dr, sel,                   \* the TAP, as seen through DrScan
  shiftr, request,           \* scan register and the request it posted
  jtag_req,                  \* a request is outstanding     (TCK domain)
  dmi_ack_0, dmi_ack_1,      \* synchronised acknowledge     (TCK domain)
  jtag_req_0, jtag_req_1,    \* synchronised request         (system domain)
  rst,                       \* system reset in force
  dmi_ack, dmi_din,          \* the slave's acknowledge and data
  told,                      \* history: response captured by this scan
  torn                       \* history: TRST cut a request the system had seen

vars == <<dr, sel, shiftr, request, jtag_req, dmi_ack_0, dmi_ack_1,
          jtag_req_0, jtag_req_1, rst, dmi_ack, dmi_din, told, torn>>

Scan == INSTANCE DrScan

Init ==
  /\ Scan!Init
  /\ shiftr = Blank
  /\ request = Blank
  /\ jtag_req = FALSE
  /\ dmi_ack_0 = FALSE /\ dmi_ack_1 = FALSE
  /\ jtag_req_0 = FALSE /\ jtag_req_1 = FALSE
  /\ rst = FALSE
  /\ dmi_ack = FALSE
  /\ dmi_din = Data0
  /\ told = "none"
  /\ torn = FALSE

-----------------------------------------------------------------------------
(* TCK domain.                                                              *)

\* Mutants: an acknowledge that is still up does not make the transport busy;
\* a request that is not yet acknowledged does not; a busy code of three bits.
Bug_jtag_bsy   == jtag_req
Bug_rsp_op     == IF dmi_ack_1 THEN BUSY ELSE OK
Bug_rsp_opWide == IF jtag_req \/ dmi_ack_1 THEN 4 ELSE OK

jtag_bsy == jtag_req \/ dmi_ack_1
op_valid == shiftr.op \in {READ, WRITE}
rsp_op   == IF jtag_bsy THEN BUSY ELSE OK

dmi_req == jtag_req_1
dmi_wr  == request.op = WRITE

\* Mutants: a busy transport takes the request; it completes in Update-DR only.
Bug_Accepts   == sel /\ dr = "update" /\ op_valid
Bug_Completes == sel /\ jtag_req /\ dmi_ack_1 /\ dr = "update"

\* The request in the scan register is taken on this edge, or dropped.
Updates == sel /\ dr = "update" /\ op_valid
Accepts == Updates /\ ~jtag_bsy
Drops   == Updates /\ jtag_bsy

\* The acknowledge has come round.
Completes == sel /\ jtag_req /\ dmi_ack_1

\* In Shift-DR the host may be anywhere in the frame it is shifting in.
NextShiftr ==
  IF sel /\ dr = "capture" THEN {[request EXCEPT !.op = rsp_op]}
  ELSE IF sel /\ dr = "shift" THEN Frame
  ELSE IF Updates THEN {[shiftr EXCEPT !.op = 3]}
  ELSE {shiftr}

\* Mutant: the data of a read never reaches the request register.
Bug_NextRequest == IF Accepts THEN shiftr ELSE request

NextRequest ==
  IF Accepts THEN shiftr
  ELSE IF Completes /\ request.op = READ THEN [request EXCEPT !.data = dmi_din]
  ELSE request

\* All stages of the handshake are low.
Quiet(req, r0, r1, ack, a0, a1) == ~(req \/ r0 \/ r1 \/ ack \/ a0 \/ a1)

\* The new address selects another slave, which may acknowledge if it sees a
\* request already.
AddressMoves(moved) ==
  IF moved THEN /\ dmi_ack' \in {FALSE, jtag_req_1}
                /\ dmi_din' \in (IF dmi_ack' THEN Data ELSE {dmi_din})
           ELSE UNCHANGED <<dmi_ack, dmi_din>>

JtagEdge ==
  /\ Scan!Edge
  /\ dmi_ack_0' = dmi_ack
  /\ dmi_ack_1' = dmi_ack_0
  /\ IF rst
     THEN UNCHANGED <<shiftr, request, jtag_req, told>>
     ELSE /\ shiftr' \in NextShiftr
          /\ request' = NextRequest
          /\ jtag_req' = ((jtag_req \/ Accepts) /\ ~Completes)
          /\ told' = IF dr = "capture" THEN (IF rsp_op = BUSY THEN "busy" ELSE "ok")
                     ELSE IF dr = "update" THEN "none" ELSE told
  /\ AddressMoves(Accepts /\ ~rst)
  /\ torn' = (torn /\ ~Quiet(jtag_req', jtag_req_0, jtag_req_1, dmi_ack', dmi_ack_0', dmi_ack_1'))
  /\ UNCHANGED <<jtag_req_0, jtag_req_1, rst>>

\* Asynchronous reset of the scan register, the request and jtag_req, by TRST
\* or by the system reset.
ClearRequest ==
  /\ shiftr' = Blank
  /\ request' = Blank
  /\ jtag_req' = FALSE
  /\ told' = "none"

Trst ==
  /\ Scan!Reset
  /\ ClearRequest
  /\ dmi_ack_0' = FALSE
  /\ dmi_ack_1' = FALSE
  /\ AddressMoves(TRUE)
  /\ torn' = (jtag_req_0 \/ jtag_req_1)
  /\ UNCHANGED <<jtag_req_0, jtag_req_1, rst>>

-----------------------------------------------------------------------------
(* System clock domain.                                                     *)

\* What the slave drives after this edge, given the request line it will see:
\* a new acknowledge comes with fresh data, one already given is held, and an
\* acknowledge may outlive its request unless a reset cleared the address.
SlaveAnswers(req, lingers) ==
  \/ ~req /\ dmi_ack' = FALSE /\ UNCHANGED dmi_din
  \/ ~req /\ lingers /\ UNCHANGED <<dmi_ack, dmi_din>>
  \/ req /\ UNCHANGED <<dmi_ack, dmi_din>>
  \/ req /\ ~dmi_ack /\ dmi_ack' = TRUE /\ dmi_din' \in Data

SysEdge ==
  /\ jtag_req_0' = (jtag_req /\ ~rst)
  /\ jtag_req_1' = (jtag_req_0 /\ ~rst)
  /\ SlaveAnswers(jtag_req_1', ~rst)
  /\ rst' = FALSE
  /\ torn' = (torn /\ ~Quiet(jtag_req, jtag_req_0', jtag_req_1', dmi_ack', dmi_ack_0, dmi_ack_1))
  /\ UNCHANGED <<dr, sel, shiftr, request, jtag_req, dmi_ack_0, dmi_ack_1, told>>

\* A system clock edge on which the registered system reset becomes, or stays,
\* asserted.
SysEdgeIntoReset ==
  /\ jtag_req_0' = (jtag_req /\ ~rst)
  /\ jtag_req_1' = (jtag_req_0 /\ ~rst)
  /\ SlaveAnswers(jtag_req_1', FALSE)
  /\ rst' = TRUE
  /\ ClearRequest
  /\ torn' = (torn /\ ~Quiet(FALSE, jtag_req_0', jtag_req_1', dmi_ack', dmi_ack_0, dmi_ack_1))
  /\ UNCHANGED <<dr, sel, dmi_ack_0, dmi_ack_1>>

Next == JtagEdge \/ Trst \/ SysEdge \/ SysEdgeIntoReset

Spec == Init /\ [][Next]_vars

\* Both clocks run, the slave gets to answer, and the system reset is not in
\* force for ever.
Fairness ==
  /\ WF_vars(SysEdge /\ (jtag_req_1' <=> dmi_ack'))
  /\ WF_vars(JtagEdge)

FairSpec == Spec /\ Fairness

-----------------------------------------------------------------------------
(* Properties.                                                              *)

\* Type correctness of the debug transport.
TypeOK ==
  /\ Scan!TypeOK
  /\ shiftr \in Frame /\ request \in Frame
  /\ jtag_req \in BOOLEAN
  /\ dmi_ack_0 \in BOOLEAN /\ dmi_ack_1 \in BOOLEAN
  /\ jtag_req_0 \in BOOLEAN /\ jtag_req_1 \in BOOLEAN
  /\ rst \in BOOLEAN
  /\ dmi_ack \in BOOLEAN
  /\ dmi_din \in Data
  /\ told \in {"none", "ok", "busy"}
  /\ torn \in BOOLEAN

\* A request travels: every stage it has reached is still high ...
Rising ==
  /\ dmi_ack_1 => dmi_ack_0
  /\ dmi_ack_0 => dmi_ack
  /\ dmi_ack => jtag_req_1
  /\ jtag_req_1 => jtag_req_0

\* ... or is withdrawn: the low level travels the same way.
Falling ==
  /\ jtag_req_0 => jtag_req_1
  /\ jtag_req_1 => dmi_ack
  /\ dmi_ack => dmi_ack_0
  /\ dmi_ack_0 => dmi_ack_1

\* The one pattern the system reset adds: the acknowledge it cut short is still
\* in the first synchroniser stage of the TCK domain, and the scan register is
\* empty, so that nothing can be posted before that acknowledge has passed.
StaleAck ==
  /\ ~jtag_req_0 /\ ~jtag_req_1 /\ ~dmi_ack
  /\ dmi_ack_0 /\ ~dmi_ack_1
  /\ ~op_valid

Cleared == shiftr = Blank /\ request = Blank /\ ~jtag_req

\* The four-phase handshake between the two clock domains is never more than
\* one wave, whatever the ratio of the clocks and wherever the system reset
\* strikes: no stale acknowledge can complete a later request.
HandshakeIsOneWave ==
  /\ rst => Cleared
  /\ \/ torn \/ rst
     \/ jtag_req /\ Rising
     \/ ~jtag_req /\ (Falling \/ StaleAck)

\* The system side reads request with no synchroniser of its own: as long as
\* it can see the request in either synchroniser stage, the address, the
\* operation and the data of a write do not change under it.
RequestHeld ==
  [][(jtag_req_0 \/ jtag_req_1) /\ ~torn' /\ ~rst'
       => /\ request'.addr = request.addr
          /\ request'.op = request.op
          /\ dmi_wr => request'.data = request.data]_vars

\* A post that the transport ignores because it is busy was announced: the
\* response the host captured in that same scan said busy.  Two resets void
\* this: the system reset empties the scan register half way through a scan,
\* and an acknowledge that TRST left on its way makes the transport busy
\* after the capture.
DropsWereAnnounced == [][JtagEdge /\ Drops /\ ~rst /\ ~torn => told # "ok"]_vars

\* The life of a request, as DmiTransaction states it.
Phase ==
  IF torn \/ rst THEN "lost"
  ELSE IF jtag_req
       THEN IF dmi_ack THEN "answered" ELSE IF jtag_req_1 THEN "presented" ELSE "posted"
       ELSE IF jtag_req_1 THEN "returned"
       ELSE IF dmi_ack_0 \/ dmi_ack_1 THEN "released" ELSE "idle"

PostedFrame ==
  IF torn \/ rst THEN Blank
  ELSE IF request.op = READ THEN [request EXCEPT !.data = Data0] ELSE request

HostAnswer ==
  IF torn \/ rst \/ request.op # READ \/ (jtag_req /\ ~dmi_ack) THEN None
  ELSE IF jtag_req THEN dmi_din ELSE request.data

Tx == INSTANCE DmiTransaction WITH
        phase <- Phase, frame <- PostedFrame, answer <- HostAnswer

\* Every posted request is presented once, answered once and returned with
\* the answer the slave gave to it and to no other.
ImplementsTransaction == Tx!Spec

\* A host that keeps coming back to the DEBUG instruction finds every request
\* answered and the transport ready for another.  (Away from DEBUG the
\* handshake is frozen: jtag_req falls on a TCK edge with DEBUG selected and
\* on no other.)
RequestIsServed == []<>sel => (jtag_req ~> ~jtag_bsy)
=============================================================================
