-------------------------- MODULE StopControl_proofs --------------------------
(***************************************************************************)
(* Proofs about the core's debug registers and about how the core stops    *)
(* and steps, for any registers used, any commands, any number of          *)
(* instructions in flight, and any transport that keeps its request line   *)
(* low for two edges or more, as the two stages of the synchroniser do.    *)
(***************************************************************************)
EXTENDS StopControl, TLAPS

-----------------------------------------------------------------------------
(* The debug registers, by themselves.                                      *)

\* The four things that can happen to the request lines on an edge, with what
\* the kind of the edge says about the reset.
LinesMove ==
  \/ Hold /\ (rst' = "system" => ~dmi_req)
  \/ (\E r \in Requests : Ask(r)) /\ rst' # "system"
  \/ Withdraw /\ rst' # "system"
  \/ Tear

\* The request line, how long it has been low, and what is left of the last
\* request by the time the next one may come.  The core reset freezes the
\* registers it finds, but it lasts one edge, so that they have seen the low
\* line on one edge at least.
LineInv ==
  /\ dmi_req <=> low = 0
  /\ dmi_req => ~torn /\ rst # "system"
  /\ ~dmi_req /\ low >= 2 => unit_req = "none"
  /\ ~dmi_req /\ low >= 2 /\ rst = "core" => ~dmi_req_1 /\ ~dmi_read_log_data
  /\ dmi_req /\ answered /\ rst = "core" => dmi_req_1

\* A request has taken effect as soon as dmi_req_1 has seen it.
ActsInv ==
  /\ acts \in 0..1
  /\ dmi_req => acts = (IF request.wr /\ dmi_req_1 THEN 1 ELSE 0)
  /\ ~dmi_req /\ request.wr /\ ~torn => acts = 1

\* What the two stages that detect the end of a log read hold, whether or not
\* the host knows the log address.
StageInv ==
  dmi_req =>
    /\ ~dmi_req_1 => ~dmi_read_log_data
    /\ request.addr # "log_data" => ~dmi_read_log_data
    /\ request.addr = "log_addr" /\ dmi_req_1
         => ~dmi_read_log_data_1 /\ log_dmi_addr = request.value

\* The log address and the one the host counts on: they differ by one from the
\* withdrawal of a read to the edge on which LogReadOver is seen.
CursorInv ==
  cursor # Unknown =>
    /\ ~dmi_req =>
         \/ ~dmi_read_log_data /\ ~dmi_read_log_data_1 /\ log_dmi_addr = cursor
         \/ dmi_read_log_data_1 /\ Advanced = cursor /\ (dmi_read_log_data => low = 1)
    /\ dmi_req /\ ~dmi_req_1 =>
         ~answered /\ ~dmi_read_log_data /\ ~dmi_read_log_data_1 /\ log_dmi_addr = cursor
    /\ dmi_req /\ dmi_req_1 /\ request.addr = "log_data" =>
         dmi_read_log_data /\ log_dmi_addr = cursor
    /\ dmi_req /\ dmi_req_1 /\ request.addr = "log_addr" => answered
    /\ dmi_req /\ dmi_req_1 /\ request.addr \notin {"log_addr", "log_data"} =>
         ~dmi_read_log_data /\ ~dmi_read_log_data_1 /\ log_dmi_addr = cursor

-----------------------------------------------------------------------------
(* Shape of the requests and of the steps.                                  *)

LEMMA RequestShape ==
  ASSUME NEW r \in Requests
  PROVE  /\ r.wr \in BOOLEAN
         /\ r.addr = "log_addr" => r.wr /\ r.value \in LogLow
         /\ r.addr = "gspr_index" => r.value \in Indexes
BY DEF Requests

LEMMA NextShape ==
  ASSUME Next
  PROVE  \E terminate, answers \in BOOLEAN :
           /\ Edge(terminate, answers)
           /\ LinesMove
           /\ rst' \in {"no", "core", "system"}
           /\ rst' = "core" => rst = "no"
<1>1. PICK terminate \in BOOLEAN, answers \in BOOLEAN :
        \/ Clock(terminate, answers) \/ CoreReset(terminate, answers)
        \/ SystemReset(terminate, answers) \/ Trst(terminate, answers)
  BY DEF Next
<1>2. Edge(terminate, answers)
  BY <1>1 DEF Clock, CoreReset, SystemReset, Trst
<1>3. rst' \in {"no", "core", "system"} /\ (rst' = "core" => rst = "no")
  BY <1>1 DEF Clock, CoreReset, SystemReset, Trst
<1>4. LinesMove
  <2>1. CASE Clock(terminate, answers) \/ CoreReset(terminate, answers)
    BY <2>1 DEF Clock, CoreReset, Lines, LinesMove
  <2>2. CASE SystemReset(terminate, answers) \/ Trst(terminate, answers)
    BY <2>2 DEF SystemReset, Trst, LinesMove
  <2>3. QED
    BY <1>1, <2>1, <2>2
<1>5. QED
  BY <1>2, <1>3, <1>4

-----------------------------------------------------------------------------
(* Type correctness.                                                        *)

LEMMA TypeStep == TypeOK /\ [Next]_vars => TypeOK'
<1> SUFFICES ASSUME TypeOK, [Next]_vars
             PROVE  TypeOK'
  OBVIOUS
<1>1. CASE Next
  <2>1. PICK terminate \in BOOLEAN, answers \in BOOLEAN :
          /\ Edge(terminate, answers)
          /\ LinesMove
          /\ rst' \in {"no", "core", "system"}
    BY <1>1, NextShape
  <2>2. Registers(terminate, answers) /\ Watches /\ Histories
    BY <2>1 DEF Edge
  <2>3. dmi_req' \in BOOLEAN /\ request' \in Requests /\ torn' \in BOOLEAN
    BY <2>1 DEF TypeOK, LinesMove, Hold, Ask, Withdraw, Tear
  <2>4. answered' \in BOOLEAN
    BY <2>2 DEF Watches
  <2>5. low' \in 0..LowEdges
    BY <2>2, ConstantsAssumption DEF TypeOK, Watches
  <2>6. dmi_req_1' \in BOOLEAN
    BY <2>2 DEF TypeOK, Registers
  <2>7. /\ stopping' \in BOOLEAN /\ terminated' \in BOOLEAN
        /\ do_step' \in BOOLEAN /\ do_reset' \in BOOLEAN /\ do_icreset' \in BOOLEAN
    <3>1. RunControl(terminate)
      BY <2>2 DEF Registers
    <3>2. \A bit \in CtrlBits : Commanded(bit) \in BOOLEAN
      BY DEF Commanded
    <3>3. QED
      BY <3>1, <3>2 DEF RunControl, CtrlBits
  <2>8. gspr_index' \in Indexes /\ unit_req' \in Indexes \cup {"none"} /\ unit_ack' \in BOOLEAN
    <3>1. ReadPort(answers)
      BY <2>2 DEF Registers
    <3>2. Writes("gspr_index") => request.value \in Indexes
      BY RequestShape DEF TypeOK, Writes
    <3>3. QED
      BY <3>1, <3>2 DEF TypeOK, ReadPort, UnitAcks, Indexes
  <2>9. log_dmi_addr' \in LogLow /\ dmi_read_log_data' \in BOOLEAN /\ dmi_read_log_data_1' \in BOOLEAN
    <3>1. LogPort
      BY <2>2 DEF Registers
    <3>2. Writes("log_addr") => request.value \in LogLow
      BY RequestShape DEF TypeOK, Writes
    <3>3. Advanced \in LogLow
      BY DEF TypeOK, Advanced, LogLow
    <3>4. QED
      BY <3>1, <3>2, <3>3 DEF TypeOK, LogPort, logVars
  <2>10. acts' \in 0..2
    BY <2>2 DEF TypeOK, Histories
  <2>11. cursor' \in LogLow \cup {Unknown}
    <3>1. request.addr = "log_addr" => request.value \in LogLow
      BY RequestShape DEF TypeOK
    <3>2. cursor # Unknown => (cursor + 1) % 4 \in LogLow
      BY DEF TypeOK, LogLow, Unknown
    <3>3. QED
      BY <2>2, <3>1, <3>2 DEF TypeOK, Histories
  <2>12. QED
    BY <2>1, <2>3, <2>4, <2>5, <2>6, <2>7, <2>8, <2>9, <2>10, <2>11 DEF TypeOK
<1>2. CASE UNCHANGED vars
  BY <1>2 DEF TypeOK, vars, dmiVars, runVars, readVars, logVars
<1>3. QED
  BY <1>1, <1>2

\* Type correctness of the debug registers.
THEOREM TypeCorrect == Spec => []TypeOK
<1>1. Init => TypeOK
  <2> SUFFICES ASSUME Init PROVE TypeOK
    OBVIOUS
  <2>1. request \in Requests
    <3>1. [addr : {"stat"}, wr : {FALSE}, value : {0}]
            \subseteq [addr : Used \cap {"stat"}, wr : {FALSE}, value : {0}]
      BY ConstantsAssumption
    <3>2. QED
      BY <3>1 DEF Init, Requests
  <2>2. low \in 0..LowEdges /\ log_dmi_addr \in LogLow /\ acts \in 0..2 /\ cursor \in LogLow
    BY ConstantsAssumption DEF Init, LogLow
  <2>3. QED
    BY <2>1, <2>2 DEF Init, TypeOK, Indexes
<1>2. QED
  BY <1>1, TypeStep, PTL DEF Spec

-----------------------------------------------------------------------------
(* The request line.                                                        *)

LEMMA LineStep ==
  ASSUME LowEdges >= 2
  PROVE  TypeOK /\ LineInv /\ [Next]_vars => LineInv'
<1> SUFFICES ASSUME TypeOK, LineInv, [Next]_vars
             PROVE  LineInv'
  OBVIOUS
<1> low \in Nat /\ LowEdges \in Nat
  BY ConstantsAssumption DEF TypeOK
<1>1. CASE Next
  <2>1. PICK terminate \in BOOLEAN, answers \in BOOLEAN :
          /\ Edge(terminate, answers)
          /\ LinesMove
          /\ rst' = "core" => rst = "no"
    BY <1>1, NextShape
  <2>2. Registers(terminate, answers) /\ Watches
    BY <2>1 DEF Edge
  <2>3. dmi_req' <=> low' = 0
    BY <2>2 DEF LineInv, Watches
  <2>4. dmi_req' => ~torn' /\ rst' # "system"
    BY <2>1 DEF LineInv, LinesMove, Hold, Ask, Withdraw, Tear
  <2>5. ~dmi_req' /\ low' >= 2 => ~dmi_req
    BY <2>2 DEF LineInv, Watches
  <2>6. ~dmi_req' /\ low' >= 2 => unit_req' = "none"
    BY <2>2, <2>5 DEF Registers, ReadPort
  <2>7. ~dmi_req' /\ low' >= 2 /\ rst' = "core" => ~dmi_req_1' /\ ~dmi_read_log_data'
    BY <2>1, <2>2, <2>5 DEF Registers, LogPort
  <2>8. dmi_req' /\ answered' /\ rst' = "core" => dmi_req_1'
    BY <2>1, <2>2 DEF Registers, Watches
  <2>9. QED
    BY <2>3, <2>4, <2>6, <2>7, <2>8 DEF LineInv
<1>2. CASE UNCHANGED vars
  BY <1>2 DEF LineInv, vars, dmiVars, readVars, logVars
<1>3. QED
  BY <1>1, <1>2

\* A new request finds no trace of the one before in dmi_req_1 and in the
\* first stage of the log read, and no unit is asked for anything.
LEMMA FreshRequest ==
  ASSUME LowEdges >= 2, TypeOK, LineInv, NEW terminate, NEW answers,
         Registers(terminate, answers), NEW r, Ask(r)
  PROVE  unit_req = "none" /\ ~dmi_req_1' /\ ~dmi_read_log_data'
<1>1. low >= 2 /\ ~dmi_req /\ rst # "system"
  BY ConstantsAssumption DEF TypeOK, Ask
<1>2. unit_req = "none"
  BY <1>1 DEF LineInv
<1>3. rst = "no" \/ (rst = "core" /\ ~dmi_req_1 /\ ~dmi_read_log_data)
  BY <1>1 DEF TypeOK, LineInv
<1>4. ~dmi_req_1' /\ ~dmi_read_log_data'
  BY <1>1, <1>3 DEF Registers, LogPort, logVars
<1>5. QED
  BY <1>2, <1>4

LEMMA InitLine == Init => LineInv
BY ConstantsAssumption DEF Init, LineInv

\* The acknowledge of a special purpose register has fallen before another
\* request can take it for its own.
THEOREM AnswersAreFresh ==
  ASSUME LowEdges >= 2
  PROVE  Spec => AnswerIsFresh
<1>1. TypeOK /\ LineInv /\ [Next]_vars
        => [~dmi_req /\ dmi_req' /\ request'.addr = "gspr_data" => ~unit_ack']_vars
  <2> SUFFICES ASSUME TypeOK, LineInv, Next, ~dmi_req, dmi_req'
               PROVE  ~unit_ack'
    OBVIOUS
  <2>1. PICK terminate \in BOOLEAN, answers \in BOOLEAN :
          Edge(terminate, answers) /\ LinesMove
    BY NextShape
  <2>2. Registers(terminate, answers)
    BY <2>1 DEF Edge
  <2>3. PICK r \in Requests : Ask(r)
    BY <2>1 DEF LinesMove, Hold, Withdraw, Tear
  <2>4. unit_req = "none"
    BY <2>2, <2>3, FreshRequest
  <2>5. QED
    BY <2>2, <2>4 DEF Registers, ReadPort, UnitAcks
<1>2. QED
  BY <1>1, TypeCorrect, InitLine, LineStep, TypeStep, PTL DEF Spec, AnswerIsFresh

-----------------------------------------------------------------------------
(* Commands.                                                                *)

LEMMA ActsStep ==
  ASSUME LowEdges >= 2
  PROVE  TypeOK /\ LineInv /\ ActsInv /\ [Next]_vars => ActsInv'
<1> SUFFICES ASSUME TypeOK, LineInv, ActsInv, [Next]_vars
             PROVE  ActsInv'
  OBVIOUS
<1>1. CASE Next
  <2>1. PICK terminate \in BOOLEAN, answers \in BOOLEAN :
          Edge(terminate, answers) /\ LinesMove
    BY <1>1, NextShape
  <2>2. Registers(terminate, answers) /\ Histories
    BY <2>1 DEF Edge
  <2>3. dmi_req_1' = IF rst = "no" THEN dmi_req ELSE dmi_req_1
    BY <2>2 DEF Registers
  <2>4. CASE Hold
    <3>1. dmi_req' = dmi_req /\ request' = request /\ torn' = torn
      BY <2>4 DEF Hold
    <3>2. acts' = IF Performs /\ acts < 2 THEN acts + 1 ELSE acts
      BY <2>2, <3>1 DEF Histories
    <3>3. CASE Performs
      BY <2>3, <3>1, <3>2, <3>3 DEF ActsInv, Performs, Rises
    <3>4. CASE ~Performs
      BY <2>3, <3>1, <3>2, <3>4 DEF TypeOK, ActsInv, Performs, Rises
    <3>5. QED
      BY <3>3, <3>4
  <2>5. CASE \E r \in Requests : Ask(r)
    <3>1. PICK r \in Requests : Ask(r)
      BY <2>5
    <3>2. ~dmi_req_1'
      BY <2>2, <3>1, FreshRequest
    <3>3. acts' = 0 /\ dmi_req'
      BY <2>2, <3>1 DEF Ask, Histories
    <3>4. QED
      BY <3>2, <3>3 DEF ActsInv
  <2>6. CASE Withdraw
    <3>1. dmi_req /\ answered /\ ~dmi_req' /\ request' = request /\ torn' = torn
      BY <2>6 DEF Withdraw
    <3>2. acts' = IF Performs /\ acts < 2 THEN acts + 1 ELSE acts
      BY <2>2, <3>1 DEF Histories
    <3>3. CASE Performs
      BY <3>1, <3>2, <3>3 DEF ActsInv, Performs, Rises
    <3>4. CASE ~Performs
      <4>1. dmi_req_1 \/ rst = "no"
        BY <3>1 DEF TypeOK, LineInv
      <4>2. request.wr => dmi_req_1
        BY <3>1, <3>4, <4>1 DEF Performs, Rises
      <4>3. QED
        BY <3>1, <3>2, <3>4, <4>2 DEF ActsInv
    <3>5. QED
      BY <3>3, <3>4
  <2>7. CASE Tear
    <3>1. dmi_req /\ ~dmi_req' /\ torn'
      BY <2>7 DEF Tear
    <3>2. acts' = IF Performs /\ acts < 2 THEN acts + 1 ELSE acts
      BY <2>2, <3>1 DEF Histories
    <3>3. acts' \in 0..1
      BY <3>1, <3>2 DEF ActsInv, Performs, Rises
    <3>4. QED
      BY <3>1, <3>3 DEF ActsInv
  <2>8. QED
    BY <2>1, <2>4, <2>5, <2>6, <2>7 DEF LinesMove
<1>2. CASE UNCHANGED vars
  BY <1>2 DEF ActsInv, vars, dmiVars
<1>3. QED
  BY <1>1, <1>2

\* A write that was acknowledged took effect on exactly one edge.
THEOREM WritesAlwaysActOnce ==
  ASSUME LowEdges >= 2
  PROVE  Spec => []WritesActOnce
<1>1. Init => ActsInv
  <2>1. Init => request.wr = FALSE
    BY DEF Init
  <2>2. QED
    BY <2>1 DEF Init, ActsInv
<1>2. ActsInv => WritesActOnce
  BY DEF ActsInv, WritesActOnce
<1>3. QED
  BY <1>1, <1>2, TypeCorrect, InitLine, LineStep, ActsStep, TypeStep, PTL DEF Spec

-----------------------------------------------------------------------------
(* The log.                                                                 *)

\* What a clock edge does to the log port.
LEMMA LogEdge ==
  ASSUME TypeOK, NEW terminate, NEW answers, Registers(terminate, answers)
  PROVE  /\ dmi_req_1' = (IF rst = "no" THEN dmi_req ELSE dmi_req_1)
         /\ rst # "no" => /\ dmi_read_log_data' = dmi_read_log_data
                          /\ dmi_read_log_data_1' = dmi_read_log_data_1
                          /\ log_dmi_addr' = log_dmi_addr
         /\ rst = "no" =>
              /\ dmi_read_log_data' = (dmi_req /\ request.addr = "log_data")
              /\ dmi_read_log_data_1' = dmi_read_log_data
              /\ log_dmi_addr' =
                   IF dmi_req /\ ~dmi_req_1
                   THEN (IF request.addr = "log_addr" THEN request.value ELSE log_dmi_addr)
                   ELSE IF LogReadOver THEN Advanced ELSE log_dmi_addr
<1>1. request.addr = "log_addr" => request.wr
  BY RequestShape DEF TypeOK
<1>2. dmi_req_1' = (IF rst = "no" THEN dmi_req ELSE dmi_req_1) /\ LogPort
  BY DEF Registers
<1>3. CASE rst # "no"
  BY <1>2, <1>3 DEF LogPort, logVars
<1>4. CASE rst = "no"
  BY <1>1, <1>2, <1>4 DEF LogPort, Rises, Writes, Performs
<1>5. QED
  BY <1>2, <1>3, <1>4

LEMMA StageStep ==
  ASSUME LowEdges >= 2
  PROVE  TypeOK /\ LineInv /\ StageInv /\ [Next]_vars => StageInv'
<1> SUFFICES ASSUME TypeOK, LineInv, StageInv, [Next]_vars, dmi_req'
             PROVE  /\ ~dmi_req_1' => ~dmi_read_log_data'
                    /\ request'.addr # "log_data" => ~dmi_read_log_data'
                    /\ request'.addr = "log_addr" /\ dmi_req_1'
                         => ~dmi_read_log_data_1' /\ log_dmi_addr' = request'.value
  BY DEF StageInv
<1>1. CASE Next
  <2>1. PICK terminate \in BOOLEAN, answers \in BOOLEAN :
          Registers(terminate, answers) /\ LinesMove
    BY <1>1, NextShape DEF Edge
  <2>2. CASE Hold
    <3>1. dmi_req /\ request' = request
      BY <2>2 DEF Hold
    <3>2. QED
      BY <2>1, <3>1, LogEdge DEF StageInv, LogReadOver
  <2>3. CASE \E r \in Requests : Ask(r)
    BY <2>1, <2>3, FreshRequest
  <2>4. QED
    BY <2>1, <2>2, <2>3 DEF LinesMove, Withdraw, Tear
<1>2. CASE UNCHANGED vars
  BY <1>2 DEF StageInv, vars, dmiVars, logVars
<1>3. QED
  BY <1>1, <1>2

\* The cursor of the host, on an edge after which it is known.
LEMMA CursorMoves ==
  ASSUME Histories, cursor' # Unknown
  PROVE  /\ rst = "no"
         /\ ~(torn' /\ ~torn)
         /\ ~dmi_req \/ dmi_req' => cursor' = cursor
         /\ dmi_req /\ ~dmi_req' =>
              /\ request.addr = "log_addr" => cursor' = request.value
              /\ request.addr = "log_data" => cursor # Unknown /\ cursor' = (cursor + 1) % 4
              /\ request.addr \notin {"log_addr", "log_data"} => cursor' = cursor
BY DEF Histories

LEMMA CursorStep ==
  ASSUME LowEdges >= 2
  PROVE  TypeOK /\ LineInv /\ StageInv /\ CursorInv /\ [Next]_vars => CursorInv'
<1> SUFFICES ASSUME TypeOK, LineInv, StageInv, CursorInv, [Next]_vars
             PROVE  CursorInv'
  OBVIOUS
<1>1. CASE Next /\ cursor' # Unknown
  <2>1. PICK terminate \in BOOLEAN, answers \in BOOLEAN :
          Edge(terminate, answers) /\ LinesMove
    BY <1>1, NextShape
  <2>2. Registers(terminate, answers) /\ Watches /\ Histories
    BY <2>1 DEF Edge
  <2>3. rst = "no" /\ ~(torn' /\ ~torn)
    BY <1>1, <2>2, CursorMoves
  <2>4. /\ dmi_req_1' = dmi_req
        /\ dmi_read_log_data' = (dmi_req /\ request.addr = "log_data")
        /\ dmi_read_log_data_1' = dmi_read_log_data
        /\ log_dmi_addr' =
             IF dmi_req /\ ~dmi_req_1
             THEN (IF request.addr = "log_addr" THEN request.value ELSE log_dmi_addr)
             ELSE IF LogReadOver THEN Advanced ELSE log_dmi_addr
    BY <2>2, <2>3, LogEdge
  <2>5. CASE Hold /\ ~dmi_req
    <3>1. ~dmi_req /\ ~dmi_req' /\ cursor' = cursor
      BY <1>1, <2>2, <2>5, CursorMoves DEF Hold
    <3>2. CASE ~dmi_read_log_data /\ ~dmi_read_log_data_1 /\ log_dmi_addr = cursor
      BY <2>4, <3>1, <3>2 DEF CursorInv, LogReadOver
    <3>3. CASE dmi_read_log_data /\ dmi_read_log_data_1 /\ Advanced = cursor
      <4>1. log_dmi_addr' = log_dmi_addr
        BY <2>4, <3>1, <3>3 DEF LogReadOver
      <4>2. Advanced' = cursor' /\ ~dmi_read_log_data' /\ dmi_read_log_data_1'
        BY <2>4, <3>1, <3>3, <4>1 DEF Advanced
      <4>3. QED
        BY <3>1, <4>2 DEF CursorInv
    <3>4. CASE ~dmi_read_log_data /\ dmi_read_log_data_1 /\ Advanced = cursor
      BY <2>4, <3>1, <3>4 DEF CursorInv, LogReadOver
    <3>5. QED
      BY <1>1, <3>1, <3>2, <3>3, <3>4 DEF CursorInv
  <2>6. CASE Hold /\ dmi_req
    <3>1. dmi_req /\ dmi_req' /\ request' = request /\ cursor' = cursor
      BY <1>1, <2>2, <2>6, CursorMoves DEF Hold
    <3>2. dmi_req_1' /\ dmi_read_log_data' = (request.addr = "log_data")
      BY <2>4, <3>1
    <3>3. request.addr = "log_data" => log_dmi_addr' = cursor
      BY <1>1, <2>4, <3>1 DEF CursorInv, LogReadOver
    <3>4. request.addr = "log_addr" => answered'
      BY <2>2, <3>1 DEF Watches, dmi_ack
    <3>5. request.addr \notin {"log_addr", "log_data"} => ~dmi_read_log_data_1' /\ log_dmi_addr' = cursor
      BY <1>1, <2>4, <3>1 DEF CursorInv, LogReadOver
    <3>6. QED
      BY <3>1, <3>2, <3>3, <3>4, <3>5 DEF CursorInv
  <2>7. CASE \E r \in Requests : Ask(r)
    <3>1. PICK r \in Requests : Ask(r)
      BY <2>7
    <3>2. ~dmi_req /\ dmi_req' /\ low >= 2
      BY <3>1, ConstantsAssumption DEF TypeOK, Ask
    <3>3. cursor' = cursor
      BY <1>1, <2>2, <3>2, CursorMoves
    <3>4. ~dmi_req_1' /\ ~dmi_read_log_data' /\ ~answered'
      BY <2>2, <2>4, <3>2 DEF Watches
    <3>5. ~dmi_read_log_data
      BY <1>1, <3>2, <3>3 DEF CursorInv
    <3>6. ~dmi_read_log_data_1' /\ log_dmi_addr' = cursor
      BY <1>1, <2>4, <3>2, <3>3, <3>5 DEF CursorInv, LogReadOver
    <3>7. QED
      BY <3>2, <3>3, <3>4, <3>6 DEF CursorInv
  <2>8. CASE Withdraw
    <3>1. dmi_req /\ answered /\ ~dmi_req' /\ low' = 1
      BY <2>2, <2>8, ConstantsAssumption DEF Withdraw, Watches, LineInv
    <3>2. CASE request.addr = "log_addr"
      <4>1. cursor' = request.value
        BY <1>1, <2>2, <3>1, <3>2, CursorMoves
      <4>2. ~dmi_read_log_data' /\ ~dmi_read_log_data_1' /\ log_dmi_addr' = request.value
        BY <2>4, <3>1, <3>2 DEF StageInv, LogReadOver
      <4>3. QED
        BY <3>1, <4>1, <4>2 DEF CursorInv
    <3>3. CASE request.addr = "log_data"
      <4>1. cursor # Unknown /\ cursor' = (cursor + 1) % 4
        BY <1>1, <2>2, <3>1, <3>3, CursorMoves
      <4>2. dmi_req_1 /\ dmi_read_log_data /\ log_dmi_addr = cursor
        BY <3>1, <3>3, <4>1 DEF CursorInv
      <4>3. log_dmi_addr' = cursor /\ dmi_read_log_data_1'
        BY <2>4, <3>1, <4>2 DEF LogReadOver
      <4>4. Advanced' = cursor'
        BY <4>1, <4>3 DEF Advanced
      <4>5. QED
        BY <3>1, <4>3, <4>4 DEF CursorInv
    <3>4. CASE request.addr \notin {"log_addr", "log_data"}
      <4>1. cursor' = cursor
        BY <1>1, <2>2, <3>1, <3>4, CursorMoves
      <4>2. dmi_req_1 /\ ~dmi_read_log_data /\ ~dmi_read_log_data_1 /\ log_dmi_addr = cursor
        BY <1>1, <3>1, <3>4, <4>1 DEF CursorInv
      <4>3. ~dmi_read_log_data' /\ ~dmi_read_log_data_1' /\ log_dmi_addr' = cursor
        BY <2>4, <3>1, <3>4, <4>2 DEF LogReadOver
      <4>4. QED
        BY <3>1, <4>1, <4>3 DEF CursorInv
    <3>5. QED
      BY <3>2, <3>3, <3>4
  <2>9. CASE Tear
    BY <2>3, <2>9 DEF LineInv, Tear
  <2>10. QED
    BY <2>1, <2>5, <2>6, <2>7, <2>8, <2>9 DEF LinesMove
<1>2. CASE cursor' = Unknown
  BY <1>2 DEF CursorInv
<1>3. CASE UNCHANGED vars
  BY <1>3 DEF CursorInv, Advanced, vars, dmiVars, logVars
<1>4. QED
  BY <1>1, <1>2, <1>3

\* A host that knows the log address reads one entry after the other.
THEOREM LogReadsAlwaysInOrder ==
  ASSUME LowEdges >= 2
  PROVE  Spec => []LogReadsInOrder
<1>1. Init => StageInv /\ CursorInv
  BY DEF Init, StageInv, CursorInv
<1>2. CursorInv => LogReadsInOrder
  BY DEF CursorInv, LogReadsInOrder
<1>3. QED
  BY <1>1, <1>2, TypeCorrect, InitLine, LineStep, StageStep, CursorStep, TypeStep, PTL DEF Spec

-----------------------------------------------------------------------------
(* The core: what a step of it does.                                        *)

\* What an edge does to the pipeline, whatever kind of edge it is.
LEMMA CoreMoves ==
  ASSUME CoreNext
  PROVE  /\ \E hit, busy, ready \in BOOLEAN : Pipeline(hit, busy, ready)
         /\ CoreHistories
<1>1. Core
  BY DEF CoreNext, Run, ResetRun
<1>2. PICK hit \in Choice(fetch = "insn"), busy \in Choice(e_valid),
           ready \in Choice(Left > 0 /\ (decode1 = "insn" \/ held)) :
           Pipeline(hit, busy, ready)
  BY <1>1 DEF Core
<1>3. hit \in BOOLEAN /\ busy \in BOOLEAN /\ ready \in BOOLEAN
  BY DEF Choice
<1> QED
  BY <1>1, <1>2, <1>3 DEF Core

\* What an edge does to the request lines and to the run control, as far as
\* the front end can tell.
LEMMA DebugMoves ==
  ASSUME CoreNext
  PROVE  /\ \/ dmi_req' = dmi_req /\ request' = request
            \/ ~dmi_req /\ low >= LowEdges /\ dmi_req'
            \/ dmi_req /\ ~dmi_req' /\ request' = request
         /\ low' = IF dmi_req' THEN 0 ELSE IF low < LowEdges THEN low + 1 ELSE low
         /\ answered' => dmi_req /\ dmi_req'
         /\ do_step' => dmi_req /\ ~dmi_req_1 /\ dmi_req_1' /\ request.addr = "ctrl"
         /\ ~(dmi_req /\ request.addr = "ctrl") /\ stopping' /\ ~terminated' =>
              stopping /\ ~terminated
<1>1. PICK terminate \in BOOLEAN :
        Clock(terminate, FALSE) \/ CoreReset(terminate, FALSE)
  BY DEF CoreNext, Run, ResetRun
<1>2. Lines /\ Edge(terminate, FALSE)
  BY <1>1 DEF Clock, CoreReset
<1>3. \/ dmi_req' = dmi_req /\ request' = request
      \/ ~dmi_req /\ low >= LowEdges /\ dmi_req'
      \/ dmi_req /\ ~dmi_req' /\ request' = request
  BY <1>2 DEF Lines, Hold, Ask, Withdraw
<1>4. /\ low' = IF dmi_req' THEN 0 ELSE IF low < LowEdges THEN low + 1 ELSE low
      /\ answered' => dmi_req /\ dmi_req'
  BY <1>2 DEF Edge, Watches
<1>5. RunControl(terminate) /\ dmi_req_1' = IF rst = "no" THEN dmi_req ELSE dmi_req_1
  BY <1>2 DEF Edge, Registers
<1>6. ASSUME NEW b, Commanded(b)
      PROVE  rst = "no" /\ dmi_req /\ ~dmi_req_1 /\ request.addr = "ctrl"
  BY <1>6 DEF Commanded, Writes, Performs, Rises
<1>7. do_step' => dmi_req /\ ~dmi_req_1 /\ dmi_req_1' /\ request.addr = "ctrl"
  BY <1>5, <1>6 DEF RunControl
<1>8. ASSUME ~(dmi_req /\ request.addr = "ctrl"), stopping', ~terminated'
      PROVE  stopping /\ ~terminated
  <2>1. \A b : ~Commanded(b)
    BY <1>6, <1>8
  <2>2. rst = "no" /\ ~terminate /\ stopping
    BY <1>5, <1>8, <2>1 DEF RunControl
  <2>3. ~terminated
    BY <1>5, <1>8, <2>1, <2>2 DEF RunControl
  <2> QED
    BY <2>2, <2>3
<1> QED
  BY <1>3, <1>4, <1>7, <1>8

\* With the pipeline behind them the debug registers do nothing that they do
\* not do by themselves: what is proved of them above holds here as well.
THEOREM CoreImplementsDebug == CoreSpec => Spec
<1>1. CoreInit => Init
  BY DEF CoreInit
<1>2. CoreNext => Next
  BY DEF CoreNext, Run, ResetRun, Next
<1>3. [CoreNext]_coreVars => [Next]_vars
  BY <1>2 DEF coreVars
<1> QED
  BY <1>1, <1>3, PTL DEF CoreSpec, Spec

LEMMA DebugTypeCorrect == CoreSpec => []TypeOK
BY CoreImplementsDebug, TypeCorrect, PTL

-----------------------------------------------------------------------------
(* Types of the pipeline.                                                   *)

LEMMA LeftIsCount == PipelineTypeOK => Left \in 0..MaxInflight /\ (IF e_valid THEN 1 ELSE 0) <= Left
BY InflightAssumption DEF PipelineTypeOK, Left

LEMMA FlowTypes ==
  ASSUME PipelineTypeOK, NEW hit \in BOOLEAN, NEW busy \in BOOLEAN, NEW ready \in BOOLEAN,
         Fetch, Flow(hit, busy, ready)
  PROVE  /\ fetch' \in Slots /\ icache' \in Slots /\ decode1' \in Slots
         /\ held' \in BOOLEAN /\ e_valid' \in BOOLEAN /\ complete' \in BOOLEAN
         /\ inflight' \in 0..MaxInflight
         /\ (IF complete' THEN 1 ELSE 0) + (IF e_valid' THEN 1 ELSE 0) <= inflight'
<1>1. fetch' \in Slots
  BY DEF Fetch, Slots
<1>2. icache' \in Slots /\ decode1' \in Slots
  BY DEF Flow, Found, PipelineTypeOK, Slots
<1>3. held' \in BOOLEAN /\ e_valid' \in BOOLEAN
  BY DEF Flow, Issues, PipelineTypeOK
<1>4. inflight' \in 0..MaxInflight /\ (Issues(busy, ready) => inflight' >= 1)
  BY LeftIsCount, InflightAssumption DEF Flow, Issues
<1>5. (IF e_valid' THEN 1 ELSE 0) <= inflight'
  <2>1. CASE Deferred(busy)
    <3>1. ~Issues(busy, ready)
      BY <2>1 DEF Issues
    <3>2. inflight' = Left /\ e_valid' = e_valid
      BY <2>1, <3>1 DEF Flow
    <3> QED
      BY <3>2, LeftIsCount
  <2>2. CASE ~Deferred(busy)
    <3>1. e_valid' = Issues(busy, ready)
      BY <2>2 DEF Flow
    <3> QED
      BY <3>1, <1>4
  <2> QED
    BY <2>1, <2>2
<1>6. complete' \in BOOLEAN /\ (complete' => inflight' > (IF e_valid' THEN 1 ELSE 0))
  BY DEF Flow
<1>7. (IF complete' THEN 1 ELSE 0) + (IF e_valid' THEN 1 ELSE 0) <= inflight'
  <2>1. inflight' \in Nat
    BY <1>4, InflightAssumption
  <2> QED
    BY <2>1, <1>5, <1>6
<1> QED
  BY <1>1, <1>2, <1>3, <1>4, <1>6, <1>7

LEMMA EmptiedTypes ==
  ASSUME PipelineTypeOK, NEW busy \in BOOLEAN, Fetch, Clear \/ Flush(busy)
  PROVE  /\ fetch' \in Slots /\ icache' \in Slots /\ decode1' \in Slots
         /\ held' \in BOOLEAN /\ e_valid' \in BOOLEAN /\ complete' \in BOOLEAN
         /\ inflight' \in 0..MaxInflight
         /\ (IF complete' THEN 1 ELSE 0) + (IF e_valid' THEN 1 ELSE 0) <= inflight'
<1>1. fetch' \in Slots
  BY DEF Fetch, Slots
<1>2. \A slot \in Slots : Squashed(slot) \in Slots
  BY DEF Squashed, Slots
<1>3. icache' \in Slots
  BY <1>2 DEF Clear, Flush, PipelineTypeOK
<1>4. decode1' \in Slots
  BY <1>2 DEF Clear, Flush, PipelineTypeOK, Slots
<1>5. held' = FALSE /\ e_valid' = FALSE /\ inflight' = 0 /\ complete' = FALSE
  BY DEF Clear, Flush
<1>6. held' \in BOOLEAN /\ e_valid' \in BOOLEAN /\ complete' \in BOOLEAN
  BY <1>5
<1>7. /\ inflight' \in 0..MaxInflight
      /\ (IF complete' THEN 1 ELSE 0) + (IF e_valid' THEN 1 ELSE 0) <= inflight'
  BY <1>5, InflightAssumption
<1> QED
  BY <1>1, <1>3, <1>4, <1>6, <1>7

LEMMA PipelineTypeStep == PipelineTypeOK /\ [CoreNext]_coreVars => PipelineTypeOK'
<1> SUFFICES ASSUME PipelineTypeOK, [CoreNext]_coreVars PROVE PipelineTypeOK'
  OBVIOUS
<1>1. CASE UNCHANGED coreVars
  BY <1>1 DEF coreVars, frontVars, backVars, history, PipelineTypeOK
<1>2. CASE CoreNext
  <2>1. PICK hit \in BOOLEAN, busy \in BOOLEAN, ready \in BOOLEAN : Pipeline(hit, busy, ready)
    BY <1>2, CoreMoves
  <2>2. /\ fetch' \in Slots /\ icache' \in Slots /\ decode1' \in Slots
        /\ held' \in BOOLEAN /\ e_valid' \in BOOLEAN /\ complete' \in BOOLEAN
        /\ inflight' \in 0..MaxInflight
        /\ (IF complete' THEN 1 ELSE 0) + (IF e_valid' THEN 1 ELSE 0) <= inflight'
    <3>1. Fetch /\ (Clear \/ Flush(busy) \/ Flow(hit, busy, ready))
      BY <2>1 DEF Pipeline
    <3> QED
      BY <3>1, FlowTypes, EmptiedTypes
  <2>3. pipe_rst' \in BOOLEAN
    BY <2>1 DEF Pipeline
  <2>4. CoreHistories
    BY <1>2, CoreMoves
  <2>5. was_stopped' \in BOOLEAN /\ armed' \in BOOLEAN
    BY <2>4 DEF CoreHistories
  <2>6. owed' \in 0..MaxOwed
    <3>1. StillOwed \in 0..MaxOwed
      BY DEF StillOwed, PipelineTypeOK, MaxOwed
    <3>2. \A new, paid : Counted(new, paid) \in 0..MaxOwed
      BY <3>1 DEF Counted, MaxOwed
    <3> QED
      BY <2>4, <3>2 DEF CoreHistories, MaxOwed
  <2> QED
    BY <2>2, <2>3, <2>5, <2>6 DEF PipelineTypeOK
<1> QED
  BY <1>1, <1>2

\* The pipeline keeps its types: in flight are the instruction that waits to
\* enter execute and the one that completes, and never more than MaxInflight.
THEOREM PipelineTypeCorrect == CoreSpec => []PipelineTypeOK
<1>1. CoreInit => PipelineTypeOK
  <2> SUFFICES ASSUME CoreInit PROVE PipelineTypeOK
    OBVIOUS
  <2>1. pipe_rst \in BOOLEAN /\ held \in BOOLEAN /\ e_valid \in BOOLEAN /\ complete \in BOOLEAN
    BY DEF CoreInit
  <2>2. was_stopped \in BOOLEAN /\ armed \in BOOLEAN
    BY DEF CoreInit
  <2>3. fetch \in Slots /\ icache \in Slots /\ decode1 \in Slots /\ owed \in 0..MaxOwed
    BY DEF CoreInit, Slots, MaxOwed
  <2>4. /\ inflight \in 0..MaxInflight
        /\ (IF complete THEN 1 ELSE 0) + (IF e_valid THEN 1 ELSE 0) <= inflight
    BY InflightAssumption DEF CoreInit
  <2> QED
    BY <2>1, <2>2, <2>3, <2>4 DEF PipelineTypeOK
<1> QED
  BY <1>1, PipelineTypeStep, PTL DEF CoreSpec

-----------------------------------------------------------------------------
(* At rest.                                                                 *)

\* A step acts in the edge after its request has risen, and the request line
\* has then been low for one edge at most.
CommandInv ==
  /\ dmi_req => low = 0
  /\ do_step => dmi_req_1 /\ request.addr = "ctrl" /\ (dmi_req \/ low <= 1)

\* By the time a request for STAT stands, what the last command did to fetch1
\* is done.
SettledInv ==
  dmi_req /\ request.addr = "stat" /\ stopping /\ ~terminated => fetch = "mark"

LEMMA CommandStep == CommandInv /\ [CoreNext]_coreVars => CommandInv'
<1> SUFFICES ASSUME CommandInv, [CoreNext]_coreVars PROVE CommandInv'
  OBVIOUS
<1>1. CASE UNCHANGED coreVars
  BY <1>1 DEF coreVars, vars, dmiVars, runVars, CommandInv
<1>2. CASE CoreNext
  BY <1>2, DebugMoves DEF CommandInv
<1> QED
  BY <1>1, <1>2

\* A request for STAT that stands after an edge, with the core stopped by a
\* command: the edge was one at which no command stood and no step acted.
LEMMA NothingPending ==
  ASSUME LowEdges >= 2, TypeOK, CommandInv, CoreNext,
         dmi_req', request'.addr = "stat", stopping', ~terminated'
  PROVE  stopping /\ ~terminated /\ ~do_step /\ (dmi_req => request.addr = "stat")
<1>1. \/ dmi_req /\ request' = request
      \/ ~dmi_req /\ low >= 2
  <2>1. CASE ~dmi_req /\ low >= LowEdges /\ dmi_req'
    BY <2>1, ConstantsAssumption DEF TypeOK
  <2>2. CASE dmi_req' = dmi_req /\ request' = request
    BY <2>2
  <2> QED
    BY <2>1, <2>2, DebugMoves
<1>2. ~(dmi_req /\ request.addr = "ctrl") /\ (dmi_req => request.addr = "stat")
  BY <1>1
<1>3. stopping /\ ~terminated
  BY <1>2, DebugMoves
<1>4. ~do_step
  BY <1>1, <1>2 DEF CommandInv, TypeOK
<1> QED
  BY <1>2, <1>3, <1>4

LEMMA SettledStep ==
  ASSUME LowEdges >= 2
  PROVE  TypeOK /\ CommandInv /\ SettledInv /\ [CoreNext]_coreVars => SettledInv'
<1> SUFFICES ASSUME TypeOK, CommandInv, SettledInv, [CoreNext]_coreVars,
                    dmi_req', request'.addr = "stat", stopping', ~terminated'
             PROVE  fetch' = "mark"
  BY DEF SettledInv
<1>1. CASE UNCHANGED coreVars
  BY <1>1 DEF coreVars, vars, dmiVars, runVars, frontVars, SettledInv
<1>2. CASE CoreNext
  <2>1. stopping /\ ~do_step
    BY <1>2, NothingPending
  <2>2. Fetch
    BY <1>2, CoreMoves DEF Pipeline
  <2> QED
    BY <2>1, <2>2 DEF Fetch, core_stop
<1> QED
  BY <1>1, <1>2

\* Stopped for two edges, a mark in icache: the instruction that decode2 may
\* have held would have issued on the first of them, and marks have followed.
LEMMA StoppedTwice ==
  ASSUME PipelineTypeOK, NEW hit \in BOOLEAN, NEW busy \in BOOLEAN, NEW ready \in BOOLEAN,
         Flow(hit, busy, ready), fetch = "mark", stopped_out, stopped_out'
  PROVE  icache' # "insn" /\ ~held' /\ inflight' = 0
<1>1. decode1 = "mark" /\ Left = 0
  BY DEF stopped_out
<1>2. ~e_valid
  BY <1>1, LeftIsCount
<1>3. ~Deferred(busy)
  BY <1>2 DEF Deferred
<1>4. ~held
  <2> SUFFICES ASSUME held PROVE FALSE
    OBVIOUS
  <2>1. Issues(busy, ready)
    BY <1>1, <1>3 DEF Issues
  <2>2. e_valid' /\ inflight' = 1
    BY <1>1, <1>3, <2>1 DEF Flow
  <2>3. ~complete'
    BY <2>2 DEF Flow
  <2> QED
    BY <2>2, <2>3 DEF stopped_out, Left
<1>5. ~Issues(busy, ready) /\ ~Stalls(busy)
  BY <1>1, <1>3, <1>4 DEF Issues, Stalls
<1>6. icache' = "mark"
  BY <1>5 DEF Flow, Found
<1>7. ~held'
  BY <1>1, <1>3, <1>4 DEF Flow
<1>8. inflight' = 0
  BY <1>1, <1>5 DEF Flow
<1> QED
  BY <1>6, <1>7, <1>8

LEMMA StoppedStep ==
  ASSUME LowEdges >= 2
  PROVE  TypeOK /\ PipelineTypeOK /\ CommandInv /\ SettledInv /\ StoppedIsEmpty /\ [CoreNext]_coreVars
           => StoppedIsEmpty'
<1> SUFFICES ASSUME TypeOK, PipelineTypeOK, CommandInv, SettledInv, StoppedIsEmpty,
                    [CoreNext]_coreVars,
                    answered', request'.addr = "stat", stopping', ~terminated',
                    stopped_out', was_stopped'
             PROVE  Empty'
  BY DEF StoppedIsEmpty
<1>1. CASE UNCHANGED coreVars
  BY <1>1 DEF coreVars, vars, dmiVars, runVars, frontVars, backVars, history,
              StoppedIsEmpty, Empty, stopped_out, Left
<1>2. CASE CoreNext
  <2>1. dmi_req /\ dmi_req'
    BY <1>2, DebugMoves
  <2>2. stopping /\ ~terminated /\ request.addr = "stat"
    BY <1>2, <2>1, NothingPending
  <2>3. fetch = "mark"
    BY <2>1, <2>2 DEF SettledInv
  <2>4. fetch' = "mark"
    BY <2>1, SettledStep DEF SettledInv
  <2>5. stopped_out
    BY <1>2, CoreMoves DEF CoreHistories
  <2>6. PICK hit \in BOOLEAN, busy \in BOOLEAN, ready \in BOOLEAN : Pipeline(hit, busy, ready)
    BY <1>2, CoreMoves
  <2>7. decode1' = "mark"
    BY DEF stopped_out
  <2>8. icache' # "insn" /\ ~held' /\ inflight' = 0
    <3>1. Flow(hit, busy, ready) \/ Flush(busy)
      BY <2>6, <2>7 DEF Pipeline, Clear
    <3>2. CASE Flow(hit, busy, ready)
      BY <3>2, <2>3, <2>5, StoppedTwice
    <3>3. CASE Flush(busy)
      BY <3>3 DEF Flush, Squashed
    <3> QED
      BY <3>1, <3>2, <3>3
  <2> QED
    BY <2>4, <2>7, <2>8 DEF Empty
<1> QED
  BY <1>1, <1>2

LEMMA RestInit == CoreInit => CommandInv /\ SettledInv /\ StoppedIsEmpty
BY DEF CoreInit, Init, CommandInv, SettledInv, StoppedIsEmpty

\* What a host may conclude from STAT, for any number of instructions in flight
\* and any commands: `stopping` and `stopped` on two edges running, read through
\* a request that came after the command, mean that nothing is left.  With the
\* two edges that the request line stays low, a request cannot come between a
\* step and the instruction it lets in.
THEOREM StoppedAlwaysEmpty ==
  ASSUME LowEdges >= 2
  PROVE  CoreSpec => []StoppedIsEmpty
<1>1. CoreInit => CommandInv /\ SettledInv /\ StoppedIsEmpty
  BY RestInit
<1>2. CommandInv /\ [CoreNext]_coreVars => CommandInv'
  BY CommandStep
<1>3. TypeOK /\ CommandInv /\ SettledInv /\ [CoreNext]_coreVars => SettledInv'
  BY SettledStep
<1>4. TypeOK /\ PipelineTypeOK /\ CommandInv /\ SettledInv /\ StoppedIsEmpty /\ [CoreNext]_coreVars
        => StoppedIsEmpty'
  BY StoppedStep
<1> QED
  BY <1>1, <1>2, <1>3, <1>4, PipelineTypeCorrect, DebugTypeCorrect, PTL DEF CoreSpec

-----------------------------------------------------------------------------
(* Steps.                                                                   *)

Token(b) == IF b THEN 1 ELSE 0

\* The instructions that may still issue: the one that a step lets in on this
\* edge, and those on their way.
Tokens ==
  Token(do_step) + Token(fetch = "insn") + Token(icache = "insn")
    + Token(decode1 = "insn") + Token(held)

\* Nothing issues that no step has paid for.  That three are counted at most
\* does not lose one: fetch1 holds nothing back, so two instructions stand
\* side by side only where a stall has let the second catch up, and a third
\* does not.
OwedInv ==
  /\ ~armed => owed = 0
  /\ armed =>
       /\ stopping
       /\ Tokens <= owed
       /\ do_step => fetch # "insn"
       /\ icache = "insn" /\ decode1 = "insn" => ~held /\ ~e_valid /\ fetch # "insn"

\* What a flow through the pipeline leaves of the instructions in it.
LEMMA FlowTokens ==
  ASSUME PipelineTypeOK, NEW hit \in BOOLEAN, NEW busy \in BOOLEAN, NEW ready \in BOOLEAN,
         Flow(hit, busy, ready)
  PROVE  /\ Token(icache' = "insn") + Token(decode1' = "insn") + Token(held')
              + Token(inflight' > Left)
            <= Token(fetch = "insn") + Token(icache = "insn") + Token(decode1 = "insn")
                 + Token(held)
         /\ inflight' > Left => decode1 = "insn" \/ held
<1>1. Left \in Nat /\ (inflight' > Left <=> Issues(busy, ready))
  BY LeftIsCount, InflightAssumption DEF Flow
<1>2. Issues(busy, ready) => (decode1 = "insn" \/ held) /\ ~Deferred(busy)
  BY DEF Issues
<1>3. CASE Deferred(busy)
  <2>1. icache' = icache /\ decode1' = decode1 /\ held' = held
    BY <1>3 DEF Flow, Stalls
  <2> QED
    BY <1>1, <1>2, <1>3, <2>1 DEF Token
<1>4. CASE ~Deferred(busy) /\ held
  <2>1. icache' = icache /\ decode1' = decode1 /\ (held' <=> ~Issues(busy, ready))
    BY <1>4 DEF Flow, Stalls
  <2> QED
    BY <1>1, <1>2, <1>4, <2>1 DEF Token
<1>5. CASE ~Deferred(busy) /\ ~held
  <2>1. /\ icache' = "insn" => fetch = "insn"
        /\ decode1' = icache
        /\ held' <=> decode1 = "insn" /\ ~Issues(busy, ready)
    BY <1>5 DEF Flow, Stalls, Found
  <2> QED
    BY <1>1, <1>2, <1>5, <2>1 DEF Token
<1> QED
  BY <1>3, <1>4, <1>5

LEMMA OwedStep == PipelineTypeOK /\ CommandInv /\ OwedInv /\ [CoreNext]_coreVars => OwedInv'
<1> SUFFICES ASSUME PipelineTypeOK, CommandInv, OwedInv, [CoreNext]_coreVars PROVE OwedInv'
  OBVIOUS
<1>1. CASE UNCHANGED coreVars
  BY <1>1 DEF coreVars, vars, dmiVars, runVars, frontVars, backVars, history,
              OwedInv, Tokens, Token
<1>2. CASE CoreNext
  <2>1. PICK hit \in BOOLEAN, busy \in BOOLEAN, ready \in BOOLEAN : Pipeline(hit, busy, ready)
    BY <1>2, CoreMoves
  <2>2. CoreHistories
    BY <1>2, CoreMoves
  <2>3. ~armed' => owed' = 0
    BY <2>2 DEF CoreHistories
  <2>4. do_step => ~do_step'
    BY <1>2, DebugMoves DEF CommandInv
  <2> SUFFICES ASSUME armed'
               PROVE  /\ stopping'
                      /\ Tokens' <= owed'
                      /\ do_step' => fetch' # "insn"
                      /\ icache' = "insn" /\ decode1' = "insn" =>
                           ~held' /\ ~e_valid' /\ fetch' # "insn"
    BY <2>3 DEF OwedInv
  <2>5. stopping' /\ ~pipe_rst /\ (armed \/ (stopping /\ Empty /\ ~do_step))
    BY <2>2 DEF CoreHistories
  <2>6. stopping
    BY <2>5 DEF OwedInv
  <2>7. Tokens \in Nat /\ Tokens <= owed /\ owed \in 0..MaxOwed
    BY <2>5 DEF OwedInv, Empty, Tokens, Token, PipelineTypeOK, MaxOwed
  <2>8. fetch' = "insn" <=> do_step
    BY <2>1, <2>5, <2>6 DEF Pipeline, Fetch, core_stop
  <2>9. /\ do_step => fetch # "insn"
        /\ icache = "insn" /\ decode1 = "insn" => ~held /\ ~e_valid /\ fetch # "insn"
    BY <2>5 DEF OwedInv, Empty
  <2>10. Flow(hit, busy, ready) \/ Flush(busy)
    BY <2>1, <2>5 DEF Pipeline
  <2>11. icache' = "insn" /\ decode1' = "insn" => ~held' /\ ~e_valid' /\ fetch' # "insn"
    <3>1. CASE Flush(busy)
      BY <3>1 DEF Flush, Squashed
    <3>2. CASE Flow(hit, busy, ready) /\ Stalls(busy)
      BY <3>2, <2>9 DEF Flow, Stalls, Deferred
    <3>3. CASE Flow(hit, busy, ready) /\ ~Stalls(busy)
      BY <3>3, <2>8, <2>9 DEF Flow, Stalls, Found, Issues
    <3> QED
      BY <2>10, <3>1, <3>2, <3>3
  <2>12. Token(icache' = "insn") + Token(decode1' = "insn") + Token(held') + Token(inflight' > Left)
           <= Token(fetch = "insn") + Token(icache = "insn") + Token(decode1 = "insn")
                + Token(held)
    <3>1. CASE Flush(busy)
      BY <3>1, LeftIsCount, InflightAssumption DEF Flush, Squashed, Token
    <3>2. CASE Flow(hit, busy, ready)
      BY <3>2, FlowTokens
    <3> QED
      BY <2>10, <3>1, <3>2
  <2>13. Tokens' <= Tokens - Token(inflight' > Left) + Token(do_step')
    BY <2>8, <2>12 DEF Tokens, Token
  <2>14. Tokens' <= MaxOwed
    BY <2>4, <2>8, <2>11 DEF Tokens, Token, MaxOwed
  <2>15. StillOwed \in 0..MaxOwed /\ Tokens <= StillOwed
    BY <2>7 DEF StillOwed, Empty, Tokens, Token, MaxOwed
  <2>16. owed' = Counted(do_step', inflight' > Left)
    BY <2>2 DEF CoreHistories
  <2>17. Tokens' <= owed'
    <3> DEFINE now == Tokens
               next == Tokens'
    <3>1. now \in Nat /\ next \in Nat
      BY <2>7 DEF Tokens, Token
    <3>2. /\ next <= now - Token(inflight' > Left) + Token(do_step')
          /\ next <= MaxOwed /\ now <= StillOwed
      BY <2>13, <2>14, <2>15
    <3> HIDE DEF now, next
    <3>3. next <= Counted(do_step', inflight' > Left)
      BY <3>1, <3>2, <2>15 DEF Counted, Token, MaxOwed
    <3> QED
      BY <3>3, <2>16 DEF next
  <2> QED
    BY <2>4, <2>5, <2>8, <2>11, <2>17
<1> QED
  BY <1>1, <1>2

\* What issues while the core is at rest is an instruction in decode1 or held.
LEMMA IssueHasToken ==
  ASSUME PipelineTypeOK, OwedInv, CoreNext, armed, armed', inflight' > Left
  PROVE  owed > 0
<1>1. PICK hit \in BOOLEAN, busy \in BOOLEAN, ready \in BOOLEAN : Pipeline(hit, busy, ready)
  BY CoreMoves
<1>2. ~pipe_rst
  BY CoreMoves DEF CoreHistories
<1>3. Flow(hit, busy, ready)
  BY <1>1, <1>2, LeftIsCount, InflightAssumption DEF Pipeline, Flush
<1>4. decode1 = "insn" \/ held
  BY <1>3, FlowTokens
<1>5. Tokens >= 1 /\ Tokens \in Nat
  BY <1>4 DEF Tokens, Token
<1>6. Tokens <= owed /\ owed \in 0..MaxOwed
  BY DEF OwedInv, PipelineTypeOK
<1> QED
  BY <1>5, <1>6 DEF MaxOwed

\* However long the back end stalls, however many steps the host commands in
\* the meantime and whatever it redirects, an instruction that issues from rest
\* was let in by a step of its own.
THEOREM StepsAlwaysRunOneEach == CoreSpec => StepsRunOneEach
<1>1. CoreInit => CommandInv /\ OwedInv
  BY DEF CoreInit, Init, CommandInv, OwedInv
<1>2. CommandInv /\ [CoreNext]_coreVars => CommandInv'
  BY CommandStep
<1>3. PipelineTypeOK /\ CommandInv /\ OwedInv /\ [CoreNext]_coreVars => OwedInv'
  BY OwedStep
<1>4. PipelineTypeOK /\ OwedInv /\ [CoreNext]_coreVars
        => [armed /\ armed' /\ inflight' > Left => owed > 0]_coreVars
  BY IssueHasToken
<1> QED
  BY <1>1, <1>2, <1>3, <1>4, PipelineTypeCorrect, PTL DEF CoreSpec, StepsRunOneEach
=============================================================================
