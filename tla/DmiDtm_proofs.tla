---------------------------- MODULE DmiDtm_proofs ----------------------------
(***************************************************************************)
(* Proofs about the clock-domain crossing of the debug transport, for any  *)
(* sets of addresses and data and any interleaving of the two clocks.      *)
(***************************************************************************)
EXTENDS DmiDtm, TLAPS

LEMMA BlankIsFrame == Blank \in Frame
BY ConstantsAssumption DEF Blank, Frame

-----------------------------------------------------------------------------
(* Type correctness.                                                        *)

LEMMA TypeStep == TypeOK /\ [Next]_vars => TypeOK'
<1> SUFFICES ASSUME TypeOK, [Next]_vars
             PROVE  TypeOK'
  OBVIOUS
<1> USE DEF TypeOK
<1>1. CASE JtagEdge
  <2>1. Scan!TypeOK'
    BY <1>1 DEF JtagEdge, Scan!Edge, Scan!TypeOK
  <2>2. shiftr' \in Frame
    <3>1. rsp_op \in 0..3
      BY DEF rsp_op, OK, BUSY
    <3>2. [request EXCEPT !.op = rsp_op] \in Frame /\ [shiftr EXCEPT !.op = 3] \in Frame
      BY <3>1 DEF Frame
    <3>3. NextShiftr \subseteq Frame
      BY <3>2 DEF NextShiftr
    <3>4. QED
      BY <1>1, <3>3 DEF JtagEdge
  <2>3. request' \in Frame
    <3>1. [request EXCEPT !.data = dmi_din] \in Frame
      BY DEF Frame
    <3>2. QED
      BY <1>1, <3>1 DEF JtagEdge, NextRequest
  <2>4. jtag_req' \in BOOLEAN /\ torn' \in BOOLEAN
    BY <1>1 DEF JtagEdge
  <2>5. told' \in {"none", "ok", "busy"}
    BY <1>1 DEF JtagEdge
  <2>6. dmi_ack' \in BOOLEAN /\ dmi_din' \in Data
    BY <1>1 DEF JtagEdge, AddressMoves
  <2>7. QED
    BY <1>1, <2>1, <2>2, <2>3, <2>4, <2>5, <2>6 DEF JtagEdge
<1>2. CASE Trst
  <2>1. Scan!TypeOK'
    BY <1>2 DEF Trst, Scan!Reset, Scan!TypeOK, Scan!Strobes
  <2>2. torn' \in BOOLEAN
    BY <1>2 DEF Trst
  <2>3. dmi_ack' \in BOOLEAN /\ dmi_din' \in Data
    BY <1>2 DEF Trst, AddressMoves
  <2>4. QED
    BY <1>2, <2>1, <2>2, <2>3, BlankIsFrame DEF Trst, ClearRequest
<1>3. CASE SysEdge
  <2>1. jtag_req_0' \in BOOLEAN /\ jtag_req_1' \in BOOLEAN /\ torn' \in BOOLEAN
    BY <1>3 DEF SysEdge
  <2>2. dmi_ack' \in BOOLEAN /\ dmi_din' \in Data
    BY <1>3 DEF SysEdge, SlaveAnswers
  <2>3. QED
    BY <1>3, <2>1, <2>2 DEF SysEdge, Scan!TypeOK
<1>4. CASE SysEdgeIntoReset
  <2>1. jtag_req_0' \in BOOLEAN /\ jtag_req_1' \in BOOLEAN /\ torn' \in BOOLEAN
    BY <1>4 DEF SysEdgeIntoReset
  <2>2. dmi_ack' \in BOOLEAN /\ dmi_din' \in Data
    BY <1>4 DEF SysEdgeIntoReset, SlaveAnswers
  <2>3. QED
    BY <1>4, <2>1, <2>2, BlankIsFrame DEF SysEdgeIntoReset, ClearRequest, Scan!TypeOK
<1>5. CASE UNCHANGED vars
  BY <1>5 DEF vars, Scan!TypeOK
<1>6. QED
  BY <1>1, <1>2, <1>3, <1>4, <1>5 DEF Next

\* Every register of the debug transport keeps to its type.
THEOREM TypeCorrect == Spec => []TypeOK
<1>1. Init => TypeOK
  BY BlankIsFrame, ConstantsAssumption
     DEF Init, TypeOK, Scan!Init, Scan!TypeOK, Scan!Strobes
<1>2. QED
  BY <1>1, TypeStep, PTL DEF Spec

-----------------------------------------------------------------------------
(* The handshake is one wave.  HandshakeIsOneWave is inductive: a post      *)
(* needs both ends of the chain low, and the chain being one wave makes     *)
(* everything between them low as well.                                     *)

LEMMA HandshakeStep == TypeOK /\ HandshakeIsOneWave /\ [Next]_vars => HandshakeIsOneWave'
<1> SUFFICES ASSUME TypeOK, HandshakeIsOneWave, [Next]_vars
             PROVE  HandshakeIsOneWave'
  OBVIOUS
<1> USE DEF HandshakeIsOneWave, Rising, Falling, StaleAck, Cleared
<1>1. CASE JtagEdge
  <2>1. CASE torn'
    BY <1>1, <2>1 DEF JtagEdge
  <2>2. CASE torn /\ ~torn'
    BY <1>1, <2>2 DEF JtagEdge, Quiet
  <2>3. CASE ~torn /\ rst
    BY <1>1, <2>3 DEF JtagEdge, AddressMoves
  <2>4. CASE ~torn /\ ~rst
    <3>1. CASE jtag_req /\ Rising
      BY <1>1, <2>4, <3>1 DEF JtagEdge, AddressMoves, Accepts, Updates, jtag_bsy, Completes
    <3>2. CASE ~jtag_req /\ Falling
      BY <1>1, <2>4, <3>2 DEF JtagEdge, AddressMoves, Accepts, Updates, jtag_bsy, Completes
    <3>3. CASE ~jtag_req /\ StaleAck
      BY <1>1, <2>4, <3>3 DEF JtagEdge, AddressMoves, Accepts, Updates, Completes
    <3>4. QED
      BY <2>4, <3>1, <3>2, <3>3
  <2>5. QED
    BY <2>1, <2>2, <2>3, <2>4
<1>2. CASE Trst
  BY <1>2 DEF Trst, ClearRequest, AddressMoves, TypeOK
<1>3. CASE SysEdge
  <2>1. CASE torn
    BY <1>3, <2>1 DEF SysEdge, Quiet
  <2>2. CASE ~torn /\ rst
    <3>1. ~op_valid'
      BY <1>3, <2>2 DEF SysEdge, Blank, op_valid, READ, WRITE, TypeOK, Frame
    <3>2. ~jtag_req_0' /\ ~jtag_req_1' /\ ~dmi_ack' /\ ~jtag_req'
      BY <1>3, <2>2 DEF SysEdge, SlaveAnswers
    <3>3. QED
      BY <1>3, <3>1, <3>2 DEF SysEdge
  <2>3. CASE ~torn /\ ~rst
    <3>1. op_valid' = op_valid
      BY <1>3 DEF SysEdge, op_valid
    <3>2. QED
      BY <1>3, <2>3, <3>1 DEF SysEdge, SlaveAnswers, TypeOK
  <2>4. QED
    BY <2>1, <2>2, <2>3
<1>4. CASE SysEdgeIntoReset
  BY <1>4 DEF SysEdgeIntoReset, ClearRequest
<1>5. CASE UNCHANGED vars
  BY <1>5 DEF vars, op_valid
<1>6. QED
  BY <1>1, <1>2, <1>3, <1>4, <1>5 DEF Next

\* The request and acknowledge lines of dmi_dtm_jtag never carry more than one
\* wave, for any ratio of the clocks and any moment of the system reset.
THEOREM AlwaysOneWave == Spec => []HandshakeIsOneWave
<1>1. Init => HandshakeIsOneWave
  BY DEF Init, HandshakeIsOneWave, Falling
<1>2. QED
  BY <1>1, HandshakeStep, TypeCorrect, PTL DEF Spec

-----------------------------------------------------------------------------
(* The request is stable while the system side can see it.                  *)

\* While a synchroniser stage is high nothing is posted.
LEMMA NoPostWhileSeen ==
  ASSUME HandshakeIsOneWave, jtag_req_0 \/ jtag_req_1, ~torn, ~rst
  PROVE  ~Accepts
BY DEF HandshakeIsOneWave, Rising, Falling, StaleAck, Cleared, Accepts, jtag_bsy

\* The multi-bit request crosses into the system domain without a
\* synchroniser of its own; it does not change while it is looked at.
THEOREM RequestIsHeld == Spec => RequestHeld
<1>1. ASSUME TypeOK, HandshakeIsOneWave, [Next]_vars,
             jtag_req_0 \/ jtag_req_1, ~torn', ~rst'
      PROVE  /\ request'.addr = request.addr
             /\ request'.op = request.op
             /\ dmi_wr => request'.data = request.data
  <2>1. CASE JtagEdge
    <3>1. ~torn /\ ~rst
      BY <1>1, <2>1 DEF JtagEdge, Quiet
    <3>2. \/ request' = request
          \/ request' = [request EXCEPT !.data = dmi_din] /\ request.op = READ
      BY <1>1, <2>1, <3>1, NoPostWhileSeen DEF JtagEdge, NextRequest
    <3>3. request \in Frame
      BY <1>1 DEF TypeOK
    <3>4. QED
      BY <3>2, <3>3 DEF Frame, dmi_wr, READ, WRITE
  <2>2. CASE Trst
    BY <1>1, <2>2 DEF Trst
  <2>3. CASE SysEdge
    BY <2>3 DEF SysEdge
  <2>4. CASE SysEdgeIntoReset
    BY <1>1, <2>4 DEF SysEdgeIntoReset
  <2>5. CASE UNCHANGED vars
    BY <2>5 DEF vars
  <2>6. QED
    BY <1>1, <2>1, <2>2, <2>3, <2>4, <2>5 DEF Next
<1>2. TypeOK /\ HandshakeIsOneWave /\ [Next]_vars
        => [(jtag_req_0 \/ jtag_req_1) /\ ~torn' /\ ~rst'
              => /\ request'.addr = request.addr
                 /\ request'.op = request.op
                 /\ dmi_wr => request'.data = request.data]_vars
  BY <1>1
<1>3. QED
  BY <1>2, TypeCorrect, AlwaysOneWave, PTL DEF Spec, RequestHeld

-----------------------------------------------------------------------------
(* The transport implements DmiTransaction.  Under the one-wave invariant   *)
(* the registers of the two domains determine the phase of the transaction, *)
(* and every clock edge is one step of it or none.                          *)

\* The mapped frame and answer keep to their types (stated of the state a step
\* leads to, where it is needed).
LEMMA MappingType ==
  ASSUME TypeOK'
  PROVE  /\ PostedFrame' \in Frame
         /\ HostAnswer' \in Data \cup {None}
<1>1. [request' EXCEPT !.data = Data0] \in Frame
  BY ConstantsAssumption DEF TypeOK, Frame
<1>2. PostedFrame' \in Frame
  BY <1>1, BlankIsFrame DEF PostedFrame, TypeOK
<1>3. request'.data \in Data
  BY DEF TypeOK, Frame
<1>4. HostAnswer' \in Data \cup {None}
  BY <1>3 DEF HostAnswer, TypeOK
<1>5. QED
  BY <1>2, <1>4

\* A link that is lost on both sides of a step takes no step.
LEMMA LostStutters ==
  ASSUME torn \/ rst, torn' \/ rst'
  PROVE  UNCHANGED Tx!txVars
BY DEF Phase, PostedFrame, HostAnswer, Tx!txVars

LEMMA LostRecovers ==
  ASSUME TypeOK', torn \/ rst, Phase' \in {"idle", "released"}
  PROVE  Tx!Next
<1>1. Phase = "lost"
  BY DEF Phase
<1>2. PostedFrame' \in Frame /\ HostAnswer' \in Data \cup {None}
  BY MappingType
<1>3. QED
  BY <1>1, <1>2 DEF Tx!Next, Tx!Recover, Tx!Frame, Frame

\* An edge that changes neither the request nor the phase is a stutter: what
\* the host was told last depends on nothing else.
LEMMA SamePhaseStutters ==
  ASSUME request' = request, dmi_din' = dmi_din, jtag_req' = jtag_req,
         jtag_req => dmi_ack' = dmi_ack,
         ~torn, ~rst, ~torn', ~rst', Phase' = Phase
  PROVE  UNCHANGED Tx!txVars
BY DEF PostedFrame, HostAnswer, Tx!txVars

LEMMA JtagEdgeRefines ==
  ASSUME TypeOK, TypeOK', HandshakeIsOneWave, JtagEdge
  PROVE  [Tx!Next]_(Tx!txVars)
<1>1. CASE torn \/ rst
  <2>1. CASE torn' \/ rst'
    BY <1>1, <2>1, LostStutters
  <2>2. CASE ~torn' /\ ~rst'
    <3>1. Phase' = "idle"
      <4>1. torn
        BY <1>1, <2>2, JtagEdge DEF JtagEdge
      <4>2. Quiet(jtag_req', jtag_req_0, jtag_req_1, dmi_ack', dmi_ack_0', dmi_ack_1')
        BY <2>2, <4>1, JtagEdge DEF JtagEdge
      <4>3. jtag_req_1' = jtag_req_1
        BY JtagEdge DEF JtagEdge
      <4>4. QED
        BY <2>2, <4>2, <4>3 DEF Quiet, Phase
    <3>2. QED
      BY <1>1, <3>1, LostRecovers
  <2>3. QED
    BY <2>1, <2>2
<1>2. CASE ~torn /\ ~rst
  <2>1. ~torn' /\ ~rst' /\ UNCHANGED <<jtag_req_0, jtag_req_1, dmi_ack, dmi_din>>
    <3>1. ~torn'
      BY <1>2, JtagEdge DEF JtagEdge
    <3>2. Accepts => ~jtag_req_1 /\ ~dmi_ack
      BY <1>2, HandshakeIsOneWave
         DEF HandshakeIsOneWave, Rising, Falling, StaleAck, Accepts, Updates, jtag_bsy
    <3>3. rst' = rst /\ UNCHANGED <<jtag_req_0, jtag_req_1>> /\ AddressMoves(Accepts /\ ~rst)
      BY JtagEdge DEF JtagEdge
    <3>4. UNCHANGED <<dmi_ack, dmi_din>>
      BY <3>2, <3>3, TypeOK DEF AddressMoves, TypeOK
    <3>5. QED
      BY <1>2, <3>1, <3>3, <3>4
  <2>2. dmi_ack_0' = dmi_ack /\ dmi_ack_1' = dmi_ack_0
    BY JtagEdge DEF JtagEdge
  <2>3. request' = NextRequest /\ jtag_req' = ((jtag_req \/ Accepts) /\ ~Completes)
    BY <1>2, JtagEdge DEF JtagEdge
  <2>4. CASE jtag_req /\ Rising /\ Completes
    <3>1. Phase = "answered" /\ Phase' = "returned"
      BY <1>2, <2>1, <2>3, <2>4 DEF Phase, Rising, Completes
    <3>2. request' = IF request.op = READ THEN [request EXCEPT !.data = dmi_din] ELSE request
      BY <2>3, <2>4 DEF NextRequest, Accepts, jtag_bsy
    <3>3. request \in Frame /\ dmi_din \in Data
      BY DEF TypeOK
    <3>4. PostedFrame' = PostedFrame
      BY <1>2, <2>1, <3>2, <3>3 DEF PostedFrame, Frame
    <3>5. HostAnswer' = HostAnswer
      <4>1. dmi_ack /\ ~jtag_req'
        BY <2>3, <2>4 DEF Rising, Completes
      <4>2. QED
        BY <1>2, <2>1, <2>4, <3>2, <3>3, <4>1 DEF HostAnswer, Frame
    <3>6. QED
      BY <3>1, <3>4, <3>5 DEF Tx!Next, Tx!Return, Tx!Advance
  <2>5. CASE jtag_req /\ Rising /\ ~Completes
    <3>1. request' = request /\ jtag_req'
      BY <2>3, <2>5 DEF NextRequest, Accepts, jtag_bsy
    <3>2. Phase' = Phase
      BY <1>2, <2>1, <2>5, <3>1 DEF Phase
    <3>3. QED
      BY <1>2, <2>1, <2>5, <3>1, <3>2, SamePhaseStutters, TypeOK, TypeOK' DEF TypeOK
  <2>6. CASE ~jtag_req /\ Accepts
    <3>1. ~jtag_req_1 /\ ~dmi_ack /\ ~dmi_ack_0 /\ ~dmi_ack_1
      BY <1>2, <2>6, HandshakeIsOneWave
         DEF HandshakeIsOneWave, Falling, StaleAck, Accepts, Updates, jtag_bsy
    <3>2. request' = shiftr /\ jtag_req' /\ shiftr.op \in {READ, WRITE}
      BY <2>3, <2>6 DEF NextRequest, Accepts, Updates, Completes, op_valid
    <3>3. Phase = "idle" /\ Phase' = "posted"
      BY <1>2, <2>1, <2>6, <3>1, <3>2 DEF Phase
    <3>4. HostAnswer' = None
      BY <2>1, <3>1, <3>2 DEF HostAnswer
    <3>5. PostedFrame' \in Frame
      BY MappingType
    <3>6. PostedFrame'.op \in {READ, WRITE}
      <4>1. shiftr \in Frame
        BY DEF TypeOK
      <4>2. QED
        BY <2>1, <3>2, <4>1 DEF PostedFrame, Frame
    <3>7. QED
      BY <3>3, <3>4, <3>5, <3>6
         DEF Tx!Next, Tx!Post, Tx!Frame, Tx!READ, Tx!WRITE, Frame, READ, WRITE
  <2>7. CASE ~jtag_req /\ ~Accepts
    <3>1. request' = request /\ ~jtag_req'
      BY <2>3, <2>7 DEF NextRequest, Completes
    <3>2. Phase' = Phase \/ (Phase = "released" /\ Phase' = "idle")
      <4>1. CASE Falling
        BY <1>2, <2>1, <2>2, <2>7, <3>1, <4>1 DEF Phase, Falling
      <4>2. CASE StaleAck
        BY <1>2, <2>1, <2>2, <2>7, <3>1, <4>2 DEF Phase, StaleAck
      <4>3. QED
        BY <1>2, <2>7, <4>1, <4>2, HandshakeIsOneWave DEF HandshakeIsOneWave
    <3>3. PostedFrame' = PostedFrame /\ HostAnswer' = HostAnswer
      BY <1>2, <2>1, <2>7, <3>1 DEF PostedFrame, HostAnswer
    <3>4. QED
      BY <3>2, <3>3 DEF Tx!Next, Tx!Ready, Tx!Advance, Tx!txVars
  <2>8. QED
    BY <1>2, <2>4, <2>5, <2>6, <2>7, HandshakeIsOneWave DEF HandshakeIsOneWave
<1>3. QED
  BY <1>1, <1>2

LEMMA TrstRefines ==
  ASSUME TypeOK, HandshakeIsOneWave, Trst
  PROVE  [Tx!Next]_(Tx!txVars)
<1>1. request' = Blank /\ ~jtag_req' /\ ~dmi_ack_0' /\ ~dmi_ack_1'
  BY Trst DEF Trst, ClearRequest
<1>2. torn' = (jtag_req_0 \/ jtag_req_1) /\ UNCHANGED <<jtag_req_1, rst>>
  BY Trst DEF Trst
<1>3. PostedFrame' = Blank /\ HostAnswer' = None
  BY <1>1 DEF PostedFrame, HostAnswer, Blank, READ
<1>4. CASE torn' \/ rst'
  <2>1. Phase' = "lost"
    BY <1>4 DEF Phase
  <2>2. QED
    BY <1>3, <2>1 DEF Tx!Next, Tx!Abort
<1>5. CASE ~torn' /\ ~rst'
  <2>1. Phase' = "idle"
    BY <1>1, <1>2, <1>5 DEF Phase
  <2>2. Phase \in {"idle", "posted", "released", "lost"}
    BY <1>2, <1>5, HandshakeIsOneWave DEF Phase, HandshakeIsOneWave, Rising
  <2>3. QED
    BY <1>3, <2>1, <2>2 DEF Tx!Next, Tx!Cancel
<1>6. QED
  BY <1>4, <1>5

LEMMA SysEdgeRefines ==
  ASSUME TypeOK, TypeOK', HandshakeIsOneWave, SysEdge
  PROVE  [Tx!Next]_(Tx!txVars)
<1>1. UNCHANGED <<request, jtag_req, dmi_ack_0, dmi_ack_1>> /\ ~rst'
  BY SysEdge DEF SysEdge
<1>2. jtag_req_1' = (jtag_req_0 /\ ~rst) /\ SlaveAnswers(jtag_req_1', ~rst)
  BY SysEdge DEF SysEdge
<1>3. CASE torn \/ rst
  <2>1. CASE torn'
    BY <1>3, <2>1, LostStutters
  <2>2. CASE ~torn'
    <3>1. CASE torn
      <4>1. Phase' = "idle"
        <5>1. Quiet(jtag_req, jtag_req_0', jtag_req_1', dmi_ack', dmi_ack_0, dmi_ack_1)
          BY <2>2, <3>1, SysEdge DEF SysEdge
        <5>2. QED
          BY <1>1, <2>2, <5>1 DEF Quiet, Phase
      <4>2. QED
        BY <1>3, <4>1, LostRecovers
    <3>2. CASE rst
      <4>1. ~jtag_req /\ ~jtag_req_1'
        BY <1>2, <3>2, HandshakeIsOneWave DEF HandshakeIsOneWave, Cleared
      <4>2. Phase' \in {"idle", "released"}
        BY <1>1, <2>2, <4>1 DEF Phase
      <4>3. QED
        BY <1>3, <4>2, LostRecovers
    <3>3. QED
      BY <1>3, <3>1, <3>2
  <2>3. QED
    BY <2>1, <2>2
<1>4. CASE ~torn /\ ~rst
  <2>1. ~torn'
    BY <1>4, SysEdge DEF SysEdge
  <2>2. PostedFrame' = PostedFrame
    BY <1>1, <1>4, <2>1 DEF PostedFrame
  <2>3. CASE jtag_req /\ Rising
    <3>1. CASE dmi_ack
      <4>1. jtag_req_1 /\ jtag_req_1'
        BY <1>2, <1>4, <2>3, <3>1 DEF Rising
      <4>2. dmi_ack' = dmi_ack /\ dmi_din' = dmi_din
        BY <1>2, <3>1, <4>1 DEF SlaveAnswers
      <4>3. Phase' = Phase /\ HostAnswer' = HostAnswer
        BY <1>1, <1>4, <2>1, <2>3, <3>1, <4>2 DEF Phase, HostAnswer
      <4>4. QED
        BY <2>2, <4>3 DEF Tx!txVars
    <3>2. CASE ~dmi_ack /\ dmi_ack'
      <4>1. Phase \in {"posted", "presented"} /\ Phase' = "answered"
        BY <1>1, <1>4, <2>1, <2>3, <3>2 DEF Phase
      <4>2. HostAnswer' = IF request.op = READ THEN dmi_din' ELSE None
        BY <1>1, <2>1, <2>3, <3>2 DEF HostAnswer
      <4>3. PostedFrame.op = request.op
        BY <1>4 DEF PostedFrame, TypeOK, Frame
      <4>4. dmi_din' \in Data
        BY DEF TypeOK
      <4>5. QED
        BY <2>2, <4>1, <4>2, <4>3, <4>4 DEF Tx!Next, Tx!Answer, Tx!READ, READ
    <3>3. CASE ~dmi_ack /\ ~dmi_ack'
      <4>1. HostAnswer' = None /\ HostAnswer = None
        BY <1>1, <2>3, <3>3 DEF HostAnswer
      <4>2. Phase' = Phase \/ (Phase = "posted" /\ Phase' = "presented")
        BY <1>1, <1>2, <1>4, <2>1, <2>3, <3>3 DEF Phase, Rising
      <4>3. QED
        BY <2>2, <4>1, <4>2 DEF Tx!Next, Tx!Present, Tx!txVars
    <3>4. QED
      BY <3>1, <3>2, <3>3 DEF TypeOK
  <2>4. CASE ~jtag_req /\ (Falling \/ StaleAck)
    <3>1. HostAnswer' = HostAnswer
      BY <1>1, <1>4, <2>1, <2>4 DEF HostAnswer
    <3>2. Phase' = Phase \/ (Phase = "returned" /\ Phase' = "released")
      <4>1. CASE Falling
        BY <1>1, <1>2, <1>4, <2>1, <2>4, <4>1 DEF Phase, Falling
      <4>2. CASE StaleAck
        BY <1>1, <1>2, <1>4, <2>1, <2>4, <4>2 DEF Phase, StaleAck
      <4>3. QED
        BY <2>4, <4>1, <4>2
    <3>3. QED
      BY <2>2, <3>1, <3>2 DEF Tx!Next, Tx!Release, Tx!Advance, Tx!txVars
  <2>5. QED
    BY <1>4, <2>3, <2>4, HandshakeIsOneWave DEF HandshakeIsOneWave
<1>5. QED
  BY <1>3, <1>4

LEMMA ResetRefines ==
  ASSUME SysEdgeIntoReset
  PROVE  [Tx!Next]_(Tx!txVars)
<1>1. rst'
  BY SysEdgeIntoReset DEF SysEdgeIntoReset
<1>2. Phase' = "lost" /\ PostedFrame' = Blank /\ HostAnswer' = None
  BY <1>1 DEF Phase, PostedFrame, HostAnswer
<1>3. QED
  BY <1>2 DEF Tx!Next, Tx!Abort

\* dmi_dtm_jtag implements the transaction: every request the host posts is
\* presented once, answered once and returned with the answer given to it, for
\* all data and all interleavings of the two clocks and the two resets.
THEOREM DtmImplementsTransaction == Spec => ImplementsTransaction
<1>1. Init => Tx!Init
  BY DEF Init, Phase, PostedFrame, HostAnswer, Tx!Init, Blank, READ
<1>2. ASSUME TypeOK, TypeOK', HandshakeIsOneWave, [Next]_vars
      PROVE  [Tx!Next]_(Tx!txVars)
  <2>1. CASE UNCHANGED vars
    BY <2>1 DEF vars, Phase, PostedFrame, HostAnswer, Tx!txVars
  <2>2. QED
    BY <1>2, <2>1, JtagEdgeRefines, TrstRefines, SysEdgeRefines, ResetRefines DEF Next
<1>3. TypeOK /\ TypeOK' /\ HandshakeIsOneWave /\ [Next]_vars => [Tx!Next]_(Tx!txVars)
  BY <1>2
<1>4. QED
  BY <1>1, <1>3, TypeCorrect, AlwaysOneWave, PTL DEF Spec, ImplementsTransaction, Tx!Spec

-----------------------------------------------------------------------------
(* Dropped posts were announced.                                            *)

\* In a scan that was told the transport is free, it is: no request is
\* outstanding and no acknowledge comes round.  The acknowledge that a system
\* reset has left in the synchroniser may pass, but not as late as Update-DR.
AnnouncedInv ==
  told = "ok" =>
    /\ dr \in {"shift", "hold", "update"}
    /\ ~rst
    /\ torn \/ (~jtag_req /\ ~dmi_ack_0 /\ (dmi_ack_1 => dr # "update"))

LEMMA AnnouncedStep ==
  TypeOK /\ HandshakeIsOneWave /\ AnnouncedInv /\ [Next]_vars => AnnouncedInv'
<1> SUFFICES ASSUME TypeOK, HandshakeIsOneWave, AnnouncedInv, [Next]_vars, told' = "ok"
             PROVE  /\ dr' \in {"shift", "hold", "update"}
                    /\ ~rst'
                    /\ torn' \/ (~jtag_req' /\ ~dmi_ack_0' /\ (dmi_ack_1' => dr' # "update"))
  BY DEF AnnouncedInv
<1>1. CASE JtagEdge
  <2>1. CASE rst
    BY <1>1, <2>1 DEF JtagEdge, AnnouncedInv
  <2>2. CASE ~rst
    <3>1. dr # "update" /\ (dr = "capture" \/ told = "ok")
      BY <1>1, <2>2 DEF JtagEdge
    <3>2. /\ dr = "capture" => dr' \in {"shift", "hold"}
          /\ dr \in {"shift", "hold"} => dr' \in {"shift", "hold", "update"}
      BY <1>1 DEF JtagEdge, Scan!Edge, Scan!Follows
    <3>3. ~jtag_req => ~jtag_req'
      BY <1>1, <2>2, <3>1 DEF JtagEdge, Accepts, Updates
    <3>4. dmi_ack_0' = dmi_ack /\ dmi_ack_1' = dmi_ack_0
      BY <1>1 DEF JtagEdge
    <3>0. ~rst'
      BY <1>1, <2>2 DEF JtagEdge
    <3>5. CASE torn
      BY <3>0, <1>1, <2>2, <3>1, <3>2, <3>5 DEF JtagEdge, Quiet, AnnouncedInv
    <3>6. CASE ~torn /\ dr = "capture"
      <4>1. ~jtag_bsy
        BY <1>1, <2>2, <3>6 DEF JtagEdge, rsp_op, BUSY
      <4>2. ~dmi_ack
        BY <2>2, <3>6, <4>1 DEF HandshakeIsOneWave, Falling, StaleAck, jtag_bsy
      <4> QED
        BY <3>0, <3>2, <3>3, <3>4, <3>6, <4>1, <4>2 DEF jtag_bsy
    <3>7. CASE ~torn /\ dr # "capture"
      <4>1. told = "ok" /\ ~jtag_req /\ ~dmi_ack_0
        BY <2>2, <3>1, <3>7 DEF AnnouncedInv
      <4>2. ~dmi_ack
        BY <2>2, <3>7, <4>1 DEF HandshakeIsOneWave, Falling, StaleAck
      <4> QED
        BY <3>0, <3>1, <3>2, <3>3, <3>4, <4>1, <4>2 DEF AnnouncedInv
    <3> QED
      BY <3>5, <3>6, <3>7
  <2> QED
    BY <2>1, <2>2
<1>2. CASE Trst \/ SysEdgeIntoReset
  BY <1>2 DEF Trst, SysEdgeIntoReset, ClearRequest
<1>3. CASE SysEdge
  <2>1. UNCHANGED <<dr, jtag_req, dmi_ack_0, dmi_ack_1, told>> /\ ~rst'
    BY <1>3 DEF SysEdge
  <2>2. CASE torn
    <3>1. torn' \/ (~jtag_req /\ ~dmi_ack_0 /\ ~dmi_ack_1)
      BY <1>3, <2>2 DEF SysEdge, Quiet
    <3>2. dr \in {"shift", "hold", "update"}
      BY <2>1 DEF AnnouncedInv
    <3> QED
      BY <2>1, <3>1, <3>2
  <2>3. CASE ~torn
    BY <1>3, <2>1, <2>3 DEF AnnouncedInv
  <2> QED
    BY <2>2, <2>3
<1>4. CASE UNCHANGED vars
  BY <1>4 DEF vars, AnnouncedInv
<1> QED
  BY <1>1, <1>2, <1>3, <1>4 DEF Next

\* A request that the transport drops because it is busy was answered "busy"
\* when its scan began, for every alignment of the clocks and the resets.
THEOREM DropsAreAnnounced == Spec => DropsWereAnnounced
<1>1. Init => AnnouncedInv
  BY DEF Init, AnnouncedInv
<1>2. ASSUME AnnouncedInv, Drops, ~torn
      PROVE  told # "ok"
  BY <1>2 DEF AnnouncedInv, Drops, Updates, jtag_bsy
<1>3. AnnouncedInv => [JtagEdge /\ Drops /\ ~rst /\ ~torn => told # "ok"]_vars
  BY <1>2
<1> QED
  BY <1>1, <1>3, AnnouncedStep, TypeCorrect, AlwaysOneWave, PTL DEF Spec, DropsWereAnnounced
=============================================================================
