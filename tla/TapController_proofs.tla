------------------------ MODULE TapController_proofs ------------------------
(***************************************************************************)
(* Proofs about the JTAG test access port.  The argument for the one-hot   *)
(* state is by cases on the flip-flop that is high: lemma OneSuccessor     *)
(* names, for each, the single flip-flop its equations set next.           *)
(***************************************************************************)
EXTENDS TapController, TLAPS

\* The state that TMS leads to from the state s.
Successor(s, tms) ==
  CASE s = "test_logic_reset" -> IF tms THEN "test_logic_reset" ELSE "run_test_idle"
    [] s = "run_test_idle"    -> IF tms THEN "select_dr_scan" ELSE "run_test_idle"
    [] s = "select_dr_scan"   -> IF tms THEN "select_ir_scan" ELSE "capture_dr"
    [] s = "capture_dr"       -> IF tms THEN "exit1_dr" ELSE "shift_dr"
    [] s = "shift_dr"         -> IF tms THEN "exit1_dr" ELSE "shift_dr"
    [] s = "exit1_dr"         -> IF tms THEN "update_dr" ELSE "pause_dr"
    [] s = "pause_dr"         -> IF tms THEN "exit2_dr" ELSE "pause_dr"
    [] s = "exit2_dr"         -> IF tms THEN "update_dr" ELSE "shift_dr"
    [] s = "update_dr"        -> IF tms THEN "select_dr_scan" ELSE "run_test_idle"
    [] s = "select_ir_scan"   -> IF tms THEN "test_logic_reset" ELSE "capture_ir"
    [] s = "capture_ir"       -> IF tms THEN "exit1_ir" ELSE "shift_ir"
    [] s = "shift_ir"         -> IF tms THEN "exit1_ir" ELSE "shift_ir"
    [] s = "exit1_ir"         -> IF tms THEN "update_ir" ELSE "pause_ir"
    [] s = "pause_ir"         -> IF tms THEN "exit2_ir" ELSE "pause_ir"
    [] s = "exit2_ir"         -> IF tms THEN "update_ir" ELSE "shift_ir"
    [] s = "update_ir"        -> IF tms THEN "select_dr_scan" ELSE "run_test_idle"

\* The flip-flop equations of tap_top.v, read from the flip-flop that is
\* high: exactly the flip-flop of the successor state has s among its inputs.
LEMMA OneSuccessor ==
  ASSUME NEW s \in States, NEW t \in States, NEW tms \in BOOLEAN
  PROVE  (s \in SetBy(t, tms)) <=> (t = Successor(s, tms))
<1>1. CASE tms
  BY <1>1, SMTT(60) DEF SetBy, SetByOne, Successor, States, DrColumn, IrColumn
<1>2. CASE ~tms
  BY <1>2, SMTT(60) DEF SetBy, SetByZero, Successor, States, DrColumn, IrColumn
<1>3. QED
  BY <1>1, <1>2

LEMMA SuccessorIsState ==
  ASSUME NEW s \in States, NEW tms \in BOOLEAN
  PROVE  Successor(s, tms) \in States
BY SMTT(60) DEF Successor, States, DrColumn, IrColumn

-----------------------------------------------------------------------------
(* Type correctness.                                                        *)

\* Every register of tap_top.v keeps to its type.
THEOREM TypeCorrect == Spec => []TypeOK
<1>1. Init => TypeOK
  BY DEF Init, TypeOK, Instructions, States
<1>2. TypeOK /\ [Next]_vars => TypeOK'
  <2> SUFFICES ASSUME TypeOK, [Next]_vars
               PROVE  TypeOK'
    OBVIOUS
  <2>1. ASSUME NEW tms \in BOOLEAN, TckRise(tms)
        PROVE  TypeOK'
    <3>1. tap' \in SUBSET States
      BY <2>1 DEF TckRise, NextTap, States
    <3>2. jtag_ir' \in Instructions /\ latched_jtag_ir' \in Instructions
      BY <2>1 DEF TckRise, TypeOK, NextIr, NextLatchedIr, Instructions
    <3>3. tms_q' \in [1..4 -> BOOLEAN]
      BY <2>1 DEF TckRise, TypeOK
    <3>4. QED
      BY <2>1, <3>1, <3>2, <3>3 DEF TckRise, TypeOK
  <2>2. CASE TckFall
    <3>1. shift_ir_neg' \in BOOLEAN
      <4>1. ("shift_ir" \in tap) \in BOOLEAN
        OBVIOUS
      <4>2. QED
        BY <2>2, <4>1 DEF TckFall
    <3>2. QED
      BY <2>2, <3>1 DEF TckFall, TypeOK
  <2>3. CASE Trst
    BY <2>3 DEF Trst, TypeOK, Instructions, States
  <2>4. CASE UNCHANGED vars
    BY <2>4 DEF vars, TypeOK
  <2>5. QED
    BY <2>1, <2>2, <2>3, <2>4 DEF Next
<1>3. QED
  BY <1>1, <1>2, PTL DEF Spec

-----------------------------------------------------------------------------
(* One state at a time.                                                     *)

\* From a one-hot state the equations leave the successor alone high.
LEMMA NextTapIsSuccessor ==
  ASSUME NEW s \in States, tap = {s}, NEW tms \in BOOLEAN, ~tms_reset(tms)
  PROVE  NextTap(tms) = {Successor(s, tms)}
<1>1. \A t \in States : tap \cap SetBy(t, tms) # {} <=> t = Successor(s, tms)
  <2> SUFFICES ASSUME NEW t \in States
               PROVE  tap \cap SetBy(t, tms) # {} <=> t = Successor(s, tms)
    OBVIOUS
  <2>1. tap \cap SetBy(t, tms) # {} <=> s \in SetBy(t, tms)
    OBVIOUS
  <2>2. QED
    BY <2>1, OneSuccessor
<1>2. Successor(s, tms) \in States
  BY SuccessorIsState
<1>3. QED
  BY <1>1, <1>2, Zenon DEF NextTap

LEMMA OneHotStep == TypeOK /\ OneHot /\ [Next]_vars => OneHot'
<1> SUFFICES ASSUME TypeOK, OneHot, [Next]_vars
             PROVE  OneHot'
  OBVIOUS
<1>1. ASSUME NEW tms \in BOOLEAN, TckRise(tms)
      PROVE  OneHot'
  <2>1. CASE tms_reset(tms)
    BY <1>1, <2>1 DEF TckRise, NextTap, OneHot, States
  <2>2. CASE ~tms_reset(tms)
    <3>1. PICK s \in States : tap = {s}
      BY DEF OneHot
    <3>2. tap' = {Successor(s, tms)}
      BY <1>1, <2>2, <3>1, NextTapIsSuccessor DEF TckRise
    <3>3. Successor(s, tms) \in States
      BY <3>1, SuccessorIsState
    <3>4. QED
      BY <3>2, <3>3 DEF OneHot
  <2>3. QED
    BY <2>1, <2>2
<1>2. CASE TckFall
  BY <1>2 DEF TckFall, OneHot
<1>3. CASE Trst
  BY <1>3 DEF Trst, OneHot, States
<1>4. CASE UNCHANGED vars
  BY <1>4 DEF vars, OneHot
<1>5. QED
  BY <1>1, <1>2, <1>3, <1>4 DEF Next

\* No sequence of TMS values and TRST pulses makes tap_top.v lose its state
\* or drive two states at once.
THEOREM AlwaysOneHot == Spec => []OneHot
<1>1. Init => OneHot
  BY DEF Init, OneHot, States
<1>2. QED
  BY <1>1, OneHotStep, TypeCorrect, PTL DEF Spec

-----------------------------------------------------------------------------
(* The five-ones detector never acts alone.  The inductive invariant says,  *)
(* for each number of ones at the young end of tms_q, which states are left.*)

AfterFourStates  == {"test_logic_reset", "select_ir_scan"}
AfterThreeStates == AfterFourStates \cup {"select_dr_scan"}
AfterTwoStates   == AfterThreeStates \cup {"update_dr", "update_ir"}
AfterOneStates   == AfterTwoStates \cup {"exit1_dr", "exit2_dr", "exit1_ir", "exit2_ir"}

AfterOne   == tms_q[1] => tap \subseteq AfterOneStates
AfterTwo   == tms_q[1] /\ tms_q[2] => tap \subseteq AfterTwoStates
AfterThree == tms_q[1] /\ tms_q[2] /\ tms_q[3] => tap \subseteq AfterThreeStates
AfterFour  == tms_q[1] /\ tms_q[2] /\ tms_q[3] /\ tms_q[4] => tap \subseteq AfterFourStates

OnesInv == AfterOne /\ AfterTwo /\ AfterThree /\ AfterFour

\* Where a TMS one leads from the states the four sets above allow.
LEMMA SuccessorOfOne ==
  ASSUME NEW s \in States
  PROVE  /\ Successor(s, TRUE) \in AfterOneStates
         /\ s \in AfterOneStates => Successor(s, TRUE) \in AfterTwoStates
         /\ s \in AfterTwoStates => Successor(s, TRUE) \in AfterThreeStates
         /\ s \in AfterThreeStates => Successor(s, TRUE) \in AfterFourStates
<1> DEFINE t == Successor(s, TRUE)
<1>1. \/ t = "test_logic_reset" /\ s \in {"test_logic_reset", "select_ir_scan"}
      \/ t = "select_dr_scan"   /\ s \in {"run_test_idle", "update_dr", "update_ir"}
      \/ t = "select_ir_scan"   /\ s = "select_dr_scan"
      \/ t = "exit1_dr"         /\ s \in {"capture_dr", "shift_dr"}
      \/ t = "update_dr"        /\ s \in {"exit1_dr", "exit2_dr"}
      \/ t = "exit2_dr"         /\ s = "pause_dr"
      \/ t = "exit1_ir"         /\ s \in {"capture_ir", "shift_ir"}
      \/ t = "update_ir"        /\ s \in {"exit1_ir", "exit2_ir"}
      \/ t = "exit2_ir"         /\ s = "pause_ir"
  BY SMTT(60) DEF Successor, States, DrColumn, IrColumn
<1> HIDE DEF t
<1>2. QED
  BY <1>1 DEF t, AfterOneStates, AfterTwoStates, AfterThreeStates, AfterFourStates

LEMMA OnesStep == TypeOK /\ OneHot /\ OnesInv /\ [Next]_vars => OnesInv'
<1> SUFFICES ASSUME TypeOK, OneHot, OnesInv, [Next]_vars
             PROVE  OnesInv'
  OBVIOUS
<1> USE DEF OnesInv, AfterOne, AfterTwo, AfterThree, AfterFour
<1>1. ASSUME NEW tms \in BOOLEAN, TckRise(tms)
      PROVE  OnesInv'
  <2>1. /\ tms_q'[1] = tms
        /\ tms_q'[2] = tms_q[1]
        /\ tms_q'[3] = tms_q[2]
        /\ tms_q'[4] = tms_q[3]
    BY <1>1 DEF TckRise, TypeOK
  <2>2. CASE tms_reset(tms)
    <3>1. tap' = {"test_logic_reset"}
      BY <1>1, <2>2 DEF TckRise, NextTap
    <3>2. QED
      BY <3>1 DEF AfterOneStates, AfterTwoStates, AfterThreeStates, AfterFourStates
  <2>3. CASE ~tms
    BY <2>1, <2>3
  <2>4. CASE tms /\ ~tms_reset(tms)
    <3>1. PICK s \in States : tap = {s}
      BY DEF OneHot
    <3>2. tap' = {Successor(s, TRUE)}
      BY <1>1, <2>4, <3>1, NextTapIsSuccessor DEF TckRise
    <3>3. QED
      BY <2>1, <3>1, <3>2, SuccessorOfOne
  <2>5. QED
    BY <2>2, <2>3, <2>4
<1>2. CASE TckFall
  BY <1>2 DEF TckFall
<1>3. CASE Trst
  BY <1>3 DEF Trst, AfterOneStates, AfterTwoStates, AfterThreeStates, AfterFourStates
<1>4. CASE UNCHANGED vars
  BY <1>4 DEF vars
<1>5. QED
  BY <1>1, <1>2, <1>3, <1>4 DEF Next

\* The detector of five TMS ones only ever confirms what the state
\* flip-flops do by themselves, from any contents of its history registers.
THEOREM AlwaysFiveOnesOnlyConfirms == Spec => []FiveOnesOnlyConfirms
<1>1. Init => OnesInv
  BY DEF Init, OnesInv, AfterOne, AfterTwo, AfterThree, AfterFour,
         AfterOneStates, AfterTwoStates, AfterThreeStates, AfterFourStates
<1>2. OnesInv => FiveOnesOnlyConfirms
  BY DEF OnesInv, AfterFour, AfterFourStates, FiveOnesOnlyConfirms
<1>3. QED
  BY <1>1, <1>2, OnesStep, TypeCorrect, AlwaysOneHot, PTL DEF Spec

-----------------------------------------------------------------------------
(* The TAP keeps the scan contract.  The instruction in force cannot change *)
(* inside a scan because the flip-flops are one-hot and, by OnesInv, the    *)
(* five-ones detector is silent in the data-register column.                *)

StrobeOf(s) ==
  CASE s = "capture_dr" -> "capture"
    [] s = "shift_dr"   -> "shift"
    [] s = "update_dr"  -> "update"
    [] s \in {"exit1_dr", "pause_dr", "exit2_dr"} -> "hold"
    [] OTHER -> "idle"

LEMMA StrobeOfState ==
  ASSUME NEW s \in States, tap = {s}
  PROVE  DrStrobe = StrobeOf(s)
<1>1. "capture_dr" \in tap <=> s = "capture_dr"
  OBVIOUS
<1>2. "shift_dr" \in tap <=> s = "shift_dr"
  OBVIOUS
<1>3. "update_dr" \in tap <=> s = "update_dr"
  OBVIOUS
<1>4. tap \cap DrColumn # {} <=> s \in DrColumn
  OBVIOUS
<1>5. QED
  BY <1>1, <1>2, <1>3, <1>4 DEF DrStrobe, StrobeOf, DrColumn

LEMMA StrobesFollow ==
  ASSUME NEW s \in States, NEW tms \in BOOLEAN
  PROVE  /\ StrobeOf(Successor(s, tms)) \in Scan!Strobes
         /\ Scan!Follows(StrobeOf(s), StrobeOf(Successor(s, tms)))
<1> DEFINE t == Successor(s, tms)
<1>1. CASE s = "select_dr_scan"
  <2>1. t \in {"capture_dr", "select_ir_scan"}
    BY <1>1 DEF Successor
  <2>2. QED
    BY <1>1, <2>1 DEF StrobeOf, Scan!Strobes, Scan!Follows
<1>2. CASE s \in {"capture_dr", "shift_dr"}
  <2>1. t \in {"exit1_dr", "shift_dr"}
    BY <1>2 DEF Successor
  <2>2. QED
    BY <1>2, <2>1 DEF StrobeOf, Scan!Strobes, Scan!Follows
<1>3. CASE s \in {"exit1_dr", "pause_dr", "exit2_dr"}
  <2>1. t \in {"update_dr", "pause_dr", "shift_dr", "exit2_dr"}
    BY <1>3 DEF Successor
  <2>2. QED
    BY <1>3, <2>1 DEF StrobeOf, Scan!Strobes, Scan!Follows
<1>4. CASE s \in {"update_dr", "test_logic_reset", "run_test_idle", "update_ir"}
  <2>1. t \in {"select_dr_scan", "run_test_idle", "test_logic_reset"}
    BY <1>4 DEF Successor
  <2>2. QED
    BY <1>4, <2>1 DEF StrobeOf, Scan!Strobes, Scan!Follows
<1>5. CASE s \in {"select_ir_scan", "capture_ir", "shift_ir", "exit1_ir", "pause_ir", "exit2_ir"}
  <2>1. t \in {"test_logic_reset", "capture_ir", "exit1_ir", "shift_ir",
               "update_ir", "pause_ir", "exit2_ir"}
    BY <1>5 DEF Successor
  <2>2. QED
    BY <1>5, <2>1 DEF StrobeOf, Scan!Strobes, Scan!Follows
<1>6. QED
  BY <1>1, <1>2, <1>3, <1>4, <1>5 DEF States, DrColumn, IrColumn

\* Every rising edge of TCK is an edge of the scan contract.
LEMMA RiseIsScanEdge ==
  ASSUME TypeOK, OneHot, OnesInv, NEW tms \in BOOLEAN, TckRise(tms)
  PROVE  Scan!Edge
<1> DEFINE sel == latched_jtag_ir = "DEBUG"
<1>1. PICK s \in States : tap = {s}
  BY DEF OneHot
<1>2. DrStrobe = StrobeOf(s)
  BY <1>1, StrobeOfState
<1>3. sel' \in BOOLEAN
  OBVIOUS
<1>4. CASE tms_reset(tms)
  <2>1. tap' = {"test_logic_reset"}
    BY <1>4 DEF TckRise, NextTap
  <2>2. DrStrobe' = "idle"
    BY <2>1 DEF DrStrobe, DrColumn
  <2>3. s \in AfterFourStates
    BY <1>1, <1>4 DEF tms_reset, OnesInv, AfterFour
  <2>4. DrStrobe = "idle"
    BY <1>2, <2>3 DEF AfterFourStates, StrobeOf
  <2>5. QED
    BY <1>3, <2>2, <2>4 DEF Scan!Edge, Scan!Strobes, Scan!Follows
<1>5. CASE ~tms_reset(tms)
  <2>1. tap' = {Successor(s, tms)}
    BY <1>1, <1>5, NextTapIsSuccessor DEF TckRise
  <2>2. Successor(s, tms) \in States
    BY SuccessorIsState
  <2>3. DrStrobe' = StrobeOf(Successor(s, tms))
    BY <2>1, <2>2 DEF DrStrobe, StrobeOf, DrColumn
  <2>4. {DrStrobe, DrStrobe'} # {"idle"} => sel' = sel
    <3>1. CASE s = "update_ir"
      <4>1. StrobeOf(s) = "idle" /\ StrobeOf(Successor(s, tms)) = "idle"
        BY <3>1 DEF StrobeOf, Successor
      <4>2. QED
        BY <1>2, <2>3, <4>1
    <3>2. CASE s # "update_ir"
      BY <1>1, <1>5, <3>2 DEF TckRise, NextLatchedIr
    <3>3. QED
      BY <3>1, <3>2
  <2>5. QED
    BY <1>2, <1>3, <2>3, <2>4, StrobesFollow DEF Scan!Edge
<1>6. QED
  BY <1>4, <1>5

LEMMA ScanStep ==
  ASSUME TypeOK, OneHot, OnesInv, [Next]_vars
  PROVE  /\ [Scan!Next]_(Scan!scanVars)
         /\ [~tck /\ tck' => Scan!Edge]_vars
<1>1. ASSUME NEW tms \in BOOLEAN, TckRise(tms)
      PROVE  Scan!Edge
  BY <1>1, RiseIsScanEdge
<1>2. CASE TckFall
  BY <1>2 DEF TckFall, DrStrobe, Scan!scanVars
<1>3. CASE Trst
  <2>1. DrStrobe' = "idle" /\ latched_jtag_ir' = "IDCODE" /\ tck' = tck
    BY <1>3 DEF Trst, DrStrobe, DrColumn
  <2>2. QED
    BY <2>1 DEF Scan!Next, Scan!Reset
<1>4. CASE UNCHANGED vars
  BY <1>4 DEF vars, DrStrobe, Scan!scanVars
<1>5. QED
  BY <1>1, <1>2, <1>3, <1>4 DEF Next, TckFall, Scan!Next

\* tap_top.v implements DrScan: strobes come in order and the instruction in
\* force does not change inside a data-register scan, whatever the host does.
THEOREM TapImplementsDrScan == Spec => ImplementsDrScan
<1>1. Init => Scan!Init
  BY DEF Init, Scan!Init, DrStrobe, DrColumn
<1>2. Init => OnesInv
  BY DEF Init, OnesInv, AfterOne, AfterTwo, AfterThree, AfterFour,
         AfterOneStates, AfterTwoStates, AfterThreeStates, AfterFourStates
<1>3. TypeOK /\ OneHot /\ OnesInv /\ [Next]_vars
        => [Scan!Next]_(Scan!scanVars) /\ [~tck /\ tck' => Scan!Edge]_vars
  BY ScanStep
<1>4. QED
  BY <1>1, <1>2, <1>3, OnesStep, TypeCorrect, AlwaysOneHot, PTL
     DEF Spec, ImplementsDrScan, Scan!Spec

-----------------------------------------------------------------------------
(* TDO carries the register that is shifted.                                *)

\* The falling-edge copies follow in the low half of TCK, except after TRST,
\* and the next rising edge finds them right wherever it leads to Shift-DR.
SteerInv ==
  /\ ~tck /\ tap # {"test_logic_reset"} =>
       /\ latched_jtag_ir_neg = latched_jtag_ir
       /\ shift_ir_neg <=> "shift_ir" \in tap
  /\ tck /\ "shift_dr" \in tap =>
       /\ latched_jtag_ir_neg = latched_jtag_ir
       /\ ~shift_ir_neg

\* The states that lead to Shift-DR.
LEMMA BeforeShiftDr ==
  ASSUME NEW s \in States, NEW tms \in BOOLEAN, Successor(s, tms) = "shift_dr"
  PROVE  s \in {"capture_dr", "shift_dr", "exit2_dr"}
BY SMTT(60) DEF Successor, States, DrColumn, IrColumn

LEMMA SteerStep == TypeOK /\ OneHot /\ SteerInv /\ [Next]_vars => SteerInv'
<1> SUFFICES ASSUME TypeOK, OneHot, SteerInv, [Next]_vars
             PROVE  SteerInv'
  OBVIOUS
<1>1. ASSUME NEW tms \in BOOLEAN, TckRise(tms)
      PROVE  SteerInv'
  <2>1. /\ ~tck /\ tck' /\ tap' = NextTap(tms)
        /\ shift_ir_neg' = shift_ir_neg /\ latched_jtag_ir_neg' = latched_jtag_ir_neg
    BY <1>1 DEF TckRise
  <2>2. ASSUME "shift_dr" \in tap'
        PROVE  latched_jtag_ir_neg' = latched_jtag_ir' /\ ~shift_ir_neg'
    <3>1. ~tms_reset(tms)
      BY <2>1, <2>2 DEF NextTap
    <3>2. PICK s \in States : tap = {s}
      BY DEF OneHot
    <3>3. s \in {"capture_dr", "shift_dr", "exit2_dr"}
      BY <2>1, <2>2, <3>1, <3>2, NextTapIsSuccessor, BeforeShiftDr
    <3>4. latched_jtag_ir' = latched_jtag_ir
      BY <1>1, <3>1, <3>2, <3>3 DEF TckRise, NextLatchedIr
    <3> QED
      BY <2>1, <3>2, <3>3, <3>4 DEF SteerInv, TypeOK
  <2> QED
    BY <2>1, <2>2 DEF SteerInv
<1>2. CASE TckFall
  BY <1>2 DEF TckFall, SteerInv
<1>3. CASE Trst
  BY <1>3 DEF Trst, SteerInv
<1>4. CASE UNCHANGED vars
  BY <1>4 DEF vars, SteerInv
<1> QED
  BY <1>1, <1>2, <1>3, <1>4 DEF Next

\* In either half of Shift-DR, and in the low half of Shift-IR, the TDO
\* multiplexer of tap_top.v selects the register that is being shifted.
THEOREM TdoAlwaysSelected == Spec => []TdoCarriesSelected
<1>1. Init => SteerInv
  BY DEF Init, SteerInv
<1>2. TypeOK /\ OneHot /\ SteerInv => TdoCarriesSelected
  <2> SUFFICES ASSUME TypeOK, OneHot, SteerInv PROVE TdoCarriesSelected
    OBVIOUS
  <2>1. PICK s \in States : tap = {s}
    BY DEF OneHot
  <2>2. s = "shift_dr" => ~shift_ir_neg /\ latched_jtag_ir_neg = latched_jtag_ir
    BY <2>1 DEF SteerInv, TypeOK
  <2>3. s = "shift_ir" /\ ~tck => shift_ir_neg
    BY <2>1 DEF SteerInv
  <2> QED
    BY <2>1, <2>2, <2>3 DEF TdoCarriesSelected, TdoSource
<1> QED
  BY <1>1, <1>2, SteerStep, TypeCorrect, AlwaysOneHot, PTL DEF Spec
=============================================================================
