---------------------------- MODULE TapController ----------------------------
(***************************************************************************)
(* The JTAG test access port of the debugger (tap_top.v): the sixteen      *)
(* one-hot state flip-flops, the five-ones reset detector, the instruction *)
(* register with its latched copy, and the falling-edge registers that     *)
(* choose what drives TDO.                                                 *)
(*                                                                         *)
(* The state is the SET of flip-flops that are high: each flip-flop has an *)
(* equation of its own in the source, so that exactly one of them is high  *)
(* is a property of the sixteen equations and not of the model.            *)
(*                                                                         *)
(* Instructions are abstracted to what latched_jtag_ir selects: a code     *)
(* that is none of the named ones selects BYPASS.                          *)
(***************************************************************************)
EXTENDS Naturals

Instructions == {"EXTEST", "SAMPLE_PRELOAD", "IDCODE", "DEBUG", "MBIST", "BYPASS"}

DrColumn == {"capture_dr", "shift_dr", "exit1_dr", "pause_dr", "exit2_dr", "update_dr"}
IrColumn == {"capture_ir", "shift_ir", "exit1_ir", "pause_ir", "exit2_ir", "update_ir"}
States   == DrColumn \cup IrColumn
            \cup {"test_logic_reset", "run_test_idle", "select_dr_scan", "select_ir_scan"}

VARIABLES
  tck,                   \* level of TCK
  tap,                   \* the state flip-flops that are high
  tms_q,                 \* tms_q1 .. tms_q4, the last four values of TMS
  jtag_ir,               \* instruction shift register
  latched_jtag_ir,       \* instruction in force
  shift_ir_neg,          \* shift_ir as of the last falling edge
  latched_jtag_ir_neg    \* latched_jtag_ir as of the last falling edge

vars == <<tck, tap, tms_q, jtag_ir, latched_jtag_ir, shift_ir_neg, latched_jtag_ir_neg>>

\* The pads come up in the middle of a TRST pulse; tms_q and the falling-edge
\* registers have no reset and hold anything.
Init ==
  /\ tck = FALSE
  /\ tap = {"test_logic_reset"}
  /\ tms_q \in [1..4 -> BOOLEAN]
  /\ jtag_ir = "EXTEST"
  /\ latched_jtag_ir = "IDCODE"
  /\ shift_ir_neg \in BOOLEAN
  /\ latched_jtag_ir_neg \in Instructions

-----------------------------------------------------------------------------
(* Rising edge of TCK.                                                      *)

\* Mutant: the detector looks at three ones.
Bug_tms_reset(tms) == tms /\ \A i \in 1..2 : tms_q[i]

tms_reset(tms) == tms /\ \A i \in 1..4 : tms_q[i]

\* The flip-flops whose being high sets flip-flop s when TMS is 1 ...
SetByOne(s) ==
  CASE s = "test_logic_reset" -> {"test_logic_reset", "select_ir_scan"}
    [] s = "select_dr_scan"   -> {"run_test_idle", "update_dr", "update_ir"}
    [] s = "exit1_dr"         -> {"capture_dr", "shift_dr"}
    [] s = "exit2_dr"         -> {"pause_dr"}
    [] s = "update_dr"        -> {"exit1_dr", "exit2_dr"}
    [] s = "select_ir_scan"   -> {"select_dr_scan"}
    [] s = "exit1_ir"         -> {"capture_ir", "shift_ir"}
    [] s = "exit2_ir"         -> {"pause_ir"}
    [] s = "update_ir"        -> {"exit1_ir", "exit2_ir"}
    [] OTHER                  -> {}

\* ... and when TMS is 0.
SetByZero(s) ==
  CASE s = "run_test_idle" -> {"test_logic_reset", "run_test_idle", "update_dr", "update_ir"}
    [] s = "capture_dr"    -> {"select_dr_scan"}
    [] s = "shift_dr"      -> {"capture_dr", "shift_dr", "exit2_dr"}
    [] s = "pause_dr"      -> {"exit1_dr", "pause_dr"}
    [] s = "capture_ir"    -> {"select_ir_scan"}
    [] s = "shift_ir"      -> {"capture_ir", "shift_ir", "exit2_ir"}
    [] s = "pause_ir"      -> {"exit1_ir", "pause_ir"}
    [] OTHER               -> {}

\* Mutants: Shift-DR forgets that it is entered from Exit2-DR; Exit2-DR goes
\* back to Shift-DR when TMS is 1.
Bug_SetBy(s, tms) ==
  (IF tms THEN SetByOne(s) ELSE SetByZero(s)) \ (IF s = "shift_dr" THEN {"exit2_dr"} ELSE {})

Bug_SetByExit2(s, tms) ==
  IF tms /\ s = "shift_dr" THEN {"exit2_dr"}
  ELSE IF tms /\ s = "update_dr" THEN {"exit1_dr"}
  ELSE IF tms THEN SetByOne(s) ELSE SetByZero(s)

SetBy(s, tms) == IF tms THEN SetByOne(s) ELSE SetByZero(s)

NextTap(tms) ==
  IF tms_reset(tms)
  THEN {"test_logic_reset"}
  ELSE {s \in States : tap \cap SetBy(s, tms) # {}}

\* Mutant: the captured code is an instruction of its own.
Bug_NextIr ==
  IF "capture_ir" \in tap THEN {"000101"}
  ELSE IF "shift_ir" \in tap THEN Instructions ELSE {jtag_ir}

\* Capture-IR loads 000101, the code of no instruction; in Shift-IR the host
\* may be half way through any code.
NextIr ==
  IF "capture_ir" \in tap THEN {"BYPASS"}
  ELSE IF "shift_ir" \in tap THEN Instructions
  ELSE {jtag_ir}

NextLatchedIr(tms) ==
  IF tms_reset(tms) THEN "IDCODE"
  ELSE IF "update_ir" \in tap THEN jtag_ir
  ELSE latched_jtag_ir

TckRise(tms) ==
  /\ ~tck
  /\ tck' = TRUE
  /\ tms_q' = [i \in 1..4 |-> IF i = 1 THEN tms ELSE tms_q[i - 1]]
  /\ tap' = NextTap(tms)
  /\ jtag_ir' \in NextIr
  /\ latched_jtag_ir' = NextLatchedIr(tms)
  /\ UNCHANGED <<shift_ir_neg, latched_jtag_ir_neg>>

-----------------------------------------------------------------------------
(* Falling edge of TCK, and the asynchronous reset pin.                     *)

\* Mutant: the TDO multiplexer samples the instruction in Update-IR, half a
\* period before it changes.
Bug_TckFall ==
  /\ tck
  /\ tck' = FALSE
  /\ shift_ir_neg' = ("shift_ir" \in tap)
  /\ latched_jtag_ir_neg' = IF "update_ir" \in tap THEN latched_jtag_ir ELSE latched_jtag_ir_neg
  /\ UNCHANGED <<tap, tms_q, jtag_ir, latched_jtag_ir>>

TckFall ==
  /\ tck
  /\ tck' = FALSE
  /\ shift_ir_neg' = ("shift_ir" \in tap)
  /\ latched_jtag_ir_neg' = latched_jtag_ir
  /\ UNCHANGED <<tap, tms_q, jtag_ir, latched_jtag_ir>>

Trst ==
  /\ tap' = {"test_logic_reset"}
  /\ jtag_ir' = "EXTEST"
  /\ latched_jtag_ir' = "IDCODE"
  /\ UNCHANGED <<tck, tms_q, shift_ir_neg, latched_jtag_ir_neg>>

Next ==
  \/ \E tms \in BOOLEAN : TckRise(tms)
  \/ TckFall
  \/ Trst

Spec == Init /\ [][Next]_vars

\* The register that drives tdo_pad_o.
TdoSource == IF shift_ir_neg THEN "jtag_ir" ELSE latched_jtag_ir_neg

-----------------------------------------------------------------------------
(* Properties.                                                              *)

\* Type correctness of the TAP's registers (tap_top.v).
TypeOK ==
  /\ tck \in BOOLEAN
  /\ tap \in SUBSET States
  /\ tms_q \in [1..4 -> BOOLEAN]
  /\ jtag_ir \in Instructions
  /\ latched_jtag_ir \in Instructions
  /\ shift_ir_neg \in BOOLEAN
  /\ latched_jtag_ir_neg \in Instructions

\* The sixteen separately written flip-flop equations of tap_top.v keep
\* exactly one state flip-flop high: no TMS sequence makes the port lose its
\* state or be in two states (and drive two strobes) at once.
OneHot == \E s \in States : tap = {s}

\* After four TMS ones the state flip-flops alone are one step from
\* Test-Logic-Reset, so the five-ones detector, whose history registers are
\* not reset by TRST, never cuts a legal walk through the states short.
FiveOnesOnlyConfirms ==
  (\A i \in 1..4 : tms_q[i]) => tap \subseteq {"select_ir_scan", "test_logic_reset"}

\* While a register is being shifted TDO carries that register: the
\* falling-edge copies that steer the TDO multiplexer are never stale, in
\* either half of the TCK period of Shift-DR and in the low half of Shift-IR.
TdoCarriesSelected ==
  /\ "shift_dr" \in tap => TdoSource = latched_jtag_ir
  /\ "shift_ir" \in tap /\ ~tck => TdoSource = "jtag_ir"

\* The strobe the debug data register sees.
DrStrobe ==
  IF "capture_dr" \in tap THEN "capture"
  ELSE IF "shift_dr" \in tap THEN "shift"
  ELSE IF "update_dr" \in tap THEN "update"
  ELSE IF tap \cap DrColumn # {} THEN "hold"
  ELSE "idle"

Scan == INSTANCE DrScan WITH dr <- DrStrobe, sel <- (latched_jtag_ir = "DEBUG")

\* The port keeps the scan contract the debug register is built on: strobes
\* come in the order capture, shift, update, and the instruction in force
\* never changes inside a data-register scan.  Only TRST tears a scan: a
\* clock edge on which the five-ones detector fires is an ordinary edge.
ImplementsDrScan ==
  /\ Scan!Spec
  /\ [][~tck /\ tck' => Scan!Edge]_vars

\* tap_top.v heads its state machine "Fully JTAG compliant" and says of
\* latched_jtag_ir "IDCODE selected after reset": in Test-Logic-Reset the
\* instruction in force is IDCODE.
ResetStateSelectsIdcode ==
  tap = {"test_logic_reset"} => latched_jtag_ir = "IDCODE"
=============================================================================
