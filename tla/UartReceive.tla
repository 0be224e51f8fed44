----------------------------- MODULE UartReceive -----------------------------
(***************************************************************************)
(* The receive side of the UART: the FIFO between the receiver and the     *)
(* bus (uart_rfifo.v), and the registers that tell the processor of it     *)
(* (uart_regs.v): data ready, the trigger level and the two receive        *)
(* interrupts.  One step is one system clock.  The receiver hands over a   *)
(* character in a pulse of one clock, the bus interface (uart_wb.v)        *)
(* performs an access in one clock and then none for three.                *)
(***************************************************************************)
EXTENDS Naturals, Sequences

CONSTANTS
  FifoDepth,     \* 16 in the code
  Triggers,      \* the trigger levels; 1, 4, 8, 14 in the code
  Data,          \* what a character says
  Timeout,       \* ticks of the bit clock until a timeout: four characters
  CharTime       \* ticks between two characters at least

ASSUME ConstantsAssumption ==
  /\ FifoDepth \in Nat \ {0}
  /\ Triggers # {} /\ Triggers \subseteq 1..FifoDepth
  /\ Data # {}
  /\ Timeout \in Nat /\ CharTime \in Nat \ {0}

Chars == [data : Data, error : BOOLEAN]
Slots == 0..(FifoDepth - 1)
Accesses ==   \* of the processor: none, or a read or a write of a register
  [kind : {"none", "read RB", "other"}]
  \cup [kind : {"write FC"}, clear : BOOLEAN, trigger : Triggers]
  \cup [kind : {"write IE"}, enable : BOOLEAN]

VARIABLES
  ram, fifo,             \* slots: data, error bits
  top, bottom, count,
  rf_pop, rx_reset,      \* a read, a reset of the FIFO, one clock later
  lsr0r, lsr0_d,         \* data ready
  ier, trigger_level,    \* receive interrupt enable, trigger level
  counter_t,             \* character timeout
  rda_int_d, rda_int_pnd, ti_int_d, ti_int_pnd, int_o,
  wbstate,               \* clocks until the bus interface takes an access
  line                   \* ticks until the line can bring a character

fifoVars == <<ram, fifo, top, bottom, count>>
intVars == <<rda_int_d, rda_int_pnd, ti_int_d, ti_int_pnd, int_o>>
vars == <<fifoVars, rf_pop, rx_reset, lsr0r, lsr0_d, ier, trigger_level,
          counter_t, intVars, wbstate, line>>

Init ==
  /\ ram \in [Slots -> Data] /\ fifo = [s \in Slots |-> FALSE]
  /\ top = 0 /\ bottom = 0 /\ count = 0
  /\ rf_pop = FALSE /\ rx_reset = FALSE
  /\ lsr0r = FALSE /\ lsr0_d = FALSE
  /\ ier = FALSE
  /\ trigger_level = CHOOSE t \in Triggers : \A u \in Triggers : u <= t
  /\ counter_t = Timeout
  /\ rda_int_d = FALSE /\ rda_int_pnd = FALSE
  /\ ti_int_d = FALSE /\ ti_int_pnd = FALSE /\ int_o = FALSE
  /\ wbstate = 0 /\ line = 0

-----------------------------------------------------------------------------
(* The FIFO.                                                               *)

Succ(pointer) == (pointer + 1) % FifoDepth

Bug_Push(c) ==   \* no guard against overrun
  /\ top' = Succ(top)
  /\ fifo' = [fifo EXCEPT ![top] = c.error]
  /\ count' = count + 1
  /\ UNCHANGED bottom

Push(c) ==
  IF count < FifoDepth
  THEN /\ top' = Succ(top)
       /\ fifo' = [fifo EXCEPT ![top] = c.error]
       /\ count' = count + 1
       /\ UNCHANGED bottom
  ELSE UNCHANGED <<fifo, top, bottom, count>>

Pop ==
  IF count > 0
  THEN /\ bottom' = Succ(bottom)
       /\ fifo' = [fifo EXCEPT ![bottom] = FALSE]
       /\ count' = count - 1
       /\ UNCHANGED top
  ELSE UNCHANGED <<fifo, top, bottom, count>>

(* Both at once: no guard, and the slot that is read keeps its error bit.  *)
PushPop(c) ==
  /\ top' = Succ(top)
  /\ bottom' = Succ(bottom)
  /\ fifo' = [fifo EXCEPT ![top] = c.error]
  /\ UNCHANGED count

FifoReset ==
  /\ top' = 0 /\ bottom' = 0 /\ count' = 0
  /\ fifo' = [s \in Slots |-> FALSE]

(* The data go to the memory on every push, also when the FIFO is full.    *)
Fifo(push, c) ==
  /\ ram' = IF push THEN [ram EXCEPT ![top] = c.data] ELSE ram
  /\ CASE rx_reset                     -> FifoReset
       [] ~rx_reset /\ push /\ ~rf_pop  -> Push(c)
       [] ~rx_reset /\ ~push /\ rf_pop  -> Pop
       [] ~rx_reset /\ push /\ rf_pop   -> PushPop(c)
       [] ~rx_reset /\ ~push /\ ~rf_pop -> UNCHANGED <<fifo, top, bottom, count>>

-----------------------------------------------------------------------------
(* Registers.                                                              *)

lsr0(push) == count = 0 /\ push

Bug_DataReady(push) ==   \* falls although a character arrives
  /\ lsr0_d' = lsr0(push)
  /\ lsr0r' = IF (count = 1 /\ rf_pop) \/ rx_reset
              THEN FALSE
              ELSE lsr0r \/ (lsr0(push) /\ ~lsr0_d)

DataReady(push) ==
  /\ lsr0_d' = lsr0(push)
  /\ lsr0r' = IF (count = 1 /\ rf_pop /\ ~push) \/ rx_reset
              THEN FALSE
              ELSE lsr0r \/ (lsr0(push) /\ ~lsr0_d)

(* A read of RB takes effect on the FIFO one clock later, a write of FCR   *)
(* that clears it likewise.                                                *)
ReadBuffer(op) == rf_pop' = (op.kind = "read RB" /\ ~rf_pop)

FifoControl(op) ==
  /\ rx_reset' = (op.kind = "write FC" /\ op.clear)
  /\ trigger_level' = IF op.kind = "write FC" THEN op.trigger ELSE trigger_level

InterruptEnable(op) == ier' = IF op.kind = "write IE" THEN op.enable ELSE ier

Bug_Restarts(push) == push \/ rf_pop \/ count < trigger_level   \* trigger level for empty

Restarts(push) == push \/ rf_pop \/ count = 0

TimeoutCounter(push, enable) ==
  counter_t' = CASE Restarts(push)                                -> Timeout
                 [] ~Restarts(push) /\ enable /\ counter_t # 0    -> counter_t - 1
                 [] ~Restarts(push) /\ ~(enable /\ counter_t # 0) -> counter_t

-----------------------------------------------------------------------------
(* Interrupts: each has a pending flag that is set when its cause rises.   *)

rda_int == ier /\ count >= trigger_level
ti_int == ier /\ counter_t = 0 /\ count > 0

Pending(clears, rises, pnd) == ~clears /\ (rises \/ (pnd /\ ier))

Interrupts(read) ==
  /\ rda_int_d' = rda_int
  /\ ti_int_d' = ti_int
  /\ rda_int_pnd' = Pending(count = trigger_level /\ read, rda_int /\ ~rda_int_d, rda_int_pnd)
  /\ ti_int_pnd' = Pending(read, ti_int /\ ~ti_int_d, ti_int_pnd)
  /\ int_o' = (rda_int_pnd \/ (ti_int_pnd /\ ~read))

-----------------------------------------------------------------------------
Clock(op, push, c, enable) ==
  /\ op.kind = "none" \/ wbstate = 0
  /\ push => line = 0
  /\ Fifo(push, c)
  /\ DataReady(push)
  /\ ReadBuffer(op)
  /\ FifoControl(op)
  /\ InterruptEnable(op)
  /\ TimeoutCounter(push, enable)
  /\ Interrupts(op.kind = "read RB")
  /\ wbstate' = CASE op.kind # "none"                -> 3
                  [] op.kind = "none" /\ wbstate > 0 -> wbstate - 1
                  [] op.kind = "none" /\ wbstate = 0 -> 0
  /\ line' = CASE push                           -> CharTime
               [] ~push /\ enable /\ line > 0    -> line - 1
               [] ~push /\ ~(enable /\ line > 0) -> line

Tick(enable) ==
  \E op \in Accesses, push \in BOOLEAN, c \in Chars : Clock(op, push, c, enable)

Next == \E enable \in BOOLEAN : Tick(enable)

Spec == Init /\ [][Next]_vars

(* The divider of the bit clock runs.                                      *)
FairSpec == Spec /\ WF_vars(Tick(TRUE))

-----------------------------------------------------------------------------
(* Properties.                                                             *)

(* The count is the distance of the pointers, however pushes, reads and    *)
(* resets fall together.                                                   *)
TypeOK ==
  /\ ram \in [Slots -> Data] /\ fifo \in [Slots -> BOOLEAN]
  /\ top \in Slots /\ bottom \in Slots /\ count \in 0..FifoDepth
  /\ (bottom + count) % FifoDepth = top
  /\ counter_t \in 0..Timeout /\ wbstate \in 0..3 /\ line \in 0..CharTime
  /\ {rf_pop, rx_reset, lsr0r, lsr0_d, ier, rda_int_d, rda_int_pnd, ti_int_d,
      ti_int_pnd, int_o} \subseteq BOOLEAN
  /\ trigger_level \in Triggers

(* The ring of slots, and the data ready flag that is kept beside it, are  *)
(* the queue of the abstract specification: what is in it comes out once   *)
(* and in order, each character with its own error bit, and ready is up    *)
(* while it holds any.                                                     *)
Entry(j) == LET s == (bottom + j - 1) % FifoDepth
            IN  [data |-> ram[s], error |-> fifo[s]]

Queue == INSTANCE ReceiveQueue WITH
  Depth <- FifoDepth,
  q <- [j \in 1..count |-> Entry(j)],
  ready <- lsr0r

ImplementsReceiveQueue == Queue!Spec

(* A character that waits, with the receive interrupt enabled, while the   *)
(* line is silent and the processor does not read, is announced: below the *)
(* trigger level, or where a read in the clock of an arrival has taken the *)
(* pending flag of the trigger level away, by the timeout.                 *)
WaitingIsAnnounced ==
  (ier /\ count > 0) ~>
    (int_o \/ ~ier \/ count = 0 \/ rf_pop \/ line = CharTime)

(* "an error (parity or framing) is inside the fifo": the error bit that   *)
(* goes to the line status register is up for characters in the FIFO only. *)
error_bit == \E s \in Slots : fifo[s]
ErrorBitIsTrue == error_bit => \E j \in 1..count : Entry(j).error
=============================================================================
