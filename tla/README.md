# Verification of the Microwatt hardware-debugger SoC

The repository is an ASIC port of the Microwatt POWER SoC: the processor and
its SoC as Verilog converted from VHDL (`src/verilog/rtl/microwatt_uart.v`),
with a JTAG port, a 16550 UART, a USB host and OpenLane scripts around it.
What makes it a *debugger* SoC is one path: a host with a JTAG probe reads and
writes memory, and stops, steps and starts the core. This project models that
path from the pins to the pipeline and to the system bus; the receive side of
the UART, the console of the same host; and the Python tool that puts the
template of the shuttle's pad frame on the layout database. The models are TLA+
specifications checked with TLC and, where the argument is one about every
instance, proved with TLAPS.

`microwatt_uart.v` is generated; its comments name the VHDL line each
statement came from, and the modules keep the VHDL names (`jtag_req`,
`reg_addr`, `gspr_index`, ...).

## 1. The system

    TCK domain          |            system clock domain
                        |
    pins -- tap_top -- dmi_dtm_jtag ====> soc: DMI decode --+-- wishbone_debug_master -- bus
                        | (handshake)                       |
                        |                                   +-- core_debug -- fetch1 .. control
                        |
       bus: dcache, icache, DMA port, debug master -> wishbone_arbiter_4 -> SRAM, SPI flash, io bridge
                                                                                             |
                                                                         UART, XICS, GPIO, USB host

    layout:  configuration -> __init__.py (flow step) -> apply_def_template.py -+
             user -> defutil.py, defutil_ol2.py (commands) --------------------+-> reader.py: click_odb -> OpenDB, files

| Component | State | Operations | Talks to |
|---|---|---|---|
| JTAG TAP (`tap_top`) | 16 one-hot flip-flops, TMS history, instruction register and its latched copy, falling-edge copies | TCK edges, TRST | pins; strobes to the transport |
| Debug transport (`dmi_dtm_jtag`) | 74-bit scan register, request register, `jtag_req`, two 2-stage synchronisers | capture, shift, update, completion; TRST, system reset | TAP strobes; DMI request/acknowledge |
| DMI decode (`soc`) | none | routes by address | transport; debug master, core debug |
| Debug master (`wishbone_debug_master`) | `reg_addr`, `reg_ctrl`, `data_latch`, `state`, `stb`, `do_inc` | register access, bus cycle, autoincrement | DMI; arbiter |
| Core debug (`core_debug_0`) | `stopping`, `terminated`, command pulses, `gspr_index`, log address, trigger | CTRL, STAT, GSPR, LOG, trigger registers | DMI; pipeline; execute1, loadstore1 (register reads) |
| Front end (fetch1, icache, decode1, decode2, control) | one slot per stage, tag counters | fetch, hit or reload, issue, stall, flush, stop marks | core debug; back end |
| Back end (execute1, loadstore1, dcache, mmu, fpu, writeback) | the processor | executes | front end; bus |
| Arbiter (`wishbone_arbiter_4`) | `selected` | selects, routes strobes and answers | four masters; slave decode |
| Bus slaves (SRAM wrapper, slave decode, io bridge, io decode) | acknowledge pipeline; bridge state | bus cycles | arbiter; peripherals |
| syscon, SoC resets | control register, registered resets | core reset, system reset | everything |
| UART, receive side (`uart_rfifo`, `uart_regs`) | FIFO (data, error bits, pointers, count), data ready, trigger level, character timeout, two interrupts | a character arrives; reads of the buffer; resets; bit clock | receiver; io bridge; XICS |
| UART transmitter and line, SPI flash, XICS, GPIO, USB host | FIFOs, state machines, interrupt state | bus registers | io bridge; pins |
| DEF template step (`__init__.py`, `apply_def_template.py`) | the design in memory, the pins still to create and to place, the grid error flag | pins forced into the design and placed where the template has them; die area moved | `relocate_pins` and `move_diearea` of `defutil.py`; `reader.py` |
| Layout commands (`defutil.py`, `defutil_ol2.py`) | the design in memory | mark fixed, merge, remove components, nets and pins, rename, obstruct | `reader.py` |
| `click_odb` (`reader.py`) | database and DEF files | opens the database, runs the command, writes the DEF, writes the database | OpenDB (external), disk |
| simplebus host, timer, wrappers, firmware | - | - | - |

**What is hard here.** Two unrelated clocks and a handshake whose bundled data
has no synchroniser; an asynchronous TRST that may strike in the middle of
anything, and does not reset the same registers as the system reset; core
resets that reset one side of an interface and not the other; acknowledges on
the bus that carry no identity; a stop that must overtake nothing and a step
that must let out one instruction through a pipeline that stalls, misses and
flushes; registers read by one machine while another writes them. The
directed test benches under `src/verilog/dv` go through one order of events
each. In the UART, a character that arrives in the very clock of a read, at an
empty or a full FIFO or at the trigger level. In the layout tool, loops that
change what they go over, names that are in use or already free, errors found
after the design was changed, and two files that are written one after the
other, over the database that was read; no test covers any of it.
`PROJECT.json` lists the hazards at their lines with the properties
aimed at them.

**What makes each part correct.**

- TAP: one state at a time; the data-register walk and the instruction select
  obey the scan contract whatever TMS and TRST do; TDO carries the register
  the host is shifting.
- Transport: one request at a time; each is presented once, answered once and
  returned with its own answer; nothing moves under the system clock's eyes; a
  dropped request was announced.
- Debug master: each operation takes effect exactly once, on the word under
  the pointer, and the acknowledge comes after the effect.
- Core debug: a command acts once however long its request stands; a
  sequential read of the log gets consecutive entries; a register read gets
  no answer of the read before.
- Stop control: "stopped" means that nothing is left in the pipeline; a step
  lets out one instruction at most; a stop is reached.
- Arbiter: an answer reaches the master whose access it answers; the bus
  changes hands between cycles only.
- UART, receive side: a bounded queue; each character comes out once, in order
  and with its own error mark; "data ready" is up while it holds any; what waits
  is announced to a processor that asked for interrupts.
- DEF template step: what reaches a file is the template applied to what was
  read, on the grid, or nothing; the database is written last.
- Layout commands: each leaves alone what it was not told to touch, and no pin
  or terminal refers to a net that is gone.

## 2. The modules

| Module | What it is | Proofs |
|---|---|---|
| `DrScan` | abstract: what a data register may rely on from the TAP | |
| `TapController` | `tap_top` flip-flop by flip-flop; implements `DrScan` | `TapController_proofs` |
| `DmiTransaction` | abstract: the life of one DMI request | |
| `DmiDtm` | `dmi_dtm_jtag` over two clocks, with `DrScan` as its environment; implements `DmiTransaction` | `DmiDtm_proofs` |
| `DebugMemory` | abstract: a window into memory with a pointer | |
| `WishboneDebugMaster` | `wishbone_debug_master` between a transport and a slow slave; implements `DebugMemory` | `WishboneDebugMaster_proofs` |
| `CoreDebug` | `core_debug_0` between a transport and the core | `StopControl_proofs` |
| `StopControl` | extends `CoreDebug` with the front end of the pipeline | `StopControl_proofs` |
| `WishboneArbiter` | `wishbone_arbiter_4` with its masters and a pipelined slave | `WishboneArbiter_proofs` |
| `ReceiveQueue` | abstract: a bounded queue of characters with a ready flag | |
| `UartReceive` | `uart_rfifo` and the receive registers and interrupts of `uart_regs`; implements `ReceiveQueue` | `UartReceive_proofs` |
| `OdbDesign` | a design in OpenDB and the calls the scripts make on it | lemmas in the two below |
| `ClickOdb` | `reader.py`: one run after the other on the same files, each of which may fail or be killed | |
| `ApplyTemplate` | the flow step and `apply_def_template.py`, with the loops of `relocate_pins` | `ApplyTemplate_proofs` |
| `DefUtil`, `DefUtilOl2` | what one turn of each command's loop does to the design, in either script | |
| `DefUtilScripts` | composes `ClickOdb` with the commands of both scripts | `DefUtilScripts_proofs` |
| `MC*` | instances for TLC | |

Operators named `Bug_*` stand before the definition they vary. They are
plausible mistakes in the code (a dropped guard, a wrong edge); no
specification uses them. `PROJECT.json` pairs each with a property that does
not hold when it takes the place of the original.

### TapController (`tap_top.v`)

`tap` is the *set of flip-flops that are high*, so that one-hotness is a
property and not a modelling choice. `SetByOne` and `SetByZero` say which
flip-flops feed which (the equations of lines 228-453); `SetBy` adds
the five-ones detector that overrides them all. `TckRise` moves `tap`, the TMS
history `q`, `jtag_ir` and `latched_jtag_ir` together, as one edge of TCK does;
`TckFall` takes the falling-edge copies that steer TDO; `Trst` resets what the
code resets and leaves the TMS history and the falling-edge copies alone.
Shifting through the instruction register is abstracted to "any instruction",
since the host chooses the bits. The registers `idcode_reg` and `bypass_reg`
carry no control and are left out.

`ImplementsDrScan` maps the flip-flops to the strobe the data register sees
(`dr`) and to `debug_select` (`sel`).

### DmiDtm (`dmi_dtm_jtag`)

One action per clock: `JtagEdge` (capture, shift, update and completion in one
process, as in the code), `SysEdge`, `SysEdgeIntoReset` (the registered system
reset rises; it clears the TCK-side registers at once and the request
synchroniser edge by edge), and `Trst`. The acknowledge synchroniser is reset
by TRST only. In Shift-DR the scan register holds any frame. The DMI slave is
any slave that answers once and holds its answer until the request goes;
`AddressMoves` covers the decode in `soc`, which routes the acknowledge by the
address combinationally. This environment has two exceptions in the code: a read of a
general purpose register is never answered (section 5), and a core
reset during the read of a special purpose register drops the acknowledge
early (`CoreDebug`, hazard list). Which address selects which slave is not
modelled.

History variables: `told`, the response this scan captured, and `torn`, that
TRST cut a request the system side had seen. While `torn` holds, the link is
"lost" in `DmiTransaction`: the code really gives no guarantee until every
stage of the handshake has been low.

### WishboneDebugMaster (`wishbone_debug_master`)

One step is one system clock. `Registers`, `Latch` and `Machine`
(`Starts`, `Waits`, `Finishes`, one for each `state`) are the clocked
processes; the slave may stall, perform and acknowledge in any order the bus
allows, after any delay, and a combinational acknowledge is included.
`TransportMoves` is what `DmiDtm` does to the request lines. `CpuWrite` is the
processor's own store to the same memory; `Reset` the system reset. The
pointer wraps at `AddrSpace`, and `WordAt` drops the bits that `wb_out.adr`
does not carry. Byte selects are left out.

`Window` maps the state to `DebugMemory`: the operation takes effect in the
clock in which the slave performs it (or a register is written), and the
pointer counts as moved from that instant, although `reg_addr` moves up to two
edges later; that nobody can see the difference is what the refinement shows.

### CoreDebug (`core_debug_0`)

`RunControl`, `ReadPort` and `LogPort` are the three groups of registers of the
module's process; `dmi_req_1` detects the first edge of a request and is
*frozen*, not cleared, by the core reset. `CoreReset` is syscon's pulse of one
edge; `SystemReset` lasts and empties the transport; `Trst` tears the request
away. The unit behind a special purpose register (execute1 or loadstore1)
answers in its own time and lets go one edge after it is asked no more; the
unit behind a general purpose register never answers, because
`register_file` of this build ties `dbg_gpr_ack` low. `LowEdges` is how long the
request line stays low between two requests: two, the depth of the transport's
synchroniser. With one, neither `WritesActOnce` nor `LogReadsInOrder` nor
`AnswerIsFresh` would hold:
`core_debug` is correct because of the synchroniser in front of it.
The trigger register is left out (its trigger input is tied low), and so are
the values of NIA, MSR and the log.

### StopControl

`StopControl` extends `CoreDebug`, on the same clock: `CoreInit`, `CoreNext` and
`CoreSpec` are those of both, `Init`, `Next` and `Spec` those of the debug registers,
and a step of the first is one of the second (theorem `CoreImplementsDebug`).
It adds the pipeline as slots (`"insn"`, `"mark"`, `"bubble"`): `fetch1` sends a stop mark in place
of a request while `core_stop`; the icache hands marks on, and an instruction
if it hits; decode2 may hold an instruction that cannot issue; control counts
what is in flight and reports `stopped_out` when a mark has reached it and the
instruction issued last has completed (a mark passes only through an empty
`serial_stall`). `Flow` is an ordinary edge, `Flush` an edge on which an
instruction redirects the core, `Clear` an edge in reset. `inflight` stands
for the tag counters; completion is in order. Left out: fetch faults, branches
predicted in decode1, two-part instructions, TRST and the system reset.

### WishboneArbiter (`wishbone_arbiter_4`)

`selected` is the module's only register; `busy`, `candidate` and `effective`
are its combinational part. The masters are modelled as what they are to the
arbiter: bursts of strobes that are pipelined ahead of their acknowledges
(the reload of the icache is the model), a cycle that ends with the last
acknowledge. The slave is a queue of accesses taken and not answered.
`CoreReset` drops the cycles of the caches but not the accesses in the slave.

### UartReceive (`uart_rfifo`, `uart_regs`, `uart_wb`)

One step is one clock of the system. `Fifo` is the `case` over push and pop:
`Push`, `Pop`, `PushPop` and `FifoReset` are its branches, and the memory is
written on every push, guarded or not, as in the code. `DataReady`,
`TimeoutCounter` and `Interrupts` are the registers around it, with their delayed copies
(`rda_int_d`, `lsr0_d`), because a cause counts when it *rises*. A read takes effect on the FIFO one
clock after the bus performs it (`rf_pop`), and the bus interface takes an
access in one clock and then none for three (`wbstate`). The receiver is a
pulse of one clock with any character, good or bad, at least `CharTime` ticks
after the one before; that is one at least, for a character has ten bits. `Tick(enable)` has the bit clock's enable pulse as a parameter.

`Queue` maps the ring of slots to a sequence and `lsr0r` to `ready`.
`ReceiveQueue` has two actions a user would not expect, `Overrun` and `Vanish`:
they state what the code does, and section 5 lists them.

Left out: DLAB, the bits of LSR except data ready and the error summary, the overrun
register, the line status, transmitter and modem interrupts, the transmitter,
and the state machine that samples the line.

### ClickOdb, OdbDesign (`reader.py`)

OpenDB is not part of the repository. `OdbDesign` says what the scripts rely on:
nets, pins and instances under their names, a net name that may occur twice
(`dbNet.create` with its check skipped), boxes on a pin as a bag, `rename`
that fails when the name is taken. `ClickOdb` is a run: `Launch`, `OpenDb`
(or `RefuseDef`, for an input that is not a database), the command, `WriteDef`,
`WriteDb`. `End` is a run that fails, `Kill` a process killed anywhere; each
file write is atomic. `before` is the history variable for the files as the
run found them. Runs follow each other on the same files.

### ApplyTemplate (`__init__.py`, `apply_def_template.py`, `defutil.py`)

`CommandFails` are the two configurations for which `get_command` or `click`
stops before the script. `ReadTemplate` is the assert and the table of
template locations; `CreatePin` one turn of the loop over the requested names;
`PlaceBox` one turn of the loops over pins and boxes, in any order, since the
database does not promise one; `PinsPlaced` the exit on grid errors;
`MoveDieArea` the second function. A template's grid and units are those of the
LEF on the command line, and a location has its boxes as a set. `output_def` is
always given, as the flow step and the option's default do.

### DefUtil, DefUtilOl2, DefUtilScripts (`defutil.py`, `defutil_ol2.py`)

The two scripts have the same commands under other option names; each has its
operators, with its own lines. `Call` is what click passes (`Supplied`), the
errors the commands raise first, and the list of objects they go over; a turn
handles one of them. Regular expressions are given by the set of names they
match; names are sequences of pieces, so that a prefix can be replaced
everywhere in a name as `str.replace` does. `BoxesInDbu` is `int(x * dbu)` on
floats: truncation towards zero, and possibly one unit less where the product
is a whole number. Obstructions come in by the long option: `-O` is declared
twice (`defutil.py:428`, `reader.py:98`) and which of the two gets it is decided by click.
Instances that a merge creates keep the master of the donor by name; that
this master belongs to another database is not modelled.

## 3. The runs

Each `pass` run is exhaustive for its instance.

| Run | Instance | What it shows |
|---|---|---|
| `tap` | no parameters | one state at a time; the five-ones detector only confirms what the walk does by itself; TDO steering; implements `DrScan` |
| `tap_reset_state` | same as `tap` | a counterexample: Test-Logic-Reset with another instruction than IDCODE in force (section 6) |
| `dtm` | 2 addresses, 2 data words | one wave in the handshake, held request, announced drops, implements `DmiTransaction`, every request served |
| `arbiter` | 4 masters (2 of the core), bursts of 2, slave depth 2 | answers reach their owners; no master waits for lower ones |
| `debug_master` | 2 words of 2 bytes, 6 pointer values, steps 1 and 2, 2 data values | implements `DebugMemory`; acknowledge after effect; bus cycle stable; every request answered if the bus is granted |
| `core_debug` | all registers, 5 combinations of CTRL bits | commands act once; log in order; no stale acknowledge; every request answered but those that cannot be |
| `stop` | CTRL and STAT, 4 combinations, 2 instructions in flight | what `stopped` means; steps; stop reached |
| `uart` | 2 slots, triggers 1 and 2, 2 data values, timeout of 3 ticks, 2 ticks a character | implements `ReceiveQueue`; waiting characters are announced |
| `uart_error_bit` | same as `uart` | a counterexample: the error bit up with no bad character in the FIFO (section 6) |
| `apply_template` | 2 databases, a DEF, 5 templates, 5 lists of pins, on the grid and with no grid; 2 runs | files hold the template applied, or what they held; nothing off the grid; database last |
| `defutil` | one chip, one donor, every command of both scripts; 2 runs | what removal spares, merging keeps and renaming does not lose; one box for each obstruction asked for, near its place, and no other; designs hang together |
| `power_pins` | same as `apply_template` | a counterexample: a power pin that was to be ignored is placed again (section 6) |

**Why the bounds are enough.** The TAP has no bound. Two addresses and two
data words distinguish a request from the one before it and an answer from
the request's data; the control of the transport does not look at either, and
the proofs cover every `Addr` and `Data`. The pointer space of six makes it wrap
(3 words) and alias (2 bus words), and the two steps leave a word or stay in
it. Bursts of two and a depth of two make a strobe overlap an unanswered one;
the proofs cover every size. The log address is the real one (two bits move).
The CTRL combinations are each bit alone and those in which one bit overrides
another. `MaxInflight` = 2 lets one instruction wait for another in decode2 and
one complete as another issues; the hardware has four tags. Two slots make the
receive FIFO empty, full, wrapped and left with one, and the two triggers are
the level that is its depth and the one that is not; `Timeout` exceeds
`CharTime` as in the hardware (four characters against one), so the timeout fires only when the line is silent. Four slots
give no new kind of state and take longer than five minutes. `MaxRuns` = 2 is
what a re-run after a failure or a kill takes, and lets a command meet what
another has left. The chip of `defutil` is made so that two instances come to
one name in either order of renames, a name vanishes and comes back,
and nets with an instance, with a pin as well, with neither and, after a first command,
with a pin only are removed. The templates
are one for each way a run can end.

History variables are bounded where they count: `acts` saturates at 2 (one is
right, two is wrong), `owed` at `MaxOwed` = 3 in `StopControl`, `low` at `LowEdges`.

**Fairness.** Clocks run: weak fairness of the clock action of each module.
`DmiDtm` also assumes that the slave answers; `CoreDebug` that a unit asked for
a special purpose register does (the pipeline gives debug reads a turn
between two instructions);
`WishboneArbiter` that the slave takes strobes and acknowledges, and
`WishboneDebugMaster` that it acknowledges what it has taken (SRAM and registers do so in
a fixed number of clocks);
`UartReceive` that ticks of the bit clock go on (`WF_vars(Tick(TRUE))`: its divider
runs by itself);
`StopControl` that execute takes what it is given and instructions complete. No fairness is assumed of the host:
`RequestIsServed` holds if the host returns to DEBUG again and again, and
says so. No fairness keeps the caches from starving the debug
master: the priority of `wishbone_arbiter_4` is fixed, with the debug master
last (`microwatt_uart.v:92767`-`92770`). So `LowPriorityYields` promises only that
nobody waits for a master of lower priority, and `RequestIsAnswered` of the debug
master is conditional: `Serve`, the fair action, is a clock with no strobe on the bus, and the
property supposes that no strobe stays up for ever (`[]<>~stb`). Without that it
does not hold. `ClickOdb` has no fairness: its properties are safety. The deadlock
check is off in the runs of the layout tool (`apply_template`, `defutil`, `power_pins`),
whose behaviours end after `MaxRuns` runs, and on everywhere else.

## 4. The proofs

All are safety theorems of `Spec`, for every value of the constants that meets the
modules' assumptions (`ConstantsAssumption` of each hardware module,
`NoneAssumption`, `ConfigsAssumption`, `DisksAssumption`, `PathsAssumption`,
`MaxRunsAssumption`, `InvocationsAssumption`; `TLC` evaluates them in the runs). The prover cannot do induction over data or
recursive operators either; no module needs them.

- **TapController_proofs.** `TypeCorrect`; `AlwaysOneHot`: for a single high
  flip-flop and each value of TMS exactly one flip-flop's equation is true
  (`OneSuccessor`). `AlwaysFiveOnesOnlyConfirms` is not inductive by itself:
  the strengthening `OnesInv` says, for each number of ones in the TMS history,
  which states the walk can be in; after four of them the next state is
  Test-Logic-Reset in any case. `TapImplementsDrScan`: each rising edge maps to a `DrScan`
  edge, TRST to its reset, the falling edge to a stutter; it needs the two
  invariants, since the detector would otherwise cut a scan short.
  `TdoAlwaysSelected` adds `SteerInv`: the falling-edge copies are right in the
  low half of TCK in every state but Test-Logic-Reset, which TRST may have just
  forced, and no edge from there leads to Shift-DR.
- **DmiDtm_proofs.** `AlwaysOneWave`: `HandshakeIsOneWave` was found to be
  inductive together with types; its third disjunct (`StaleAck`) is the one
  pattern the system reset adds. `RequestIsHeld` follows: while the system
  side sees the request the transport is busy (`NoPostWhileSeen`).
  `DropsAreAnnounced` adds `AnnouncedInv`: in a scan that was told the transport
  is free nothing can make it busy but the acknowledge that a system reset
  has left in the first synchroniser stage, and that one has passed before Update-DR, because a
  scan takes two edges from Capture-DR to there.
  `DtmImplementsTransaction`: one lemma for each action, by the phase of
  the transaction before and after it.
- **StopControl_proofs.** For any registers used and any commands, and with the
  hypothesis `LowEdges >= 2` (the two stages of the transport's synchroniser; for
  `LowEdges` = 1 the three theorems about the debug registers are false, as TLC
  shows). These rest on `LineInv`: when the next request may
  come, the line has been seen low on one edge that was not frozen by a reset,
  because the core reset lasts one edge. `WritesAlwaysActOnce` adds `ActsInv`
  (a standing write has acted if and only if `dmi_req_1` has seen it);
  `LogReadsAlwaysInOrder` adds `StageInv` and `CursorInv`, which follow the two
  stages of the end-of-read detector and the one increment that is under way
  between the withdrawal of a read and the edge that sees it;
  `AnswersAreFresh` needs `LineInv` only.
  `CoreImplementsDebug` carries all of this over to the core with its pipeline.
  `StoppedAlwaysEmpty`, for any number of instructions in flight, is where the
  front end and the transport meet. Its proof uses `LowEdges >= 2` as well, although TLC
  finds no counterexample for one. A command may
  let an instruction in up to two edges after its request has risen; `CommandInv`
  bounds that against the edges the line has been low, `SettledInv` concludes that
  while a request for STAT stands with the core stopped by a command, fetch1 drives
  a mark. Given that, `StoppedTwice` is about the back end: if `stopped_out` is up on
  two edges, an instruction that decode2 held would have issued on the first and
  stood in the way on the second. One edge proves nothing, as section 5 says.
  `StepsAlwaysRunOneEach` counts: `OwedInv` says that the instructions on their way and
  the step about to be taken (`Tokens`) are no more than the steps owed. `owed`
  saturates at three, and the last part of `OwedInv` is why that loses none: two
  instructions stand side by side only where nothing is held, waits for execute or
  is fetched behind them, so that there are never more than three tokens, and the
  bound that keeps the runs finite weakens nothing. The pipeline's own types
  (`PipelineTypeCorrect`) supply that what waits or completes is counted in flight.
- **WishboneArbiter_proofs.** `AnswersAlwaysOwners`: inductive together with
  types, one lemma for the clock edge (`ClockKeepsOwners`) that is split
  by whether the bus changes hands and whether an access is taken or
  answered. `NeverHandedOverMidCycle` follows from the definition of
  `effective` and needs the type invariant only. `SmallestMaster` is the
  well-foundedness argument behind the priority.

- **WishboneDebugMaster_proofs.** `AckAlwaysMeansDone` and `BusCycleIsHeld` rest on
  `IInv` = types, `CycleInv` (outside state 1 the bus is free; in it the strobe
  is up exactly until the slave has the access) and `RequestInv` (while nothing
  was torn away, a cycle belongs to the data request that is up, and `served`
  says whether the slave has performed it). `MasterImplementsMemory` adds
  `WindowInv`: the access in the slave is the one the request asks for, and a
  register that was written holds what the request still carries, so that
  writing it on every edge of a standing request changes nothing. One lemma for
  each kind of edge (`IdleEdge`, `RegisterAccess`, `CycleStarts`, `CycleGoesOn`,
  `ServedEdge`, `TornEdge`) shows which step of the window it is; the increment
  after the acknowledge is a stutter because the mapped pointer moved with the
  access.
- **UartReceive_proofs.** For a FIFO of any depth. `RingMoves` says what a write, a
  read and both at once do to pointers and count, and `Wraps` that a position counted
  from a slot wraps once at most; `TypeCorrect` follows (the reset trigger level exists
  because the levels are a bounded set, `HighestTrigger`). For the refinement
  `ReceivesAsAQueue`, `SlotsOfRing` and `WriteSlot` say where the j-th character lies before
  and after a read and where a write goes: behind the last one, or, with the FIFO
  full, over the first. One lemma for each branch of the code's `case` gives the new
  contents (`PushAppends`, `OverrunHitsFirst`, `PopTakesFirst`, `PushPopExchanges`).
  The flag needs `ReadyInv`: ready is up while there is any, and the edge detector of
  a first character is down again by the time the next one can arrive. The second
  part fails for characters of no length, which is why `CharTime` is not zero.
- **ApplyTemplate_proofs.** `TypeCorrect` and the rest use `FilesInv` (what the
  files are at each point of a run) and one invariant for each loop: `ReadInv`,
  `CreateInv` and `PlaceInv` say what the loops have done to the design so far,
  in terms of what was read, the names handled and the boxes placed, for any order.
  `WrittenAlwaysApplied` is their end (`PlaceInv` is the exact account: each box
  of the template is added to what the pin had; the property leaves open the two points
  on which code and texts disagree); `NeverNewOffGrid` adds `GridInv` (a box
  off the grid that was not read is in the design only with the flag up, and
  past the exit the flag is down). `DatabaseWrittenLast`
  needs `FilesInv` alone.
- **DefUtilScripts_proofs.** `MainInv` = types and files (`BaseInv`), what the
  loop has left to do (`TodoInv`), and `NetsInv`, `MergeInv`, `RenameInv` and `ObsInv`, which describe the design in the
  middle of four commands: what has been handled is done, the rest is as it was read. `RenamesLoseNothing` is the subtle one:
  `RenameInv` says that the names still to do hold what was read under them,
  that every name done is found under its new name or its old one, and not
  among those to do, and that the number of instances has not changed: a rename moves
  one name to a free one or, if it is taken, changes nothing.
  `ObstructionsAlwaysAsAsked`: in the middle of the loop the boxes beyond those that
  were read are one for each obstruction passed, each at most one unit from its place
  in each coordinate whichever way the product was rounded (`InDbuIsNear`), and no
  others (`AddedFor`, a statement about bags that one more obstruction extends by one).
  The lemmas about the calls of `OdbDesign` (each keeps a consistent design
  consistent) stand in this module and in `ApplyTemplate_proofs`, where they are used.

`NeverHandedOverMidCycle` has no run: it follows from the combinational
selection in a few steps, and the answers that a handover would misroute are
what the run `arbiter` looks at.

Every invariant, action property and refinement that a `pass` run checks is stated
by a theorem. Model-checked only: the liveness properties (`RequestIsServed`,
`RequestIsAnswered` of both modules, `StopIsReached`, `LowPriorityYields`,
`WaitingIsAnnounced`), since liveness under fairness and ENABLED are out of the
proof system's reach, and the three counterexamples.

## 5. What the models say about the code

Points a user of the debugger should know; each is stated in a property or
excepted in one by name.

- A read of a general purpose register through GSPR is never acknowledged in
  this build (`dbg_gpr_ack` is tied low); the transport stays busy until TRST.
- A core reset during a special purpose read may leave it unanswered likewise.
- `stopped` can be up for one edge while decode2 still holds an instruction;
  `StoppedIsEmpty` therefore asks for two edges in a row.
- A step executes one instruction at most; it executes none if its only
  fetch misses the icache or meets a stall.
- A core reset leaves the accesses of the caches in the slaves; their answers
  reach whoever has the bus next (`orphaned`).
- A host that repeats a request answered "busy" may perform it twice, because
  the transport may have become free between capture and update.

Of the UART:

- An arrival at a full FIFO overwrites the data of the *oldest* character
  (`uart_rfifo.v:193`): the memory write has no guard, and the write pointer is
  the read pointer then.
- An arrival in the clock in which an empty FIFO is read is lost, both pointers
  step over it, and data ready stays up with nothing to read.
- A read in the clock of an arrival leaves the error bits of the slot it read
  (section 6); the line status register latches the error indication on its
  rise, so a later bad character is not reported while it stays up, and bad
  characters that follow each other make one report.
- A read at the trigger level clears the pending interrupt
  (`uart_regs.v:807`); an arrival in the clock of the removal keeps the count at the level, the cause does not
  rise again, and only the timeout tells the processor. `WaitingIsAnnounced`
  holds because of it.
- An overrun in, or just before, the clock of a read of the line status
  register is not reported. (Read in the code; the overrun register is not in the model.)

Of the layout tool:

- `relocate_pins` is documented to *move* pins (`defutil.py:316`); it adds the template's
  boxes and keeps those a pin has. Applied twice to its own output it puts each box
  there twice. `WrittenIsApplied` takes no side: a placed pin has the
  template's boxes, and of those it had any.
- A requested pin that exists gets a second net of its name, with nothing on it.
- The warning that a power or ground pin "will be ignored"
  (`defutil.py:153`-`157`) is not acted on: the pin is relocated like any other
  (section 6).
- The registered command `relocate_pins` cannot be called: `relocate_pins_command`
  (`defutil.py:326`) passes three arguments to a function that takes four since the flow
  step asks for pins by name (`defutil.py:127`). Every call ends in a TypeError
  and writes nothing (`TypeErrors` of `DefUtilScripts`; the run `defutil` takes it).
  The flow step calls the function itself and is not affected.
- A run that fails writes nothing; a run killed between its writes has replaced
  the DEF only.
- `relocate_pins`, `move_diearea` and `merge_components` of `defutil_ol2.py`
  ask for `input_lefs`, which `click_odb` does not supply, and
  `move_diearea_command` is registered nowhere.

## 6. Disagreement between code and comments

`tap_top.v:223` heads the state machine "Fully JTAG compliant" and line 555
says "IDCODE selected after reset". The state Test-Logic-Reset does not select
IDCODE: only TRST and the *fifth* consecutive TMS one do. From Run-Test/Idle three
ones lead to Test-Logic-Reset, and the instruction in force stays in force
there. Run `tap_reset_state` shows the walk. (The debug path is not
affected: `ImplementsDrScan` holds.)

`relocate_pins` prints of every power or ground pin it finds in the design
"[WARNING] Bterm ... is declared as a ... pin. It will be ignored." (`defutil.py:153`-`157`). The
pin is only left out of `all_bterm_names`, a set whose size is printed and
which nothing else reads; the loop that places pins goes over all of them
(`defutil.py:228`-`233`). Run `power_pins` shows the common way there: the first run
of the step makes a power pin the template asks for, the second one reads the
database it has written, warns that the pin will be ignored, and places each of
its boxes a second time.

`uart_receiver.v:231` comments the error signal "an error (parity or framing) is
inside the fifo". A read in the clock of an arrival (`uart_rfifo.v:261`) leaves
the error bits of the slot it emptied, so the signal stays up with no such
character in the FIFO until the slot is written again. Run `uart_error_bit`
shows the clocks for an empty FIFO, where the bad character itself is lost.

## 7. Not modelled

- The processor's back end and the values it computes; wrappers, macros and
  layout data (no behaviour of their own); GPIO (registers that return what was
  written); the timer (the shuttle template's example); firmware and test
  benches (directed simulations).
- Of the layout scripts: `extract_core_dims` (prints two numbers), the three
  functions of `defutil_ol2.py` and the one of `defutil.py` that no command
  line reaches (section 5), and the masters of merged instances, which belong
  to OpenDB. `setup-cocotb.py` downloads and unpacks test files, `docs/source/conf.py`
  sets variables: neither has a state to get wrong.
- Of the UART: the transmitter, the sampling of the line, the divisor latch and
  the other interrupts (section 2).
- Of the debugger: the trigger register (its input is tied low), byte selects
  of the debug master, the DMI decode beyond the address moving with the
  acknowledge.
- USB host, SPI flash, XICS, syscon, the bus slaves: planned, below.

## 8. What is left of the plan

1. Proofs: the bounded parts of the liveness arguments (for instance how many
   edges a mark takes through an idle pipeline), as invariants.
2. `BusSlaves`: `wishbone_bram_wrapper` and the slave-io bridge behind the slave
   decode; abstract specification: one answer for each strobe, in order;
   dropped cycles.
3. `UsbHost`, `UsbSie`, `UsbFifo`: transfer start and SOF scheduling, response
   timeout, handshakes, FIFO with flush.
4. `UartTransmit` and the remaining interrupts: pending interrupts against
   reads of IIR.
5. `Xics`: pending priority, the current priority, the EOI protocol.
6. `SpiFlash`: command and automatic mode, the one-entry stash, `auto_state`.
7. `Syscon`: reset bits that clear themselves, registered resets.
8. Composition of `DmiDtm` with `CoreDebug`, across the core reset, to replace
   the assumption on the slave.
