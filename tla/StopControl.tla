----------------------------- MODULE StopControl -----------------------------
(***************************************************************************)
(* How the core stops, starts and steps: the debug registers (CoreDebug)   *)
(* and the front end of the pipeline they act on, on one clock.            *)
(*                                                                         *)
(*   core_stop -> fetch1 -> icache -> decode1 -> decode2/control -> back   *)
(*                                                  end, writeback         *)
(*                                                                         *)
(* A stopped fetch1 sends stop marks in place of requests.  They follow    *)
(* the last instructions down the pipeline, and control reports the core   *)
(* stopped when one has reached it and the instruction it issued last has  *)
(* completed.                                                              *)
(*                                                                         *)
(* The icache hits or misses, execute is busy, operands are ready, and     *)
(* instructions complete (in order), redirect the core or turn out to be   *)
(* attn, all as they like.  Left out: fetch faults, branches predicted in  *)
(* decode1, instructions that issue in two parts, and the resets that tear  *)
(* a request away (TRST and the system reset).                             *)
(***************************************************************************)
EXTENDS CoreDebug

CONSTANT MaxInflight   \* bound on the instructions issued, not completed

ASSUME InflightAssumption == MaxInflight \in Nat \ {0}

VARIABLES
  pipe_rst,                \* reset of the pipeline
  fetch,                   \* what fetch1 drives
  icache, decode1,         \* what these stages hold for the next one
  held,                    \* decode2 holds an instruction that cannot issue yet
  e_valid,                 \* the instruction issued last waits to enter execute
  inflight,                \* instructions issued and not completed
  complete,                \* the oldest of them completes on this edge
  was_stopped,             \* history: stopping and stopped, one edge ago
  armed, owed              \* history: the pipeline has been empty since the
                           \* stop, and the steps that have not issued since

frontVars == <<fetch, icache, decode1>>
backVars  == <<held, e_valid, inflight, complete>>
history   == <<was_stopped, armed, owed>>
coreVars == <<vars, pipe_rst, frontVars, backVars, history>>

\* What travels down the front end: an instruction, a stop mark, or neither.
Slots == {"insn", "mark", "bubble"}

MaxOwed == 3   \* bound on `owed`

CoreInit ==
  /\ Init
  /\ pipe_rst = FALSE
  /\ fetch = "bubble" /\ icache = "bubble" /\ decode1 = "bubble"
  /\ held = FALSE /\ e_valid = FALSE /\ inflight = 0 /\ complete = FALSE
  /\ was_stopped = FALSE /\ armed = FALSE /\ owed = 0

-----------------------------------------------------------------------------
(* The pipeline.                                                            *)

\* Mutants: a completion on every edge; stopped when the mark arrives.
Bug_Left        == inflight - 1
Bug_stopped_out == decode1 = "mark"

Left        == IF complete THEN inflight - 1 ELSE inflight
stopped_out == decode1 = "mark" /\ Left = 0

Deferred(busy) == e_valid /\ busy
Stalls(busy)   == held \/ Deferred(busy)       \* decode1_busy
Issues(busy, ready) ==
  /\ decode1 = "insn" \/ held
  /\ Left = 0 \/ (ready /\ Left < MaxInflight)
  /\ ~Deferred(busy)

\* Mutants: fetch1 sends a second request before it heeds the stop; the icache
\* loses the marks.
Bug_Fetch ==
  fetch' = IF core_stop /\ fetch # "insn" THEN "mark"
           ELSE IF pipe_rst THEN "bubble" ELSE "insn"
Bug_Found(hit) == IF fetch = "insn" /\ hit THEN "insn" ELSE "bubble"

\* fetch1 holds nothing back: a request the icache misses, or cannot hand on,
\* is gone when the stop comes.
Fetch == fetch' = IF core_stop THEN "mark" ELSE IF pipe_rst THEN "bubble" ELSE "insn"

\* What the icache hands on for `fetch`.
Found(hit) == IF fetch = "insn" /\ ~hit THEN "bubble" ELSE fetch

Flow(hit, busy, ready) ==
  /\ IF Stalls(busy) THEN UNCHANGED <<icache, decode1>>
     ELSE icache' = Found(hit) /\ decode1' = icache
  /\ IF Deferred(busy) THEN UNCHANGED <<held, e_valid>>
     ELSE /\ e_valid' = Issues(busy, ready)
          /\ held' = ((decode1 = "insn" \/ held) /\ ~Issues(busy, ready))
  /\ inflight' = IF Issues(busy, ready) THEN Left + 1 ELSE Left
  /\ complete' \in BOOLEAN
  /\ complete' => inflight' > (IF e_valid' THEN 1 ELSE 0)

\* Instructions go, stop marks stay.
Squashed(slot) == IF slot = "insn" THEN "bubble" ELSE slot

\* An instruction redirects the core: everything behind it goes.
Flush(busy) ==
  /\ inflight > (IF e_valid THEN 1 ELSE 0)
  /\ icache' = Squashed(IF Stalls(busy) THEN icache ELSE fetch)
  /\ decode1' = Squashed(decode1)
  /\ held' = FALSE /\ e_valid' = FALSE /\ inflight' = 0 /\ complete' = FALSE

Clear ==
  /\ icache' \in {Squashed(icache), Squashed(fetch)}
  /\ decode1' = "bubble"
  /\ held' = FALSE /\ e_valid' = FALSE /\ inflight' = 0 /\ complete' = FALSE

Pipeline(hit, busy, ready) ==
  /\ Fetch
  /\ IF pipe_rst THEN Clear ELSE Flow(hit, busy, ready) \/ Flush(busy)
  /\ pipe_rst' = (do_reset \/ rst' # "no")

Empty == fetch # "insn" /\ icache # "insn" /\ decode1 # "insn" /\ ~held /\ inflight = 0

\* A step whose instruction has not issued by the time all is quiet is lost.
StillOwed == IF Empty /\ ~do_step THEN 0 ELSE owed
Counted(new, paid) == IF new /\ ~paid THEN (IF StillOwed < MaxOwed THEN StillOwed + 1 ELSE MaxOwed)
                      ELSE IF paid /\ ~new /\ StillOwed > 0 THEN StillOwed - 1 ELSE StillOwed

CoreHistories ==
  /\ was_stopped' = (stopping /\ stopped_out)
  /\ armed' = (stopping' /\ ~pipe_rst /\ (armed \/ (stopping /\ Empty /\ ~do_step)))
  /\ owed' = IF armed' THEN Counted(do_step', inflight' > Left) ELSE 0

-----------------------------------------------------------------------------
(* One clock edge of both.                                                  *)

\* Each input ranges over both its values when it matters.
Choice(matters) == IF matters THEN BOOLEAN ELSE {TRUE}

Core == /\ \E hit \in Choice(fetch = "insn"),
             busy \in Choice(e_valid),
             ready \in Choice(Left > 0 /\ (decode1 = "insn" \/ held)) :
             Pipeline(hit, busy, ready)
        /\ CoreHistories

\* attn is executed by an instruction that has issued.
Attn(terminate) == terminate => inflight > 0

Run       == (\E terminate \in BOOLEAN : Attn(terminate) /\ Clock(terminate, FALSE)) /\ Core
ResetRun  == (\E terminate \in BOOLEAN : Attn(terminate) /\ CoreReset(terminate, FALSE)) /\ Core

CoreNext == Run \/ ResetRun

CoreSpec == CoreInit /\ [][CoreNext]_coreVars

\* Execute takes what it is given, operands become ready, and instructions
\* complete.
Progress ==
  /\ \E terminate \in BOOLEAN : Attn(terminate) /\ Clock(terminate, FALSE)
  /\ \E hit \in BOOLEAN : Pipeline(hit, FALSE, TRUE)
  /\ inflight' > (IF e_valid' THEN 1 ELSE 0) => complete'
  /\ CoreHistories

CoreFairSpec == CoreSpec /\ WF_coreVars(Progress)

-----------------------------------------------------------------------------
(* Properties.                                                              *)

\* Type correctness of the pipeline.
PipelineTypeOK ==
  /\ pipe_rst \in BOOLEAN
  /\ fetch \in Slots /\ icache \in Slots /\ decode1 \in Slots
  /\ held \in BOOLEAN /\ e_valid \in BOOLEAN /\ complete \in BOOLEAN
  /\ inflight \in 0..MaxInflight
  /\ (IF complete THEN 1 ELSE 0) + (IF e_valid THEN 1 ELSE 0) <= inflight
  /\ was_stopped \in BOOLEAN /\ armed \in BOOLEAN /\ owed \in 0..MaxOwed

\* What a host may conclude from STAT: if it reads `stopping` and `stopped`,
\* and stopped was up on the edge before as well, no instruction is left
\* anywhere, not even the one a step has just let in.  (On one edge alone it
\* proves less: stopped comes up for a moment when decode2 holds an instruction
\* until the one before it completes.)
StoppedIsEmpty ==
  /\ answered /\ request.addr = "stat"
  /\ stopping /\ ~terminated /\ stopped_out /\ was_stopped
  => Empty

\* Once the core has come to rest, every instruction it issues is owed to a
\* step command, and every step command lets out one at most.
StepsRunOneEach == [][armed /\ armed' /\ inflight' > Left => owed > 0]_coreVars

\* A core told to stop comes to report that it has, or is let go again.
StopIsReached == stopping ~> (stopped_out \/ ~stopping \/ do_step)
=============================================================================
