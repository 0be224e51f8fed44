----------------------------- MODULE DebugMemory -----------------------------
(***************************************************************************)
(* What the debug master promises the host: a window into memory with an   *)
(* address pointer.  The host asks for one operation at a time; each takes *)
(* effect exactly once, in one instant between the request and its         *)
(* withdrawal, and the answer the host reads is the one of that instant.   *)
(* An access to the data register touches the word under the pointer and   *)
(* then moves the pointer by the programmed step.                          *)
(*                                                                         *)
(* The memory also changes without the host, and a request torn away from  *)
(* under the debug master (by TRST) leaves it "lost": until it has come to *)
(* rest nothing is promised about the pointer, the mode or the answers.    *)
(***************************************************************************)
EXTENDS Naturals

CONSTANTS
  Pointers,     \* values of the address pointer
  Modes,        \* values of the control register
  Words,        \* word addresses of the memory
  Data,         \* contents of a word
  Requests,     \* operations the host may ask for
  Pointer0, Mode0,
  None,         \* no request, no answer
  WordAt(_),    \* the word a pointer points into
  Moved(_, _)   \* the pointer after an access, in a mode

ADDR == 0
DATA == 1
CTRL == 2

VARIABLES mem, ptr, mode, phase, request, answer

memVars == <<mem, ptr, mode, phase, request, answer>>

Answers == Pointers \cup Modes \cup Data \cup {None}

Init ==
  /\ mem \in [Words -> Data]
  /\ ptr = Pointer0
  /\ mode = Mode0
  /\ phase = "idle"
  /\ request = None
  /\ answer = None

Ask ==
  /\ phase = "idle"
  /\ phase' = "asked"
  /\ request' \in Requests
  /\ UNCHANGED <<mem, ptr, mode, answer>>

\* The one instant at which the operation takes effect.
Perform ==
  /\ phase = "asked"
  /\ phase' = "done"
  /\ UNCHANGED request
  /\ CASE request.reg = ADDR ->
            /\ ptr' = IF request.wr THEN request.value ELSE ptr
            /\ answer' = IF request.wr THEN None ELSE ptr
            /\ UNCHANGED <<mem, mode>>
       [] request.reg = DATA ->
            /\ mem' = IF request.wr THEN [mem EXCEPT ![WordAt(ptr)] = request.value] ELSE mem
            /\ answer' = IF request.wr THEN None ELSE mem[WordAt(ptr)]
            /\ ptr' = Moved(ptr, mode)
            /\ UNCHANGED mode
       [] request.reg = CTRL ->
            /\ mode' = IF request.wr THEN request.value ELSE mode
            /\ answer' = IF request.wr THEN None ELSE mode
            /\ UNCHANGED <<mem, ptr>>
       [] OTHER -> answer' = None /\ UNCHANGED <<mem, ptr, mode>>

Withdraw ==
  /\ phase = "done"
  /\ phase' = "idle"
  /\ request' = None
  /\ answer' = None
  /\ UNCHANGED <<mem, ptr, mode>>

\* The processor writes to memory.
OtherWrite ==
  /\ \E w \in Words, d \in Data : mem' = [mem EXCEPT ![w] = d]
  /\ UNCHANGED <<ptr, mode, phase, request, answer>>

Tear ==
  /\ phase' = "lost"
  /\ request' = None
  /\ answer' = None
  /\ UNCHANGED mem
  /\ ptr' \in Pointers
  /\ mode' \in Modes

Stray ==
  /\ phase = "lost"
  /\ phase' \in {"lost", "idle"}
  /\ \/ UNCHANGED mem
     \/ \E w \in Words, d \in Data : mem' = [mem EXCEPT ![w] = d]
  /\ ptr' \in Pointers
  /\ mode' \in Modes
  /\ UNCHANGED <<request, answer>>

Reset ==
  /\ ptr' = Pointer0
  /\ mode' = Mode0
  /\ phase' = "idle"
  /\ request' = None
  /\ answer' = None
  /\ UNCHANGED mem

Next == Ask \/ Perform \/ Withdraw \/ OtherWrite \/ Tear \/ Stray \/ Reset

Spec == Init /\ [][Next]_memVars
=============================================================================
