---------------------- MODULE WishboneDebugMaster_proofs ----------------------
(***************************************************************************)
(* Proofs about the debug master, for any pointer space, word size, bus,   *)
(* data, steps of the autoincrement and requests.                          *)
(***************************************************************************)
EXTENDS WishboneDebugMaster, TLAPS

USE DEF ADDR, DATA, CTRL

-----------------------------------------------------------------------------
(* Facts about data.                                                       *)

LEMMA PointerArithmetic ==
  /\ Pointer0 \in Pointers /\ Mode0 \in Modes
  /\ \A p \in Pointers : WordAt(p) \in Words
  /\ \A p \in Pointers, s \in Sizes : (p + s) % AddrSpace \in Pointers
  /\ \A p \in Pointers, m \in Modes : Moved(p, m) \in Pointers
<1> USE ConstantsAssumption DEF Pointers, Modes, Words
<1>1. Pointer0 \in Pointers /\ Mode0 \in Modes
  BY DEF Pointer0, Mode0
<1>2. \A x \in Nat : x % AddrSpace \in 0..(AddrSpace - 1)
  OBVIOUS
<1>3. \A x \in Nat : x % BusWords \in 0..(BusWords - 1)
  OBVIOUS
<1>4. \A x \in Nat : x \div WordBytes \in Nat
  OBVIOUS
<1>5. \A p \in Pointers : WordAt(p) \in Words
  BY <1>3, <1>4 DEF WordAt
<1>6. \A p \in Pointers, s \in Sizes : (p + s) % AddrSpace \in Pointers
  BY <1>2
<1>7. \A p \in Pointers, m \in Modes : Moved(p, m) \in Pointers
  BY <1>6 DEF Moved
<1> QED
  BY <1>1, <1>5, <1>6, <1>7

(* What a request carries.                                                 *)
LEMMA RequestFacts ==
  ASSUME NEW r \in Requests
  PROVE  /\ r.wr \in BOOLEAN
         /\ r.reg \in {ADDR, DATA, CTRL, 3}
         /\ r.wr /\ r.reg = ADDR => r.value \in Pointers
         /\ r.wr /\ r.reg = DATA => r.value \in Data
         /\ r.wr /\ r.reg = CTRL => r.value \in Modes
<1> DEFINE AddrWrites == [reg : {ADDR}, wr : {TRUE}, value : HostPointers]
           DataWrites == [reg : {DATA}, wr : {TRUE}, value : Data]
           CtrlWrites == [reg : {CTRL}, wr : {TRUE}, value : HostModes]
           OtherWrites == [reg : {3}, wr : {TRUE}, value : {None}]
<1>1. r \in Reads \cup AddrWrites \cup DataWrites \cup CtrlWrites \cup OtherWrites
  BY DEF Requests, Writes
<1>2. r \in Reads => r.wr = FALSE /\ r.reg \in {ADDR, DATA, CTRL, 3}
  BY DEF Reads
<1>3. r \in AddrWrites => r.wr = TRUE /\ r.reg = ADDR /\ r.value \in HostPointers
  OBVIOUS
<1>4. r \in DataWrites => r.wr = TRUE /\ r.reg = DATA /\ r.value \in Data
  OBVIOUS
<1>5. r \in CtrlWrites => r.wr = TRUE /\ r.reg = CTRL /\ r.value \in HostModes
  OBVIOUS
<1>6. r \in OtherWrites => r.wr = TRUE /\ r.reg = 3
  OBVIOUS
<1> HIDE DEF AddrWrites, DataWrites, CtrlWrites, OtherWrites
<1>7. r.wr \in BOOLEAN
  BY <1>1, <1>2, <1>3, <1>4, <1>5, <1>6
<1>8. r.reg \in {ADDR, DATA, CTRL, 3}
  BY <1>1, <1>2, <1>3, <1>4, <1>5, <1>6
<1>9. r.wr /\ r.reg = ADDR => r.value \in Pointers
  BY <1>1, <1>2, <1>3, <1>4, <1>5, <1>6, ConstantsAssumption
<1>10. r.wr /\ r.reg = DATA => r.value \in Data
  BY <1>1, <1>2, <1>3, <1>4, <1>5, <1>6
<1>11. r.wr /\ r.reg = CTRL => r.value \in Modes
  BY <1>1, <1>2, <1>3, <1>4, <1>5, <1>6, ConstantsAssumption
<1> QED
  BY <1>7, <1>8, <1>9, <1>10, <1>11

LEMMA BlankIsRequest == Blank \in Requests
BY DEF Blank, Requests, Reads

-----------------------------------------------------------------------------
(* The bus cycle: the strobe is up until the slave has the access, and the *)
(* slave has it until it answers.                                          *)
CycleInv ==
  /\ state # 1 => ~stb /\ pend = None
  /\ state = 1 => (stb <=> pend = None)
  /\ do_inc => state = 2
  /\ pend # None => pend.value \in Data
  /\ pend # None /\ pend.done /\ ~pend.wr => pend.got \in Data

(* The request, as long as none was torn away: a cycle belongs to the data *)
(* request that is up, and served says whether it has taken effect.        *)
RequestInv ==
  /\ served => dmi_req
  /\ answered /\ ~torn => dmi_req /\ served
  /\ state = 1 /\ ~torn => dmi_req /\ request.reg = DATA
  /\ state = 1 /\ ~torn => (served <=> pend # None /\ pend.done)
  /\ state = 2 /\ dmi_req /\ ~torn => request.reg = DATA /\ served
  /\ state = 0 /\ dmi_req /\ request.reg = DATA /\ ~torn => ~served
  /\ do_inc /\ ~torn => dmi_req /\ reg_ctrl.auto

IInv == TypeOK /\ CycleInv /\ RequestInv

LEMMA InitIInv == Init => IInv
<1> SUFFICES ASSUME Init PROVE IInv
  OBVIOUS
<1>1. TypeOK
  <2>1. request \in Requests /\ reg_addr \in Pointers /\ reg_ctrl \in Modes
    BY PointerArithmetic, BlankIsRequest DEF Init
  <2>2. data_latch \in Data /\ mem \in [Words -> Data] /\ pend = None
    BY DEF Init
  <2>3. state \in 0..2 /\ pend \in Access \cup {None}
    BY DEF Init
  <2>4. {dmi_req, answered, stb, do_inc, served, torn} \subseteq BOOLEAN
    BY DEF Init
  <2> QED
    BY <2>1, <2>2, <2>3, <2>4 DEF TypeOK
<1>2. CycleInv
  BY DEF Init, CycleInv
<1>3. RequestInv
  BY DEF Init, RequestInv
<1> QED
  BY <1>1, <1>2, <1>3 DEF IInv

(* What is in the slave on a clock edge: the access it had, or the one it  *)
(* takes on this edge.                                                     *)
LEMMA ArrivingAccess ==
  ASSUME IInv, NEW stall \in BOOLEAN, NEW access \in Arriving(stall)
  PROVE  /\ access \in Access \cup {None}
         /\ state # 1 => access = None
         /\ access # None /\ access.done => ~Taken(stall)
         /\ access # None => access.value \in Data
         /\ access # None /\ access.done /\ ~access.wr => access.got \in Data
         /\ ~Taken(stall) => access = pend
         /\ Taken(stall) =>
              /\ access # None /\ access.wr = request.wr
              /\ access.word = WordAt(reg_addr) /\ ~access.done
              /\ access.value \in OnBus(request.value)
<1> USE DEF IInv, TypeOK
<1>1. CASE Taken(stall)
  <2>1. /\ access = [wr |-> access.wr, word |-> access.word, value |-> access.value,
                     done |-> access.done, got |-> access.got]
        /\ access.wr = request.wr /\ access.word = WordAt(reg_addr)
        /\ access.value \in OnBus(request.value)
        /\ access.done = FALSE /\ access.got = None
    BY <1>1 DEF Arriving
  <2>2. OnBus(request.value) \subseteq Data
    BY DEF OnBus
  <2>3. access \in Access
    BY <2>1, <2>2, PointerArithmetic, RequestFacts DEF Access
  <2> QED
    BY <1>1, <2>1, <2>2, <2>3, NoneAssumption DEF CycleInv, Taken
<1>2. CASE ~Taken(stall)
  BY <1>2 DEF Arriving, CycleInv
<1> QED
  BY <1>1, <1>2

-----------------------------------------------------------------------------
(* One clock edge.                                                         *)

Edge(stall, perform, ack, access) ==
  /\ SlaveMoves(access, perform, ack)
  /\ Latch(access, ack)
  /\ Registers
  /\ Machine(stall, ack)
  /\ TransportMoves
  /\ answered' = (dmi_ack /\ dmi_req')
  /\ served' = (dmi_req' /\ (served \/ (dmi_req /\ (request.reg # DATA \/ perform))))
  /\ torn' = (torn /\ ~(~dmi_req' /\ state' = 0 /\ ~do_inc' /\ pend' = None))

(* The slave's side of an edge.                                            *)
LEMMA SlaveEdge ==
  ASSUME IInv, NEW access \in Access \cup {None}, NEW perform \in BOOLEAN,
         NEW ack \in BOOLEAN, SlaveMoves(access, perform, ack),
         access # None /\ access.done /\ ~access.wr => access.got \in Data,
         access # None => access.value \in Data
  PROVE  /\ mem' \in [Words -> Data]
         /\ pend' \in Access \cup {None}
         /\ pend' # None => pend'.value \in Data
         /\ pend' # None /\ pend'.done /\ ~pend'.wr => pend'.got \in Data
         /\ access = None => ~perform /\ ~ack /\ pend' = None
         /\ ack => pend' = None
         /\ ~ack /\ access # None => pend' # None
         /\ ~ack /\ access # None => (pend'.done <=> access.done \/ perform)
         /\ perform => access # None /\ ~access.done
         /\ ack => access.done \/ perform
<1>1. perform => Performed(access) = [access EXCEPT !.done = TRUE, !.got = IF access.wr THEN None ELSE mem[access.word]]
  BY DEF Performed
<1>2. access # None => access.word \in Words /\ access.wr \in BOOLEAN
  BY DEF Access
<1>3. mem \in [Words -> Data]
  BY DEF IInv, TypeOK
<1>4. mem' \in [Words -> Data]
  BY <1>2, <1>3 DEF SlaveMoves
<1>5. ASSUME access # None
      PROVE  /\ Performed(access) \in Access
             /\ Performed(access).done
             /\ Performed(access).wr = access.wr
             /\ Performed(access).value = access.value
             /\ ~access.wr => Performed(access).got \in Data
  <2>1. (IF access.wr THEN None ELSE mem[access.word]) \in Data \cup {None}
    BY <1>2, <1>3, <1>5
  <2> DEFINE got == IF access.wr THEN None ELSE mem[access.word]
  <2>2. Performed(access) = [access EXCEPT !.done = TRUE, !.got = got]
    BY DEF Performed
  <2> HIDE DEF got
  <2>3. /\ Performed(access) \in Access
        /\ Performed(access).done = TRUE
        /\ Performed(access).wr = access.wr
        /\ Performed(access).value = access.value
        /\ Performed(access).got = got
    BY <1>5, <2>1, <2>2 DEF Access, got
  <2> QED
    BY <1>2, <1>3, <1>5, <2>3 DEF got
<1>6. CASE access = None
  BY <1>4, <1>6, NoneAssumption DEF SlaveMoves
<1>7. CASE access # None /\ ack
  BY <1>4, <1>7 DEF SlaveMoves
<1>8. CASE access # None /\ ~ack /\ perform
  BY <1>4, <1>5, <1>8, NoneAssumption DEF SlaveMoves
<1>9. CASE access # None /\ ~ack /\ ~perform
  BY <1>4, <1>9 DEF SlaveMoves
<1> QED
  BY <1>6, <1>7, <1>8, <1>9

(* The registers the host sees.                                            *)
LEMMA RegisterEdge ==
  ASSUME IInv, Registers
  PROVE  reg_addr' \in Pointers /\ reg_ctrl' \in Modes
<1> USE DEF IInv, TypeOK
<1>1. request \in Requests /\ reg_addr \in Pointers /\ reg_ctrl \in Modes
  OBVIOUS
<1>2. reg_ctrl.size \in Sizes
  BY <1>1 DEF Modes
<1>3. (reg_addr + reg_ctrl.size) % AddrSpace \in Pointers
  BY <1>1, <1>2, PointerArithmetic
<1>4. RegWrite(ADDR) => request.value \in Pointers
  BY <1>1, RequestFacts DEF RegWrite
<1>5. RegWrite(CTRL) => request.value \in Modes
  BY <1>1, RequestFacts DEF RegWrite
<1>6. reg_addr' \in Pointers
  BY <1>1, <1>3, <1>4 DEF Registers
<1>7. reg_ctrl' \in Modes
  BY <1>1, <1>5 DEF Registers
<1> QED
  BY <1>6, <1>7

(* The state machine.                                                      *)
LEMMA MachineEdge ==
  ASSUME NEW stall \in BOOLEAN, NEW ack \in BOOLEAN, Machine(stall, ack),
         stb \in BOOLEAN, do_inc \in BOOLEAN, reg_ctrl.auto \in BOOLEAN
  PROVE  state' \in 0..2 /\ stb' \in BOOLEAN /\ do_inc' \in BOOLEAN
<1>1. state' \in 0..2
  BY DEF Machine, Starts, Waits, Finishes
<1>2. stb' \in BOOLEAN
  BY Zenon DEF Machine, Starts, Waits, Finishes
<1>3. do_inc' \in BOOLEAN
  BY Zenon DEF Machine, Starts, Waits, Finishes
<1> QED
  BY <1>1, <1>2, <1>3

(* What the slave drives on its data lines is data.                        *)
LEMMA DrivenIsData ==
  ASSUME IInv, NEW access \in Access,
         access.done /\ ~access.wr => access.got \in Data
  PROVE  Driven(access) \subseteq Data
<1>1. access.word \in Words /\ mem \in [Words -> Data]
  BY DEF IInv, TypeOK, Access
<1> QED
  BY <1>1 DEF Driven

(* An edge of the state machine, of the lines and of the history.          *)
LEMMA EdgeKeeps ==
  ASSUME IInv, NEW stall \in BOOLEAN, NEW perform \in BOOLEAN, NEW ack \in BOOLEAN,
         NEW access \in Arriving(stall), Edge(stall, perform, ack, access)
  PROVE  IInv'
<1> USE DEF IInv, TypeOK
<1>1. /\ access \in Access \cup {None}
      /\ state # 1 => access = None
      /\ access # None /\ access.done => ~Taken(stall)
      /\ access # None => access.value \in Data
      /\ access # None /\ access.done /\ ~access.wr => access.got \in Data
      /\ ~Taken(stall) => access = pend
      /\ Taken(stall) =>
              /\ access # None /\ access.wr = request.wr
              /\ access.word = WordAt(reg_addr) /\ ~access.done
              /\ access.value \in OnBus(request.value)
  BY ArrivingAccess
<1>2. /\ mem' \in [Words -> Data]
      /\ pend' \in Access \cup {None}
      /\ pend' # None => pend'.value \in Data
      /\ pend' # None /\ pend'.done /\ ~pend'.wr => pend'.got \in Data
      /\ access = None => ~perform /\ ~ack /\ pend' = None
      /\ ack => pend' = None
      /\ ~ack /\ access # None => pend' # None
      /\ ~ack /\ access # None => (pend'.done <=> access.done \/ perform)
      /\ perform => access # None /\ ~access.done
      /\ ack => access.done \/ perform
  BY <1>1, SlaveEdge DEF Edge
<1>3. reg_addr' \in Pointers /\ reg_ctrl' \in Modes
  BY RegisterEdge DEF Edge
<1>4. dmi_req' \in BOOLEAN /\ request' \in Requests
  BY DEF Edge, TransportMoves, Drift, Hold, Ask, Withdraw
<1>5. /\ dmi_ack \in BOOLEAN /\ answered' \in BOOLEAN /\ served' \in BOOLEAN
      /\ torn' \in BOOLEAN
  BY DEF Edge, dmi_ack
<1>6. state' \in 0..2 /\ stb' \in BOOLEAN /\ do_inc' \in BOOLEAN
  BY MachineEdge DEF Edge, Modes
<1>7. data_latch' \in Data
  <2>1. ASSUME ack PROVE access \in Access
    BY <1>1, <1>2, <2>1
  <2>2. ASSUME ack PROVE Driven(access) \subseteq Data
    <3>1. access \in Access /\ (access.done /\ ~access.wr => access.got \in Data)
      BY <1>1, <2>1, <2>2, NoneAssumption
    <3> QED
      BY <3>1, DrivenIsData
  <2> QED
    BY <2>2 DEF Edge, Latch
<1>8. TypeOK'
  BY <1>2, <1>3, <1>4, <1>5, <1>6, <1>7
<1>9. CycleInv'
  <2>1. /\ pend' # None => pend'.value \in Data
        /\ pend' # None /\ pend'.done /\ ~pend'.wr => pend'.got \in Data
    BY <1>2
  <2>2. /\ state' # 1 => ~stb' /\ pend' = None
        /\ state' = 1 => (stb' <=> pend' = None)
        /\ do_inc' => state' = 2
    <3>1. CASE Starts
      BY <1>1, <1>2, <3>1 DEF Starts, CycleInv
    <3>2. CASE Waits(stall, ack)
      <4>1. CASE Taken(stall)
        BY <1>1, <1>2, <3>2, <4>1 DEF Waits, CycleInv, Taken
      <4>2. CASE ~Taken(stall)
        BY <1>1, <1>2, <3>2, <4>2 DEF Waits, CycleInv, Taken
      <4> QED
        BY <4>1, <4>2
    <3>3. CASE Finishes
      BY <1>1, <1>2, <3>3 DEF Finishes, CycleInv
    <3> QED
      BY <3>1, <3>2, <3>3 DEF Edge, Machine
  <2> QED
    BY <2>1, <2>2 DEF CycleInv
<1>10. RequestInv'
  <2>1. /\ served' = (dmi_req' /\ (served \/ (dmi_req /\ (request.reg # DATA \/ perform))))
        /\ answered' = (dmi_ack /\ dmi_req')
        /\ torn' = (torn /\ ~(~dmi_req' /\ state' = 0 /\ ~do_inc' /\ pend' = None))
    BY DEF Edge
  <2>2. CASE torn
    <3>1. served' => dmi_req'
      BY <2>1
    <3>2. ~torn' => ~dmi_req' /\ state' = 0 /\ ~do_inc'
      BY <2>1, <2>2
    <3>3. ~torn' => ~answered'
      BY <2>1, <3>2
    <3> QED
      BY <3>1, <3>2, <3>3 DEF RequestInv
  <2>3. CASE ~torn
    <3>1. Hold \/ Ask \/ Withdraw
      BY <2>3 DEF Edge, TransportMoves
    <3>2. ~torn'
      BY <2>1, <2>3
    <3>3. dmi_ack <=> dmi_req /\ (request.reg # DATA \/ state = 2)
      BY DEF dmi_ack
    <3>4. CASE Starts
      <4>1. ~perform /\ ~do_inc'
        BY <1>1, <1>2, <3>4 DEF Starts, CycleInv
      <4>2. state = 0 /\ state' = IF dmi_req /\ request.reg = DATA THEN 1 ELSE 0
        BY <3>4 DEF Starts
      <4>3. state' = 1 => pend' = None
        BY <1>1, <1>2, <4>2
      <4>4. CASE Hold
        BY <2>1, <2>3, <3>3, <4>1, <4>2, <4>3, <4>4 DEF RequestInv, Hold
      <4>5. CASE Ask
        BY <2>1, <2>3, <3>3, <4>1, <4>2, <4>3, <4>5 DEF RequestInv, Ask
      <4>6. CASE Withdraw
        BY <2>1, <2>3, <3>3, <4>1, <4>2, <4>3, <4>6 DEF RequestInv, Withdraw
      <4> QED
        BY <3>1, <4>4, <4>5, <4>6
    <3>5. CASE Waits(stall, ack)
      <4>1. /\ state = 1 /\ dmi_req /\ request.reg = DATA
            /\ dmi_req' = dmi_req /\ request' = request
        <5>1. state = 1
          BY <3>5 DEF Waits
        <5>2. dmi_req /\ request.reg = DATA
          BY <2>3, <5>1 DEF RequestInv
        <5>3. ~dmi_ack
          BY <5>1, <5>2 DEF dmi_ack
        <5> QED
          BY <3>1, <5>1, <5>2, <5>3 DEF Hold, Ask, Withdraw
      <4>2. /\ state' = IF ack THEN 2 ELSE 1
            /\ do_inc' = IF ack THEN reg_ctrl.auto ELSE do_inc
            /\ ~do_inc
        BY <3>5, <4>1 DEF Waits, CycleInv
      <4>3. reg_ctrl' = reg_ctrl
        BY <4>1 DEF Edge, Registers, RegWrite
      <4>4. served' <=> served \/ perform
        BY <2>1, <4>1
      <4>5. served <=> access # None /\ access.done
        BY <1>1, <2>3, <4>1 DEF RequestInv, CycleInv, Taken
      <4>6. state' = 1 => (served' <=> pend' # None /\ pend'.done)
        BY <1>2, <4>2, <4>4, <4>5
      <4>7. state' = 2 => served'
        BY <1>2, <4>2, <4>4, <4>5
      <4>8. ~answered'
        <5>1. ~dmi_ack
          BY <4>1 DEF dmi_ack
        <5> QED
          BY <2>1, <5>1
      <4> QED
        BY <4>1, <4>2, <4>3, <4>6, <4>7, <4>8 DEF RequestInv
    <3>6. CASE Finishes
      <4>1. ~perform /\ ~do_inc'
        BY <1>1, <1>2, <3>6 DEF Finishes, CycleInv
      <4>2. state = 2 /\ state' = IF dmi_req THEN 2 ELSE 0
        BY <3>6 DEF Finishes
      <4>3. CASE Hold
        BY <2>1, <2>3, <3>3, <4>1, <4>2, <4>3 DEF RequestInv, Hold
      <4>4. CASE Ask
        BY <2>1, <2>3, <3>3, <4>1, <4>2, <4>4 DEF RequestInv, Ask
      <4>5. CASE Withdraw
        BY <2>1, <2>3, <3>3, <4>1, <4>2, <4>5 DEF RequestInv, Withdraw
      <4> QED
        BY <3>1, <4>3, <4>4, <4>5
    <3> QED
      BY <3>4, <3>5, <3>6 DEF Edge, Machine
  <2> QED
    BY <2>2, <2>3
<1> QED
  BY <1>8, <1>9, <1>10

LEMMA StepIInv == IInv /\ [Next]_vars => IInv'
<1> SUFFICES ASSUME IInv, [Next]_vars PROVE IInv'
  OBVIOUS
<1>1. CASE SysEdge
  <2>1. PICK stall, perform, ack \in BOOLEAN : Clock(stall, perform, ack)
    BY <1>1 DEF SysEdge
  <2>2. PICK access \in Arriving(stall) : Edge(stall, perform, ack, access)
    BY <2>1 DEF Clock, Edge
  <2> QED
    BY <2>2, EdgeKeeps
<1>2. CASE Trst
  <2>1. TypeOK'
    BY <1>2, BlankIsRequest DEF Trst, IInv, TypeOK
  <2>2. CycleInv'
    BY <1>2 DEF Trst, IInv, CycleInv
  <2>3. RequestInv'
    BY <1>2 DEF Trst, IInv, RequestInv
  <2> QED
    BY <2>1, <2>2, <2>3 DEF IInv
<1>3. CASE Reset
  <2>1. TypeOK'
    <3>1. request' \in Requests /\ reg_addr' \in Pointers /\ reg_ctrl' \in Modes
      BY <1>3, PointerArithmetic, BlankIsRequest DEF Reset
    <3>2. data_latch' \in Data /\ mem' \in [Words -> Data] /\ pend' = None
      BY <1>3 DEF Reset, IInv, TypeOK
    <3>3. state' \in 0..2 /\ pend' \in Access \cup {None}
      BY <1>3 DEF Reset
    <3>4. {dmi_req', answered', stb', do_inc', served', torn'} \subseteq BOOLEAN
      BY <1>3 DEF Reset
    <3> QED
      BY <3>1, <3>2, <3>3, <3>4 DEF TypeOK
  <2>2. CycleInv'
    BY <1>3 DEF Reset, IInv, CycleInv
  <2>3. RequestInv'
    BY <1>3 DEF Reset, IInv, RequestInv
  <2> QED
    BY <2>1, <2>2, <2>3 DEF IInv
<1>4. CASE CpuWrite
  <2>1. mem' \in [Words -> Data]
    BY <1>4 DEF CpuWrite, IInv, TypeOK
  <2>2. TypeOK'
    BY <1>4, <2>1 DEF CpuWrite, IInv, TypeOK
  <2>3. CycleInv'
    BY <1>4 DEF CpuWrite, IInv, CycleInv
  <2>4. RequestInv'
    BY <1>4 DEF CpuWrite, IInv, RequestInv
  <2> QED
    BY <2>2, <2>3, <2>4 DEF IInv
<1>5. CASE UNCHANGED vars
  BY <1>5 DEF vars, IInv, TypeOK, CycleInv, RequestInv
<1> QED
  BY <1>1, <1>2, <1>3, <1>4, <1>5 DEF Next

LEMMA AlwaysIInv == Spec => []IInv
BY InitIInv, StepIInv, PTL DEF Spec

(* The registers of the debug master and its neighbours keep their types.  *)
THEOREM TypeCorrect == Spec => []TypeOK
BY AlwaysIInv, PTL DEF IInv

(* The acknowledge of a data access comes after the access.                *)
THEOREM AckAlwaysMeansDone == Spec => []AckMeansDone
<1>1. IInv => AckMeansDone
  BY DEF IInv, TypeOK, CycleInv, RequestInv, AckMeansDone, dmi_ack
<1> QED
  BY <1>1, AlwaysIInv, PTL

(* Address, direction and data stand still under a bus cycle.              *)
THEOREM BusCycleIsHeld == Spec => BusCycleHeld
<1>1. ASSUME IInv, [Next]_vars
      PROVE  [state = 1 /\ state' = 1 /\ ~torn'
               => /\ reg_addr' = reg_addr
                  /\ reg_ctrl' = reg_ctrl
                  /\ request' = request]_vars
  <2> SUFFICES ASSUME state = 1, state' = 1, ~torn'
               PROVE  reg_addr' = reg_addr /\ reg_ctrl' = reg_ctrl /\ request' = request
    OBVIOUS
  <2>1. CASE SysEdge
    <3>1. PICK stall, perform, ack \in BOOLEAN : Clock(stall, perform, ack)
      BY <2>1 DEF SysEdge
    <3>2. PICK access \in Arriving(stall) : Edge(stall, perform, ack, access)
      BY <3>1 DEF Clock, Edge
    <3>3. ~torn
      BY <1>1, <3>2 DEF Edge, IInv, TypeOK
    <3>4. dmi_req /\ request.reg = DATA /\ ~do_inc
      BY <1>1, <3>3 DEF IInv, RequestInv, CycleInv
    <3>5. request' = request
      BY <3>2, <3>3, <3>4
      DEF Edge, TransportMoves, Hold, Ask, Withdraw, dmi_ack
    <3> QED
      BY <3>2, <3>4, <3>5 DEF Edge, Registers, RegWrite
  <2>2. CASE Trst
    BY <2>2 DEF Trst
  <2>3. CASE Reset
    BY <2>3 DEF Reset
  <2>4. CASE CpuWrite \/ UNCHANGED vars
    BY <2>4 DEF CpuWrite, vars
  <2> QED
    BY <1>1, <2>1, <2>2, <2>3, <2>4 DEF Next
<1> QED
  BY <1>1, AlwaysIInv, PTL DEF Spec, BusCycleHeld

-----------------------------------------------------------------------------
(* The debug master implements the memory window.                          *)

(* As long as no request was torn away: the access in the slave is the one *)
(* the request asks for, and a register that was written holds the value.  *)
WindowInv ==
  ~torn =>
    /\ state = 1 /\ pend # None => /\ pend.wr = request.wr
                                   /\ pend.word = WordAt(reg_addr)
                                   /\ pend.wr => pend.value = request.value
    /\ served /\ request.wr /\ request.reg = ADDR => reg_addr = request.value
    /\ served /\ request.wr /\ request.reg = CTRL => reg_ctrl = request.value

(* The access in the slave after the edge is the one before it.            *)
LEMMA SameAccess ==
  ASSUME NEW access \in Access, NEW perform \in BOOLEAN, SlaveMoves(access, perform, FALSE)
  PROVE  /\ pend'.wr = access.wr /\ pend'.word = access.word /\ pend'.value = access.value
         /\ perform /\ ~access.wr => pend'.got = mem[access.word]
         /\ ~perform => pend' = access
<1>1. CASE perform
  <2> DEFINE got == IF access.wr THEN None ELSE mem[access.word]
  <2>1. pend' = [access EXCEPT !.done = TRUE, !.got = got]
    BY <1>1 DEF SlaveMoves, Performed
  <2> HIDE DEF got
  <2>2. /\ pend'.wr = access.wr /\ pend'.word = access.word
        /\ pend'.value = access.value /\ pend'.got = got
    BY <2>1 DEF Access
  <2> QED
    BY <1>1, <2>2 DEF got
<1>2. CASE ~perform
  BY <1>2 DEF SlaveMoves
<1> QED
  BY <1>1, <1>2

(* An edge with no request torn away, case by case.                        *)

(* What holds of the access on such an edge, and of the request lines.     *)
LEMMA PlainEdge ==
  ASSUME IInv, WindowInv,
         NEW stall \in BOOLEAN, NEW perform \in BOOLEAN, NEW ack \in BOOLEAN,
         NEW access \in Arriving(stall), Edge(stall, perform, ack, access), ~torn
  PROVE  /\ torn' = FALSE
         /\ Hold \/ Ask \/ Withdraw
         /\ Withdraw => dmi_req /\ served
         /\ state # 1 => access = None /\ ~perform /\ mem' = mem
         /\ state = 1 /\ access # None =>
              /\ access \in Access
              /\ access.wr = request.wr /\ access.word = WordAt(reg_addr)
              /\ access.wr => access.value = request.value
         /\ state = 1 => (served <=> access # None /\ access.done)
<1>1. torn' = FALSE
  BY DEF Edge
<1>2. Hold \/ Ask \/ Withdraw
  BY DEF Edge, TransportMoves
<1>3. Withdraw => dmi_req /\ served
  BY DEF Withdraw, IInv, RequestInv
<1>4. /\ access \in Access \cup {None}
      /\ state # 1 => access = None
      /\ ~Taken(stall) => access = pend
      /\ Taken(stall) =>
              /\ access # None /\ access.wr = request.wr
              /\ access.word = WordAt(reg_addr) /\ ~access.done
              /\ access.value \in OnBus(request.value)
  BY ArrivingAccess
<1>5. state # 1 => access = None /\ ~perform /\ mem' = mem
  BY <1>4 DEF Edge, SlaveMoves
<1>6. state = 1 => request.reg = DATA /\ dmi_req
  BY DEF IInv, RequestInv
<1>7. ASSUME state = 1, access # None
      PROVE  /\ access \in Access
             /\ access.wr = request.wr /\ access.word = WordAt(reg_addr)
             /\ access.wr => access.value = request.value
  <2>1. CASE Taken(stall)
    <3>1. request.wr => request.value \in Data
      BY <1>6, <1>7, RequestFacts DEF IInv, TypeOK
    <3> QED
      BY <1>4, <1>7, <2>1, <3>1 DEF OnBus
  <2>2. CASE ~Taken(stall)
    BY <1>4, <1>7, <2>2 DEF WindowInv
  <2> QED
    BY <2>1, <2>2
<1>8. ASSUME state = 1 PROVE served <=> access # None /\ access.done
  <2>1. /\ served <=> pend # None /\ pend.done
        /\ stb <=> pend = None
    BY <1>8 DEF IInv, RequestInv, CycleInv
  <2> QED
    BY <1>4, <2>1 DEF Taken
<1> QED
  BY <1>1, <1>2, <1>3, <1>5, <1>7, <1>8

(* The variables of the window.                                            *)
Pointer == IF Moving THEN Moved(reg_addr, reg_ctrl) ELSE reg_addr
Line    == IF torn \/ ~dmi_req THEN None ELSE request

WindowVars == <<mem, Pointer, reg_ctrl, Phase, Line, HostAnswer>>

LEMMA WindowVarsAre == Window!memVars = WindowVars /\ Window!memVars' = WindowVars'
BY DEF Window!memVars, WindowVars, Pointer, Line

(* What the window does on an edge: nothing, or one of its steps.          *)
WindowStep == WindowInv' /\ [Window!Next]_WindowVars

(* No request: the registers stand still, a request may come.              *)
LEMMA IdleEdge ==
  ASSUME IInv, WindowInv,
         NEW stall \in BOOLEAN, NEW perform \in BOOLEAN, NEW ack \in BOOLEAN,
         NEW access \in Arriving(stall), Edge(stall, perform, ack, access), ~torn,
         ~dmi_req
  PROVE  WindowStep
<1>1. /\ torn' = FALSE
      /\ Hold \/ Ask \/ Withdraw
      /\ Withdraw => dmi_req /\ served
      /\ state # 1 => access = None /\ ~perform /\ mem' = mem
  BY PlainEdge
<1>2. ~served /\ state # 1 /\ ~do_inc
  BY DEF IInv, RequestInv
<1>3. mem' = mem /\ reg_addr' = reg_addr /\ reg_ctrl' = reg_ctrl
  BY <1>1, <1>2 DEF Edge, Registers, RegWrite
<1>4. state' # 1 /\ ~do_inc' /\ ~served'
  BY <1>1, <1>2 DEF Edge, Machine, Starts, Waits, Finishes
<1>5. WindowInv'
  BY <1>4 DEF WindowInv
<1>6. Pointer = reg_addr /\ Pointer' = reg_addr'
  BY <1>2, <1>4 DEF Pointer, Moving
<1>7. Phase = "idle" /\ Line = None /\ HostAnswer = None /\ HostAnswer' = None
  BY <1>1, <1>2, <1>4 DEF Phase, Line, HostAnswer
<1>8. CASE Hold
  <2>1. Phase' = "idle" /\ Line' = None
    BY <1>1, <1>8 DEF Phase, Line, Hold
  <2> QED
    BY <1>3, <1>5, <1>6, <1>7, <2>1 DEF WindowStep, WindowVars
<1>9. CASE Ask
  <2>1. Phase' = "asked" /\ Line' = request' /\ request' \in Requests
    BY <1>1, <1>4, <1>9 DEF Phase, Line, Ask
  <2>2. Window!Ask
    BY <1>3, <1>6, <1>7, <2>1 DEF Window!Ask, Pointer, Line
  <2> QED
    BY <1>5, <2>2 DEF WindowStep, Window!Next
<1> QED
  BY <1>1, <1>8, <1>9

(* A request for a register takes effect on its first edge.                *)
LEMMA RegisterAccess ==
  ASSUME IInv, WindowInv,
         NEW stall \in BOOLEAN, NEW perform \in BOOLEAN, NEW ack \in BOOLEAN,
         NEW access \in Arriving(stall), Edge(stall, perform, ack, access), ~torn,
         dmi_req, ~served, request.reg # DATA
  PROVE  WindowStep
<1>1. /\ torn' = FALSE
      /\ Hold \/ Ask \/ Withdraw
      /\ Withdraw => dmi_req /\ served
      /\ state # 1 => access = None /\ ~perform /\ mem' = mem
  BY PlainEdge
<1>2. state = 0 /\ ~do_inc
  BY DEF IInv, TypeOK, RequestInv, CycleInv
<1>3. dmi_req' = dmi_req /\ request' = request
  BY <1>1 DEF Hold, Ask
<1>4. /\ mem' = mem
      /\ reg_addr' = IF RegWrite(ADDR) THEN request.value ELSE reg_addr
      /\ reg_ctrl' = IF RegWrite(CTRL) THEN request.value ELSE reg_ctrl
  BY <1>1, <1>2 DEF Edge, Registers
<1>5. state' = 0 /\ ~do_inc' /\ served'
  <2>1. Starts
    BY <1>2 DEF Edge, Machine, Waits, Finishes
  <2>2. state' = 0 /\ ~do_inc'
    BY <1>2, <2>1 DEF Starts
  <2>3. served'
    BY <1>3 DEF Edge
  <2> QED
    BY <2>2, <2>3
<1>6. WindowInv'
  BY <1>3, <1>4, <1>5 DEF WindowInv, RegWrite
<1>7. Pointer = reg_addr /\ Pointer' = reg_addr'
  BY <1>2, <1>5 DEF Pointer, Moving
<1>8. Phase = "asked" /\ Line = request /\ Phase' = "done" /\ Line' = request
  BY <1>1, <1>3, <1>5 DEF Phase, Line
<1>9. HostAnswer' = IF request.wr THEN None
                    ELSE CASE request.reg = ADDR -> reg_addr'
                           [] request.reg = CTRL -> reg_ctrl'
                           [] OTHER -> None
  BY <1>1, <1>3, <1>5 DEF HostAnswer
<1>10. Window!Perform
  <2>1. CASE request.reg = ADDR
    BY <1>4, <1>7, <1>8, <1>9, <2>1
    DEF Window!Perform, Window!ADDR, Window!DATA, Window!CTRL, Pointer, Line, RegWrite
  <2>2. CASE request.reg = CTRL
    BY <1>4, <1>7, <1>8, <1>9, <2>2
    DEF Window!Perform, Window!ADDR, Window!DATA, Window!CTRL, Pointer, Line, RegWrite
  <2>3. CASE request.reg # ADDR /\ request.reg # CTRL
    BY <1>4, <1>7, <1>8, <1>9, <2>3
    DEF Window!Perform, Window!ADDR, Window!DATA, Window!CTRL, Pointer, Line, RegWrite
  <2> QED
    BY <2>1, <2>2, <2>3
<1> QED
  BY <1>6, <1>10 DEF WindowStep, Window!Next

(* A request for a word starts a bus cycle.                                *)
LEMMA CycleStarts ==
  ASSUME IInv, WindowInv,
         NEW stall \in BOOLEAN, NEW perform \in BOOLEAN, NEW ack \in BOOLEAN,
         NEW access \in Arriving(stall), Edge(stall, perform, ack, access), ~torn,
         dmi_req, request.reg = DATA, state = 0
  PROVE  WindowStep
<1>1. /\ torn' = FALSE
      /\ Hold \/ Ask \/ Withdraw
      /\ Withdraw => dmi_req /\ served
      /\ state # 1 => access = None /\ ~perform /\ mem' = mem
  BY PlainEdge
<1>2. ~served /\ ~do_inc
  BY DEF IInv, RequestInv, CycleInv
<1>3. dmi_req' = dmi_req /\ request' = request
  BY <1>1, <1>2 DEF Hold, Ask
<1>4. mem' = mem /\ reg_addr' = reg_addr /\ reg_ctrl' = reg_ctrl
  BY <1>1, <1>2 DEF Edge, Registers, RegWrite
<1>5. ~served'
  BY <1>1, <1>2 DEF Edge
<1>6. ~do_inc' /\ pend' = None
  <2>1. Starts
    BY DEF Edge, Machine, Waits, Finishes
  <2>2. ~do_inc'
    BY <1>2, <2>1 DEF Starts
  <2>3. pend' = None
    BY <1>1 DEF Edge, SlaveMoves
  <2> QED
    BY <2>2, <2>3
<1>7. WindowInv'
  BY <1>5, <1>6 DEF WindowInv
<1>8. Pointer = reg_addr /\ Pointer' = reg_addr'
  BY <1>2, <1>5, <1>6 DEF Pointer, Moving
<1>9. Phase = "asked" /\ Line = request /\ Phase' = "asked" /\ Line' = request'
  BY <1>1, <1>2, <1>3, <1>5 DEF Phase, Line
<1>10. HostAnswer = None /\ HostAnswer' = None
  BY <1>2, <1>5 DEF HostAnswer
<1> QED
  BY <1>3, <1>4, <1>7, <1>8, <1>9, <1>10 DEF WindowStep, WindowVars

(* The window's step for a word.                                           *)
LEMMA PerformsAccess ==
  ASSUME Phase = "asked", Phase' = "done", Line' = Line, Line.reg = DATA,
         mem' = IF Line.wr THEN [mem EXCEPT ![WordAt(Pointer)] = Line.value] ELSE mem,
         HostAnswer' = IF Line.wr THEN None ELSE mem[WordAt(Pointer)],
         Pointer' = Moved(Pointer, reg_ctrl), reg_ctrl' = reg_ctrl
  PROVE  Window!Perform
<1>1. Line.reg # Window!ADDR /\ Line.reg = Window!DATA /\ Line.reg # Window!CTRL
  BY DEF Window!ADDR, Window!DATA, Window!CTRL
<1>2. Window!Perform <=>
        /\ Phase = "asked"
        /\ Phase' = "done"
        /\ UNCHANGED Line
        /\ CASE Line.reg = Window!ADDR ->
                  /\ Pointer' = IF Line.wr THEN Line.value ELSE Pointer
                  /\ HostAnswer' = IF Line.wr THEN None ELSE Pointer
                  /\ UNCHANGED <<mem, reg_ctrl>>
             [] Line.reg = Window!DATA ->
                  /\ mem' = IF Line.wr THEN [mem EXCEPT ![WordAt(Pointer)] = Line.value] ELSE mem
                  /\ HostAnswer' = IF Line.wr THEN None ELSE mem[WordAt(Pointer)]
                  /\ Pointer' = Moved(Pointer, reg_ctrl)
                  /\ UNCHANGED reg_ctrl
             [] Line.reg = Window!CTRL ->
                  /\ reg_ctrl' = IF Line.wr THEN Line.value ELSE reg_ctrl
                  /\ HostAnswer' = IF Line.wr THEN None ELSE reg_ctrl
                  /\ UNCHANGED <<mem, Pointer>>
             [] OTHER -> HostAnswer' = None /\ UNCHANGED <<mem, Pointer, reg_ctrl>>
  BY DEF Window!Perform, Pointer, Line
<1> QED
  BY <1>1, <1>2

(* The bus cycle: the slave takes the strobe, performs the access and      *)
(* answers, on one edge or on several.                                     *)
LEMMA CycleGoesOn ==
  ASSUME IInv, WindowInv,
         NEW stall \in BOOLEAN, NEW perform \in BOOLEAN, NEW ack \in BOOLEAN,
         NEW access \in Arriving(stall), Edge(stall, perform, ack, access), ~torn,
         state = 1
  PROVE  WindowStep
<1>1. /\ torn' = FALSE
      /\ Hold \/ Ask \/ Withdraw
      /\ state = 1 /\ access # None =>
           /\ access \in Access
           /\ access.wr = request.wr /\ access.word = WordAt(reg_addr)
           /\ access.wr => access.value = request.value
      /\ state = 1 => (served <=> access # None /\ access.done)
  BY PlainEdge
<1>2. dmi_req /\ request.reg = DATA /\ ~do_inc
  BY DEF IInv, RequestInv, CycleInv
<1>3. dmi_req' = dmi_req /\ request' = request
  BY <1>1, <1>2 DEF Hold, Ask, Withdraw, dmi_ack
<1>4. reg_addr' = reg_addr /\ reg_ctrl' = reg_ctrl
  BY <1>2 DEF Edge, Registers, RegWrite
<1>5. served' <=> served \/ perform
  BY <1>2, <1>3 DEF Edge
<1>6. /\ state' = IF ack THEN 2 ELSE 1
      /\ do_inc' = IF ack THEN reg_ctrl.auto ELSE do_inc
  BY DEF Edge, Machine, Starts, Waits, Finishes
<1>7. /\ perform => access # None /\ ~access.done
      /\ ack => access # None /\ (access.done \/ perform)
      /\ mem' = IF perform /\ access.wr THEN [mem EXCEPT ![access.word] = access.value] ELSE mem
      /\ pend' = IF ack THEN None ELSE IF perform THEN Performed(access) ELSE access
  BY DEF Edge, SlaveMoves
<1>8. ASSUME ~ack, access # None
      PROVE  /\ pend'.wr = access.wr /\ pend'.word = access.word /\ pend'.value = access.value
             /\ perform /\ ~access.wr => pend'.got = mem[access.word]
             /\ ~perform => pend' = access
  <2>1. SlaveMoves(access, perform, FALSE)
    BY <1>7, <1>8 DEF SlaveMoves
  <2> QED
    BY <1>1, <1>8, <2>1, SameAccess
<1>9. WindowInv'
  BY <1>1, <1>2, <1>3, <1>4, <1>6, <1>7, <1>8 DEF WindowInv
<1>10. Line = request /\ Line' = request
  BY <1>1, <1>2, <1>3 DEF Line
<1>11. /\ Phase = IF served THEN "done" ELSE "asked"
       /\ Phase' = IF served' THEN "done" ELSE "asked"
  BY <1>1, <1>2, <1>3 DEF Phase
<1>12. Pointer = IF served THEN Moved(reg_addr, reg_ctrl) ELSE reg_addr
  BY <1>2 DEF Pointer, Moving
<1>13. Pointer' = IF served' THEN Moved(reg_addr, reg_ctrl) ELSE reg_addr
  <2>1. CASE ack
    <3>1. served' /\ Moving' <=> do_inc'
      BY <1>1, <1>5, <1>6, <1>7, <2>1 DEF Moving
    <3>2. served'
      BY <1>1, <1>5, <1>7, <2>1
    <3>3. Moving' <=> reg_ctrl.auto
      BY <1>6, <2>1, <3>1, <3>2
    <3> QED
      BY <1>4, <3>2, <3>3 DEF Pointer, Moved
  <2>2. CASE ~ack
    BY <1>2, <1>4, <1>6, <2>2 DEF Pointer, Moving
  <2> QED
    BY <2>1, <2>2
<1>14. HostAnswer = IF served /\ ~request.wr THEN pend.got ELSE None
  BY <1>2 DEF HostAnswer
<1>15. HostAnswer' = IF served' /\ ~request.wr
                     THEN IF ack THEN data_latch' ELSE pend'.got
                     ELSE None
  BY <1>1, <1>2, <1>3, <1>6 DEF HostAnswer
<1>16. CASE served
  <2>1. ~perform /\ served' /\ mem' = mem /\ access # None /\ access.done
    BY <1>1, <1>5, <1>7, <1>16
  <2>2. access = pend
    BY <2>1, ArrivingAccess
  <2>3. ack /\ ~request.wr => data_latch' = pend.got
    BY <1>1, <2>1, <2>2 DEF Edge, Latch, Driven
  <2>4. HostAnswer' = HostAnswer
    BY <1>8, <1>14, <1>15, <1>16, <2>1, <2>2, <2>3
  <2>5. Pointer' = Pointer /\ Phase' = Phase /\ Line' = Line
    BY <1>10, <1>11, <1>12, <1>13, <1>16, <2>1
  <2> QED
    BY <1>4, <1>9, <2>1, <2>4, <2>5 DEF WindowStep, WindowVars
<1>17. CASE ~served /\ ~perform
  <2>1. ~served' /\ mem' = mem
    BY <1>5, <1>7, <1>17
  <2>2. HostAnswer' = HostAnswer
    BY <1>14, <1>15, <1>17, <2>1
  <2>3. Pointer' = Pointer /\ Phase' = Phase /\ Line' = Line
    BY <1>10, <1>11, <1>12, <1>13, <1>17, <2>1
  <2> QED
    BY <1>4, <1>9, <2>1, <2>2, <2>3 DEF WindowStep, WindowVars
<1>18. CASE ~served /\ perform
  <2>1. served' /\ access # None /\ ~access.done
    BY <1>5, <1>7, <1>18
  <2>2. Pointer = reg_addr /\ Pointer' = Moved(reg_addr, reg_ctrl)
    BY <1>12, <1>13, <1>18, <2>1
  <2>3. mem' = IF request.wr THEN [mem EXCEPT ![WordAt(reg_addr)] = request.value] ELSE mem
    BY <1>1, <1>7, <1>18, <2>1
  <2>4. ack /\ ~request.wr => data_latch' = mem[WordAt(reg_addr)]
    BY <1>1, <1>18, <2>1 DEF Edge, Latch, Driven
  <2>5. HostAnswer' = IF request.wr THEN None ELSE mem[WordAt(reg_addr)]
    BY <1>1, <1>8, <1>15, <1>18, <2>1, <2>4
  <2>6. Phase = "asked" /\ Phase' = "done"
    BY <1>11, <1>18, <2>1
  <2>7. Window!Perform
    BY <1>2, <1>4, <1>10, <2>2, <2>3, <2>5, <2>6, PerformsAccess
  <2> QED
    BY <1>9, <2>7 DEF WindowStep, Window!Next
<1> QED
  BY <1>16, <1>17, <1>18

(* The request has been served: the pointer moves if it must, and the      *)
(* request stands or is withdrawn.                                         *)
LEMMA ServedEdge ==
  ASSUME IInv, WindowInv,
         NEW stall \in BOOLEAN, NEW perform \in BOOLEAN, NEW ack \in BOOLEAN,
         NEW access \in Arriving(stall), Edge(stall, perform, ack, access), ~torn,
         dmi_req, served, state # 1
  PROVE  WindowStep
<1>1. /\ torn' = FALSE
      /\ Hold \/ Ask \/ Withdraw
      /\ state # 1 => access = None /\ ~perform /\ mem' = mem
  BY PlainEdge
<1>2. /\ request.reg = DATA <=> state = 2
      /\ do_inc => state = 2 /\ reg_ctrl.auto
  BY DEF IInv, TypeOK, RequestInv, CycleInv
<1>3. mem' = mem
  BY <1>1
<1>4. state' # 1 /\ ~do_inc'
  <2>1. CASE state = 2
    <3>1. Finishes
      BY <2>1 DEF Edge, Machine, Starts, Waits
    <3> QED
      BY <3>1 DEF Finishes
  <2>2. CASE state # 2
    <3>1. Starts
      BY <2>2 DEF Edge, Machine, Waits, Finishes
    <3> QED
      BY <1>2, <2>2, <3>1 DEF Starts
  <2> QED
    BY <2>1, <2>2
<1>5. reg_ctrl' = reg_ctrl
  BY <1>2 DEF Edge, Registers, RegWrite, WindowInv
<1>6. Pointer = reg_addr' /\ Pointer' = reg_addr'
  <2>1. Pointer' = reg_addr'
    BY <1>4 DEF Pointer, Moving
  <2>2. CASE do_inc
    <3>1. reg_addr' = (reg_addr + reg_ctrl.size) % AddrSpace
      BY <2>2 DEF Edge, Registers
    <3>2. Pointer = Moved(reg_addr, reg_ctrl)
      BY <2>2 DEF Pointer, Moving
    <3> QED
      BY <1>2, <2>1, <2>2, <3>1, <3>2 DEF Moved
  <2>3. CASE ~do_inc
    <3>1. reg_addr' = IF RegWrite(ADDR) THEN request.value ELSE reg_addr
      BY <2>3 DEF Edge, Registers
    <3>2. RegWrite(ADDR) => reg_addr = request.value
      BY DEF RegWrite, WindowInv
    <3>3. Pointer = reg_addr
      BY <2>3 DEF Pointer, Moving
    <3> QED
      BY <2>1, <3>1, <3>2, <3>3
  <2> QED
    BY <2>1, <2>2, <2>3
<1>7. data_latch' = data_latch
  BY DEF Edge, Latch
<1>8. Phase = "done" /\ Line = request
  BY DEF Phase, Line
<1>9. CASE Hold
  <2>1. dmi_req' = dmi_req /\ request' = request
    BY <1>9 DEF Hold
  <2>2. served'
    BY <2>1 DEF Edge
  <2>3. Phase' = "done" /\ Line' = request
    BY <1>1, <2>1, <2>2 DEF Phase, Line
  <2>4. /\ request.reg = ADDR /\ ~request.wr => reg_addr' = reg_addr
        /\ request.reg = ADDR /\ request.wr => reg_addr' = request.value
        /\ request.reg = CTRL /\ request.wr => reg_ctrl' = request.value
    BY <1>2, <1>5 DEF Edge, Registers, RegWrite, WindowInv
  <2>5. WindowInv'
    BY <1>4, <2>1, <2>4 DEF WindowInv
  <2>6. HostAnswer' = HostAnswer
    <3>1. CASE request.wr
      BY <2>1, <3>1 DEF HostAnswer
    <3>2. CASE ~request.wr
      BY <1>1, <1>4, <1>5, <1>7, <2>1, <2>2, <2>4, <3>2 DEF HostAnswer
    <3> QED
      BY <3>1, <3>2
  <2> QED
    BY <1>3, <1>5, <1>6, <1>8, <2>3, <2>5, <2>6 DEF WindowStep, WindowVars
<1>10. CASE Withdraw
  <2>1. ~dmi_req' /\ ~served'
    BY <1>10 DEF Withdraw, Edge
  <2>2. Phase' = "idle" /\ Line' = None
    BY <1>1, <2>1 DEF Phase, Line
  <2>3. HostAnswer' = None
    BY <2>1 DEF HostAnswer
  <2>4. WindowInv'
    BY <1>4, <2>1 DEF WindowInv
  <2>5. Window!Withdraw
    BY <1>3, <1>5, <1>6, <1>8, <2>2, <2>3 DEF Window!Withdraw, Pointer, Line
  <2> QED
    BY <2>4, <2>5 DEF WindowStep, Window!Next
<1> QED
  BY <1>1, <1>9, <1>10 DEF Ask

(* After a request was torn away the window strays until all is at rest.   *)
LEMMA PointerIsPointer == IInv => Pointer \in Pointers
BY PointerArithmetic DEF IInv, TypeOK, Pointer

LEMMA TornEdge ==
  ASSUME IInv, IInv',
         NEW stall \in BOOLEAN, NEW perform \in BOOLEAN, NEW ack \in BOOLEAN,
         NEW access \in Arriving(stall), Edge(stall, perform, ack, access), torn
  PROVE  WindowStep
<1>1. Phase = "lost" /\ Line = None /\ HostAnswer = None
  BY DEF Phase, Line, HostAnswer
<1>2. ~torn' => ~dmi_req' /\ state' = 0
  BY DEF Edge
<1>3. Phase' \in {"lost", "idle"}
  BY <1>2 DEF Phase
<1>4. Line' = None /\ HostAnswer' = None
  BY <1>2 DEF Line, HostAnswer
<1>5. Pointer' \in Pointers /\ reg_ctrl' \in Modes
  <2>1. (IInv => Pointer \in Pointers)'
    BY PointerIsPointer, PTL
  <2> QED
    BY <2>1 DEF IInv, TypeOK
<1>6. mem' = mem \/ \E w \in Words, d \in Data : mem' = [mem EXCEPT ![w] = d]
  <2>1. CASE perform /\ access.wr
    <3>1. access # None /\ access \in Access /\ access.value \in Data
      BY <2>1, ArrivingAccess DEF Edge, SlaveMoves
    <3>2. access.word \in Words
      BY <3>1 DEF Access
    <3>3. mem' = [mem EXCEPT ![access.word] = access.value]
      BY <2>1 DEF Edge, SlaveMoves
    <3> QED
      BY <3>1, <3>2, <3>3
  <2>2. CASE ~(perform /\ access.wr)
    BY <2>2 DEF Edge, SlaveMoves
  <2> QED
    BY <2>1, <2>2
<1>7. WindowInv'
  <2>1. ~torn' => state' # 1 /\ ~served'
    BY <1>2 DEF Edge
  <2> QED
    BY <2>1 DEF WindowInv
<1>8. Window!Stray
  BY <1>1, <1>3, <1>4, <1>5, <1>6 DEF Window!Stray, Pointer, Line
<1> QED
  BY <1>7, <1>8 DEF WindowStep, Window!Next

LEMMA StepWindow == IInv /\ WindowInv /\ [Next]_vars => WindowStep
<1> SUFFICES ASSUME IInv, WindowInv, [Next]_vars PROVE WindowStep
  OBVIOUS
<1>1. IInv'
  BY StepIInv
<1>2. CASE SysEdge
  <2>1. PICK stall, perform, ack \in BOOLEAN : Clock(stall, perform, ack)
    BY <1>2 DEF SysEdge
  <2>2. PICK access \in Arriving(stall) : Edge(stall, perform, ack, access)
    BY <2>1 DEF Clock, Edge
  <2>3. CASE torn
    BY <1>1, <2>2, <2>3, TornEdge
  <2>4. CASE ~torn /\ ~dmi_req
    BY <2>2, <2>4, IdleEdge
  <2>5. CASE ~torn /\ state = 1
    BY <2>2, <2>5, CycleGoesOn
  <2>6. CASE ~torn /\ dmi_req /\ served /\ state # 1
    BY <2>2, <2>6, ServedEdge
  <2>7. CASE ~torn /\ dmi_req /\ ~served /\ request.reg # DATA
    BY <2>2, <2>7, RegisterAccess
  <2>8. CASE ~torn /\ dmi_req /\ ~served /\ request.reg = DATA /\ state # 1
    <3>1. state = 0
      BY <2>8 DEF IInv, TypeOK, RequestInv
    <3> QED
      BY <2>2, <2>8, <3>1, CycleStarts
  <2> QED
    BY <2>3, <2>4, <2>5, <2>6, <2>7, <2>8
<1>3. CASE Trst
  <2>1. Phase' = "lost" /\ Line' = None /\ HostAnswer' = None /\ mem' = mem
    BY <1>3 DEF Trst, Phase, Line, HostAnswer
  <2>2. Pointer' \in Pointers /\ reg_ctrl' \in Modes
    <3>1. (IInv => Pointer \in Pointers)'
      BY PointerIsPointer, PTL
    <3> QED
      BY <1>1, <3>1 DEF IInv, TypeOK
  <2>3. Window!Tear
    BY <2>1, <2>2 DEF Window!Tear, Pointer, Line
  <2>4. WindowInv'
    BY <1>3 DEF Trst, WindowInv
  <2> QED
    BY <2>3, <2>4 DEF WindowStep, Window!Next
<1>4. CASE Reset
  <2>1. Phase' = "idle" /\ Line' = None /\ HostAnswer' = None /\ mem' = mem
    BY <1>4 DEF Reset, Phase, Line, HostAnswer
  <2>2. Pointer' = Pointer0 /\ reg_ctrl' = Mode0
    BY <1>4 DEF Reset, Pointer, Moving
  <2>3. Window!Reset
    BY <2>1, <2>2 DEF Window!Reset, Pointer, Line
  <2>4. WindowInv'
    BY <1>4 DEF Reset, WindowInv
  <2> QED
    BY <2>3, <2>4 DEF WindowStep, Window!Next
<1>5. CASE CpuWrite
  <2>1. Phase' = Phase /\ Line' = Line /\ HostAnswer' = HostAnswer
    BY <1>5 DEF CpuWrite, Phase, Line, HostAnswer
  <2>2. Pointer' = Pointer /\ reg_ctrl' = reg_ctrl
    BY <1>5 DEF CpuWrite, Pointer, Moving
  <2>3. Window!OtherWrite
    BY <1>5, <2>1, <2>2 DEF CpuWrite, Window!OtherWrite, Pointer, Line
  <2>4. WindowInv'
    BY <1>5 DEF CpuWrite, WindowInv
  <2> QED
    BY <2>3, <2>4 DEF WindowStep, Window!Next
<1>6. CASE UNCHANGED vars
  <2>1. WindowInv'
    BY <1>6 DEF vars, WindowInv
  <2>2. WindowVars' = WindowVars
    BY <1>6 DEF vars, WindowVars, Pointer, Moving, Phase, Line, HostAnswer
  <2> QED
    BY <2>1, <2>2 DEF WindowStep
<1> QED
  BY <1>2, <1>3, <1>4, <1>5, <1>6 DEF Next

(* Every operation of the host takes effect exactly once, on the word      *)
(* under the pointer, whatever the slave, TRST and the processor do.       *)
THEOREM MasterImplementsMemory == Spec => ImplementsDebugMemory
<1>1. Init => WindowInv
  BY DEF Init, WindowInv
<1>2. Init => Window!Init
  BY DEF Init, Window!Init, Phase, Moving, HostAnswer
<1>3. IInv /\ WindowInv /\ [Next]_vars => WindowInv' /\ [Window!Next]_(Window!memVars)
  BY StepWindow, WindowVarsAre DEF WindowStep
<1> QED
  BY <1>1, <1>2, <1>3, AlwaysIInv, PTL DEF Spec, Window!Spec, ImplementsDebugMemory
=============================================================================
