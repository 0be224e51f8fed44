-------------------------- MODULE UartReceive_proofs --------------------------
(***************************************************************************)
(* Proofs about the receive side of the UART, for a FIFO of any depth, any *)
(* trigger levels, any data and any length of a character: the ring of     *)
(* slots is well formed, and with the data ready flag beside it it is the  *)
(* bounded queue of ReceiveQueue.                                          *)
(***************************************************************************)
EXTENDS UartReceive, FiniteSetTheorems, SequenceTheorems, TLAPS

-----------------------------------------------------------------------------
(* The ring.                                                                *)

\* A position of the ring, counted from a slot: it wraps once at most.
LEMMA Wraps ==
  ASSUME NEW s \in Slots, NEW k \in 0..FifoDepth
  PROVE  (s + k) % FifoDepth = IF s + k < FifoDepth THEN s + k ELSE s + k - FifoDepth
BY ConstantsAssumption DEF Slots

LEMMA SuccIsSlot ==
  ASSUME NEW s \in Slots
  PROVE  /\ Succ(s) \in Slots
         /\ Succ(s) = IF s + 1 < FifoDepth THEN s + 1 ELSE 0
<1>1. Succ(s) = IF s + 1 < FifoDepth THEN s + 1 ELSE s + 1 - FifoDepth
  BY Wraps, ConstantsAssumption DEF Succ
<1> QED
  BY <1>1, ConstantsAssumption DEF Slots

\* The pointers and the count of a ring that holds what it says.
Ring(b, n, t) ==
  /\ b \in Slots /\ t \in Slots /\ n \in 0..FifoDepth
  /\ (b + n) % FifoDepth = t

\* What a write, a read and both at once do to it.
LEMMA RingMoves ==
  ASSUME NEW b, NEW n, NEW t, Ring(b, n, t)
  PROVE  /\ n < FifoDepth => Ring(b, n + 1, Succ(t))
         /\ n > 0 => Ring(Succ(b), n - 1, t)
         /\ Ring(Succ(b), n, Succ(t))
<1>1. b \in Slots /\ t \in Slots /\ n \in 0..FifoDepth
  BY DEF Ring
<1>2. t = IF b + n < FifoDepth THEN b + n ELSE b + n - FifoDepth
  BY <1>1, Wraps DEF Ring
<1>3. Succ(b) \in Slots /\ Succ(t) \in Slots
  BY <1>1, SuccIsSlot
<1>4. /\ Succ(b) = IF b + 1 < FifoDepth THEN b + 1 ELSE 0
      /\ Succ(t) = IF t + 1 < FifoDepth THEN t + 1 ELSE 0
  BY <1>1, SuccIsSlot
<1>5. ASSUME n < FifoDepth PROVE Ring(b, n + 1, Succ(t))
  <2>1. n + 1 \in 0..FifoDepth
    BY <1>1, <1>5, ConstantsAssumption
  <2>2. (b + (n + 1)) % FifoDepth =
          IF b + (n + 1) < FifoDepth THEN b + (n + 1) ELSE b + (n + 1) - FifoDepth
    BY <1>1, <2>1, Wraps
  <2> QED
    BY <1>1, <1>2, <1>3, <1>4, <1>5, <2>1, <2>2, ConstantsAssumption DEF Ring, Slots
<1>6. ASSUME n > 0 PROVE Ring(Succ(b), n - 1, t)
  <2>1. n - 1 \in 0..FifoDepth
    BY <1>1, <1>6, ConstantsAssumption
  <2>2. (Succ(b) + (n - 1)) % FifoDepth =
          IF Succ(b) + (n - 1) < FifoDepth THEN Succ(b) + (n - 1) ELSE Succ(b) + (n - 1) - FifoDepth
    BY <1>3, <2>1, Wraps
  <2> QED
    BY <1>1, <1>2, <1>3, <1>4, <1>6, <2>1, <2>2, ConstantsAssumption DEF Ring, Slots
<1>7. Ring(Succ(b), n, Succ(t))
  <2>1. (Succ(b) + n) % FifoDepth =
          IF Succ(b) + n < FifoDepth THEN Succ(b) + n ELSE Succ(b) + n - FifoDepth
    BY <1>1, <1>3, Wraps
  <2> QED
    BY <1>1, <1>2, <1>3, <1>4, <2>1, ConstantsAssumption DEF Ring, Slots
<1> QED
  BY <1>5, <1>6, <1>7

\* The largest trigger level, which the reset of the code selects, exists.
LEMMA HighestTrigger == \E t \in Triggers : \A u \in Triggers : u <= t
<1> DEFINE Above(t) == {u \in Triggers : u > t}
           Tops == {Above(t) : t \in Triggers}
<1>1. Triggers \subseteq Nat /\ Triggers # {}
  BY ConstantsAssumption
<1>2. IsFiniteSet(Triggers)
  <2>1. IsFiniteSet(1..FifoDepth)
    BY FS_Interval, ConstantsAssumption
  <2> QED
    BY <2>1, FS_Subset, ConstantsAssumption
<1>3. FiniteSubsetsOf(Triggers) = SUBSET Triggers
  BY <1>2, FS_FiniteSubsetsOfFinite
<1>4. IsWellFoundedOn(StrictSubsetOrdering(Triggers), SUBSET Triggers)
  BY <1>3, FS_StrictSubsetOrderingWellFounded
<1>5. Tops \subseteq SUBSET Triggers /\ Tops # {}
  BY <1>1
<1> HIDE DEF Tops
<1>6. \E x \in Tops : \A y \in Tops : ~(<<y, x>> \in StrictSubsetOrdering(Triggers))
  BY <1>4, <1>5, WFMin
<1>7. PICK t \in Triggers :
        \A y \in Tops : ~(<<y, Above(t)>> \in StrictSubsetOrdering(Triggers))
  BY <1>6 DEF Tops
<1>8. ASSUME NEW u \in Triggers, u > t PROVE FALSE
  <2>1. Above(u) \in Tops
    BY <1>8 DEF Tops
  <2>2. Above(u) \subseteq Above(t)
    <3>1. ASSUME NEW w \in Triggers, w > u PROVE w > t
      BY <1>1, <1>8, <3>1
    <3> QED
      BY <3>1
  <2>3. u \in Above(t) /\ u \notin Above(u)
    BY <1>1, <1>8
  <2>4. <<Above(u), Above(t)>> \in StrictSubsetOrdering(Triggers)
    <3>1. Above(u) \subseteq Triggers /\ Above(t) \subseteq Triggers /\ Above(u) # Above(t)
      BY <2>3
    <3> HIDE DEF Above
    <3> QED
      BY <2>2, <3>1 DEF StrictSubsetOrdering
  <2> QED
    BY <1>7, <2>1, <2>4
<1> QED
  BY <1>1, <1>8

-----------------------------------------------------------------------------
(* Types.                                                                   *)

\* The parts of TypeOK that a clock changes apart from each other.
LEMMA AccessParts ==
  ASSUME NEW op \in Accesses
  PROVE  /\ op.kind = "write FC" => op.clear \in BOOLEAN /\ op.trigger \in Triggers
         /\ op.kind = "write IE" => op.enable \in BOOLEAN
BY DEF Accesses

FifoTypes ==
  /\ ram \in [Slots -> Data] /\ fifo \in [Slots -> BOOLEAN]
  /\ Ring(bottom, count, top)

RegisterTypes ==
  /\ counter_t \in 0..Timeout /\ wbstate \in 0..3 /\ line \in 0..CharTime
  /\ trigger_level \in Triggers

FlagTypes ==
  {rf_pop, rx_reset, lsr0r, lsr0_d, ier, rda_int_d, rda_int_pnd, ti_int_d,
   ti_int_pnd, int_o} \subseteq BOOLEAN

LEMMA TypeParts == TypeOK <=> FifoTypes /\ RegisterTypes /\ FlagTypes
BY DEF TypeOK, FifoTypes, RegisterTypes, FlagTypes, Ring

LEMMA FifoTypesStep ==
  ASSUME FifoTypes, NEW push \in BOOLEAN, NEW c \in Chars, Fifo(push, c)
  PROVE  FifoTypes'
<1>1. c.data \in Data /\ c.error \in BOOLEAN
  BY DEF Chars
<1>2. ram' \in [Slots -> Data]
  BY <1>1 DEF Fifo, FifoTypes
<1>3. count \in 0..FifoDepth
  BY DEF FifoTypes, Ring
<1>4. /\ count < FifoDepth => Ring(bottom, count + 1, Succ(top))
      /\ count > 0 => Ring(Succ(bottom), count - 1, top)
      /\ Ring(Succ(bottom), count, Succ(top))
  BY RingMoves DEF FifoTypes
<1>5. CASE FifoReset
  <2>1. fifo' \in [Slots -> BOOLEAN]
    BY <1>5 DEF FifoReset
  <2>2. 0 \in Slots /\ 0 \in 0..FifoDepth
    BY ConstantsAssumption DEF Slots
  <2>3. (0 + 0) % FifoDepth = 0
    BY <2>2, Wraps, ConstantsAssumption
  <2>4. Ring(bottom', count', top')
    BY <1>5, <2>2, <2>3 DEF FifoReset, Ring
  <2> QED
    BY <1>2, <2>1, <2>4 DEF FifoTypes, Ring
<1>6. CASE Push(c)
  BY <1>1, <1>2, <1>3, <1>4, <1>6 DEF Push, FifoTypes, Ring
<1>7. CASE Pop
  BY <1>1, <1>2, <1>3, <1>4, <1>7 DEF Pop, FifoTypes, Ring
<1>8. CASE PushPop(c)
  BY <1>1, <1>2, <1>3, <1>4, <1>8 DEF PushPop, FifoTypes, Ring
<1>9. CASE UNCHANGED <<fifo, top, bottom, count>>
  BY <1>2, <1>9 DEF FifoTypes, Ring
<1> QED
  BY <1>5, <1>6, <1>7, <1>8, <1>9 DEF Fifo

LEMMA RegisterTypesStep ==
  ASSUME RegisterTypes,
         NEW op \in Accesses, NEW push \in BOOLEAN, NEW c \in Chars, NEW enable \in BOOLEAN,
         Clock(op, push, c, enable)
  PROVE  RegisterTypes'
<1>1. counter_t' \in 0..Timeout
  <2>1. TimeoutCounter(push, enable)
    BY DEF Clock
  <2> QED
    BY <2>1, ConstantsAssumption DEF TimeoutCounter, RegisterTypes
<1>2. wbstate' \in 0..3
  <2>1. wbstate \in 0..3
    BY DEF RegisterTypes
  <2>2. CASE op.kind # "none"
    <3>1. wbstate' = 3
      BY <2>2 DEF Clock
    <3> QED
      BY <3>1
  <2>3. CASE op.kind = "none" /\ wbstate > 0
    BY <2>1, <2>3 DEF Clock
  <2>4. CASE op.kind = "none" /\ wbstate = 0
    BY <2>4 DEF Clock
  <2> QED
    BY <2>1, <2>2, <2>3, <2>4
<1>3. line' \in 0..CharTime
  <2>1. line' = IF push THEN CharTime ELSE IF enable /\ line > 0 THEN line - 1 ELSE line
    BY DEF Clock
  <2> QED
    BY <2>1, ConstantsAssumption DEF RegisterTypes
<1>4. trigger_level' \in Triggers
  BY AccessParts DEF Clock, FifoControl, RegisterTypes
<1> QED
  BY <1>1, <1>2, <1>3, <1>4 DEF RegisterTypes

LEMMA FlagTypesStep ==
  ASSUME FlagTypes,
         NEW op \in Accesses, NEW push \in BOOLEAN, NEW c \in Chars, NEW enable \in BOOLEAN,
         Clock(op, push, c, enable)
  PROVE  FlagTypes'
<1>1. /\ DataReady(push) /\ ReadBuffer(op) /\ FifoControl(op) /\ InterruptEnable(op)
      /\ Interrupts(op.kind = "read RB")
  BY DEF Clock
<1>2. rf_pop' \in BOOLEAN
  BY <1>1 DEF ReadBuffer
<1>3. rx_reset' \in BOOLEAN
  BY <1>1, AccessParts DEF FifoControl
<1>4. lsr0_d' \in BOOLEAN
  BY <1>1 DEF DataReady, lsr0
<1>5. lsr0r' \in BOOLEAN
  BY <1>1 DEF DataReady, FlagTypes
<1>6. ier' \in BOOLEAN
  BY <1>1, AccessParts DEF InterruptEnable, FlagTypes
<1>7. rda_int_d' \in BOOLEAN
  BY <1>1 DEF Interrupts, rda_int, FlagTypes
<1>8. ti_int_d' \in BOOLEAN
  BY <1>1 DEF Interrupts, ti_int, FlagTypes
<1>9. rda_int_pnd' \in BOOLEAN
  BY <1>1 DEF Interrupts, Pending
<1>10. ti_int_pnd' \in BOOLEAN
  BY <1>1 DEF Interrupts, Pending
<1>11. int_o' \in BOOLEAN
  BY <1>1 DEF Interrupts, FlagTypes
<1> QED
  BY <1>2, <1>3, <1>4, <1>5, <1>6, <1>7, <1>8, <1>9, <1>10, <1>11 DEF FlagTypes

LEMMA NextIsClock ==
  ASSUME Next
  PROVE  \E op \in Accesses, push \in BOOLEAN, c \in Chars, enable \in BOOLEAN :
           Clock(op, push, c, enable)
BY DEF Next, Tick

LEMMA TypeStep == TypeOK /\ [Next]_vars => TypeOK'
<1> SUFFICES ASSUME TypeOK, [Next]_vars PROVE TypeOK'
  OBVIOUS
<1>1. FifoTypes /\ RegisterTypes /\ FlagTypes
  BY TypeParts
<1>2. CASE UNCHANGED vars
  BY <1>2 DEF vars, fifoVars, intVars, TypeOK
<1>3. CASE Next
  <2>1. PICK op \in Accesses, push \in BOOLEAN, c \in Chars, enable \in BOOLEAN :
          Clock(op, push, c, enable)
    BY <1>3, NextIsClock
  <2>2. FifoTypes'
    BY <1>1, <2>1, FifoTypesStep DEF Clock
  <2>3. RegisterTypes' /\ FlagTypes'
    BY <1>1, <2>1, RegisterTypesStep, FlagTypesStep
  <2>4. TypeOK' <=> FifoTypes' /\ RegisterTypes' /\ FlagTypes'
    BY DEF TypeOK, FifoTypes, RegisterTypes, FlagTypes, Ring
  <2> QED
    BY <2>2, <2>3, <2>4
<1> QED
  BY <1>2, <1>3

\* The types of the receive side.  They say that the count is the distance of
\* the pointers, however writes, reads and resets of the FIFO fall together.
THEOREM TypeCorrect == Spec => []TypeOK
<1>1. Init => TypeOK
  <2> SUFFICES ASSUME Init PROVE TypeOK
    OBVIOUS
  <2>1. FifoTypes
    <3>1. 0 \in Slots /\ 0 \in 0..FifoDepth
      BY ConstantsAssumption DEF Slots
    <3>2. (0 + 0) % FifoDepth = 0
      BY <3>1, Wraps, ConstantsAssumption
    <3>3. Ring(bottom, count, top)
      BY <3>1, <3>2 DEF Init, Ring
    <3> QED
      BY <3>3 DEF Init, FifoTypes
  <2>2. RegisterTypes
    <3>1. trigger_level \in Triggers
      BY HighestTrigger DEF Init
    <3> QED
      BY <3>1, ConstantsAssumption DEF Init, RegisterTypes
  <2>3. FlagTypes
    BY DEF Init, FlagTypes
  <2> QED
    BY <2>1, <2>2, <2>3, TypeParts
<1> QED
  BY <1>1, TypeStep, PTL DEF Spec

-----------------------------------------------------------------------------
(* What the ring holds.                                                     *)

\* The slot of the character that is read j-th, with the reads at slot b.
SlotOf(b, j) == (b + j - 1) % FifoDepth

\* The characters of the ring, in the order in which they are read.
Contents == [j \in 1..count |-> Entry(j)]

LEMMA SlotAt ==
  ASSUME NEW b \in Slots, NEW j \in 1..FifoDepth
  PROVE  /\ SlotOf(b, j) = IF b + j - 1 < FifoDepth THEN b + j - 1 ELSE b + j - 1 - FifoDepth
         /\ SlotOf(b, j) \in Slots
<1>1. j - 1 \in 0..FifoDepth /\ b + j - 1 = b + (j - 1)
  BY ConstantsAssumption DEF Slots
<1>2. SlotOf(b, j) = IF b + (j - 1) < FifoDepth THEN b + (j - 1) ELSE b + (j - 1) - FifoDepth
  BY <1>1, Wraps DEF SlotOf
<1> QED
  BY <1>1, <1>2, ConstantsAssumption DEF Slots

\* No two characters share a slot, the first one is at b, and a read moves each
\* of them one place forward.
LEMMA SlotsOfRing ==
  ASSUME NEW b \in Slots
  PROVE  /\ \A i, j \in 1..FifoDepth : SlotOf(b, i) = SlotOf(b, j) => i = j
         /\ SlotOf(b, 1) = b
         /\ \A j \in 1..FifoDepth : j < FifoDepth => SlotOf(Succ(b), j) = SlotOf(b, j + 1)
         /\ SlotOf(Succ(b), FifoDepth) = b
<1>1. ASSUME NEW i \in 1..FifoDepth, NEW j \in 1..FifoDepth, SlotOf(b, i) = SlotOf(b, j)
      PROVE  i = j
  <2>1. /\ SlotOf(b, i) = IF b + i - 1 < FifoDepth THEN b + i - 1 ELSE b + i - 1 - FifoDepth
        /\ SlotOf(b, j) = IF b + j - 1 < FifoDepth THEN b + j - 1 ELSE b + j - 1 - FifoDepth
    BY <1>1, SlotAt
  <2>2. /\ b \in Nat /\ i \in Nat /\ j \in Nat /\ FifoDepth \in Nat
        /\ b < FifoDepth /\ 1 <= i /\ i <= FifoDepth /\ 1 <= j /\ j <= FifoDepth
    BY <1>1, ConstantsAssumption DEF Slots
  <2> DEFINE At(k) == IF b + k - 1 < FifoDepth THEN b + k - 1 ELSE b + k - 1 - FifoDepth
  <2>3. At(i) = At(j)
    BY <1>1, <2>1
  <2> QED
    BY <2>2, <2>3
<1>2. SlotOf(b, 1) = b
  BY SlotAt, ConstantsAssumption DEF Slots
<1>3. Succ(b) \in Slots /\ Succ(b) = IF b + 1 < FifoDepth THEN b + 1 ELSE 0
  BY SuccIsSlot
<1>4. ASSUME NEW j \in 1..FifoDepth, j < FifoDepth PROVE SlotOf(Succ(b), j) = SlotOf(b, j + 1)
  <2>1. j + 1 \in 1..FifoDepth
    BY <1>4, ConstantsAssumption
  <2> QED
    BY <1>3, <2>1, SlotAt, ConstantsAssumption DEF Slots
<1>5. SlotOf(Succ(b), FifoDepth) = b
  BY <1>3, SlotAt, ConstantsAssumption DEF Slots
<1> QED
  BY <1>1, <1>2, <1>4, <1>5

\* The slot that a write goes to is the one behind the last character, and with
\* the FIFO full the slot of the first.
LEMMA WriteSlot ==
  ASSUME NEW b, NEW n, NEW t, Ring(b, n, t)
  PROVE  /\ n < FifoDepth => t = SlotOf(b, n + 1)
         /\ n = FifoDepth => t = b
         /\ n > 0 => t = SlotOf(Succ(b), n)
<1>1. b \in Slots /\ t \in Slots /\ n \in 0..FifoDepth
  BY DEF Ring
<1>2. t = IF b + n < FifoDepth THEN b + n ELSE b + n - FifoDepth
  BY <1>1, Wraps DEF Ring
<1>3. ASSUME n < FifoDepth PROVE t = SlotOf(b, n + 1)
  <2>1. n + 1 \in 1..FifoDepth
    BY <1>1, <1>3, ConstantsAssumption
  <2> QED
    BY <1>1, <1>2, <2>1, SlotAt, ConstantsAssumption DEF Slots
<1>4. n = FifoDepth => t = b
  BY <1>1, <1>2, ConstantsAssumption DEF Slots
<1>5. ASSUME n > 0 PROVE t = SlotOf(Succ(b), n)
  <2>1. n \in 1..FifoDepth
    BY <1>1, <1>5, ConstantsAssumption
  <2> QED
    BY <1>1, <1>3, <1>4, <2>1, SlotsOfRing, ConstantsAssumption
<1> QED
  BY <1>3, <1>4, <1>5

LEMMA EntryAt ==
  \A j : Entry(j) = [data |-> ram[SlotOf(bottom, j)], error |-> fifo[SlotOf(bottom, j)]]
BY DEF Entry, SlotOf

LEMMA ContentsAre ==
  ASSUME FifoTypes
  PROVE  /\ Contents \in Seq(Chars) /\ Len(Contents) = count /\ count \in Nat
         /\ \A j \in 1..count : Contents[j] = Entry(j)
<1>1. bottom \in Slots /\ count \in 0..FifoDepth
  BY DEF FifoTypes, Ring
<1>2. ASSUME NEW j \in 1..count PROVE Entry(j) \in Chars
  <2>1. SlotOf(bottom, j) \in Slots
    BY <1>1, SlotAt, ConstantsAssumption
  <2> QED
    BY <2>1, EntryAt DEF FifoTypes, Chars
<1>3. count \in Nat
  BY <1>1, ConstantsAssumption
<1> QED
  BY <1>2, <1>3 DEF Contents

\* The same of the next state.
LEMMA ContentsAreNext ==
  FifoTypes' => /\ Contents' \in Seq(Chars) /\ Len(Contents') = count' /\ count' \in Nat
                /\ \A j \in 1..count' : Contents'[j] = Entry(j)'
<1>1. FifoTypes => /\ Contents \in Seq(Chars) /\ Len(Contents) = count /\ count \in Nat
                   /\ \A j \in 1..count : Contents[j] = Entry(j)
  BY ContentsAre
<1>2. (FifoTypes => /\ Contents \in Seq(Chars) /\ Len(Contents) = count /\ count \in Nat
                    /\ \A j \in 1..count : Contents[j] = Entry(j))'
  BY <1>1, PTL
<1> QED
  BY <1>2

LEMMA EntryAtNext ==
  \A j : Entry(j)' = [data |-> ram'[SlotOf(bottom', j)], error |-> fifo'[SlotOf(bottom', j)]]
BY DEF Entry, SlotOf

LEMMA IsAppend ==
  ASSUME NEW s \in Seq(Chars), NEW t \in Seq(Chars), NEW c \in Chars,
         Len(t) = Len(s) + 1, t[Len(s) + 1] = c, \A i \in 1..Len(s) : t[i] = s[i]
  PROVE  t = Append(s, c)
OBVIOUS

LEMMA IsTail ==
  ASSUME NEW s \in Seq(Chars), NEW t \in Seq(Chars),
         Len(s) = Len(t) + 1, \A i \in 1..Len(t) : t[i] = s[i + 1]
  PROVE  t = Tail(s)
OBVIOUS

LEMMA IsExchange ==
  ASSUME NEW s \in Seq(Chars), NEW t \in Seq(Chars), NEW c \in Chars,
         Len(s) > 0, Len(t) = Len(s), t[Len(s)] = c,
         \A i \in 1..Len(s) : i < Len(s) => t[i] = s[i + 1]
  PROVE  t = Append(Tail(s), c)
OBVIOUS

-----------------------------------------------------------------------------
(* What a clock does to the contents.                                       *)

LEMMA PushAppends ==
  ASSUME FifoTypes, FifoTypes', NEW c \in Chars, count < FifoDepth,
         Push(c), ram' = [ram EXCEPT ![top] = c.data]
  PROVE  Contents' = Append(Contents, c)
<1>1. /\ bottom' = bottom /\ count' = count + 1
      /\ fifo' = [fifo EXCEPT ![top] = c.error]
  BY DEF Push
<1>2. bottom \in Slots /\ top \in Slots /\ count \in 0..FifoDepth
  BY DEF FifoTypes, Ring
<1>3. top = SlotOf(bottom, count + 1)
  BY WriteSlot DEF FifoTypes
<1>4. ASSUME NEW j, j = count + 1 PROVE Entry(j)' = c
  <2>1. Entry(j)' = [data |-> ram'[top], error |-> fifo'[top]]
    BY <1>1, <1>3, <1>4, EntryAtNext
  <2>2. ram'[top] = c.data /\ fifo'[top] = c.error
    BY <1>1, <1>2 DEF FifoTypes
  <2> QED
    BY <2>1, <2>2 DEF Chars
<1>5. ASSUME NEW j \in 1..count PROVE Entry(j)' = Entry(j)
  <2>1. SlotOf(bottom, j) # top /\ SlotOf(bottom, j) \in Slots
    BY <1>2, <1>3, SlotsOfRing, SlotAt, ConstantsAssumption
  <2>2. /\ ram'[SlotOf(bottom, j)] = ram[SlotOf(bottom, j)]
        /\ fifo'[SlotOf(bottom, j)] = fifo[SlotOf(bottom, j)]
    BY <1>1, <2>1 DEF FifoTypes
  <2> QED
    BY <1>1, <2>2, EntryAt, EntryAtNext
<1>6. /\ Contents \in Seq(Chars) /\ Len(Contents) = count /\ count \in Nat
      /\ \A j \in 1..count : Contents[j] = Entry(j)
  BY ContentsAre
<1>7. /\ Contents' \in Seq(Chars) /\ Len(Contents') = count + 1
      /\ \A j \in 1..(count + 1) : Contents'[j] = Entry(j)'
  BY <1>1, ContentsAreNext
<1>8. Contents'[count + 1] = c
  BY <1>4, <1>6, <1>7
<1>9. \A j \in 1..count : Contents'[j] = Contents[j]
  BY <1>5, <1>6, <1>7
<1> QED
  BY <1>6, <1>7, <1>8, <1>9, IsAppend

LEMMA OverrunHitsFirst ==
  ASSUME FifoTypes, FifoTypes', NEW c \in Chars, count = FifoDepth,
         Push(c), ram' = [ram EXCEPT ![top] = c.data]
  PROVE  Contents' = [Contents EXCEPT ![1].data = c.data]
<1>1. bottom' = bottom /\ count' = count /\ fifo' = fifo
  BY ConstantsAssumption DEF Push
<1>2. bottom \in Slots /\ top \in Slots /\ count \in Nat /\ count > 0
  BY ConstantsAssumption DEF FifoTypes, Ring
<1>3. top = SlotOf(bottom, 1) /\ bottom = SlotOf(bottom, 1)
  BY <1>2, WriteSlot, SlotsOfRing DEF FifoTypes
<1>4. Entry(1)' = [Entry(1) EXCEPT !.data = c.data]
  <2>1. Entry(1)' = [data |-> ram'[top], error |-> fifo[top]]
    BY <1>1, <1>3, EntryAtNext
  <2>2. ram'[top] = c.data
    BY <1>2 DEF FifoTypes
  <2>3. Entry(1) = [data |-> ram[top], error |-> fifo[top]]
    BY <1>3, EntryAt
  <2> QED
    BY <2>1, <2>2, <2>3
<1>5. ASSUME NEW j \in 1..count, j # 1 PROVE Entry(j)' = Entry(j)
  <2>1. SlotOf(bottom, j) # top /\ SlotOf(bottom, j) \in Slots
    BY <1>2, <1>3, <1>5, SlotsOfRing, SlotAt, ConstantsAssumption
  <2>2. ram'[SlotOf(bottom, j)] = ram[SlotOf(bottom, j)]
    BY <2>1 DEF FifoTypes
  <2> QED
    BY <1>1, <2>2, EntryAt, EntryAtNext
<1>6. /\ Contents \in Seq(Chars) /\ Len(Contents) = count
      /\ \A j \in 1..count : Contents[j] = Entry(j)
  BY ContentsAre
<1>7. /\ Contents' \in Seq(Chars) /\ Len(Contents') = count
      /\ \A j \in 1..count : Contents'[j] = Entry(j)'
  BY <1>1, ContentsAreNext
<1>8. Contents'[1] = [Contents[1] EXCEPT !.data = c.data]
  BY <1>2, <1>4, <1>6, <1>7
<1>9. \A j \in 1..count : j # 1 => Contents'[j] = Contents[j]
  BY <1>5, <1>6, <1>7
<1> QED
  BY <1>2, <1>6, <1>7, <1>8, <1>9

LEMMA PopTakesFirst ==
  ASSUME FifoTypes, FifoTypes', count > 0, Pop, ram' = ram
  PROVE  Contents' = Tail(Contents)
<1>1. /\ bottom' = Succ(bottom) /\ count' = count - 1
      /\ fifo' = [fifo EXCEPT ![bottom] = FALSE]
  BY DEF Pop
<1>2. bottom \in Slots /\ count \in 0..FifoDepth
  BY DEF FifoTypes, Ring
<1>3. ASSUME NEW j \in 1..(count - 1) PROVE Entry(j)' = Entry(j + 1)
  <2>1. j \in 1..FifoDepth /\ j < FifoDepth /\ j + 1 \in 1..FifoDepth /\ j + 1 # 1
    BY <1>2, ConstantsAssumption
  <2>2. SlotOf(Succ(bottom), j) = SlotOf(bottom, j + 1)
    BY <1>2, <2>1, SlotsOfRing
  <2>3. SlotOf(bottom, 1) = bottom /\ 1 \in 1..FifoDepth
    BY <1>2, SlotsOfRing, ConstantsAssumption
  <2>4. SlotOf(bottom, j + 1) # bottom /\ SlotOf(bottom, j + 1) \in Slots
    BY <1>2, <2>1, <2>3, SlotsOfRing, SlotAt
  <2>5. fifo'[SlotOf(bottom, j + 1)] = fifo[SlotOf(bottom, j + 1)]
    BY <1>1, <2>4 DEF FifoTypes
  <2> QED
    BY <1>1, <2>2, <2>5, EntryAt, EntryAtNext
<1>4. /\ Contents \in Seq(Chars) /\ Len(Contents) = count /\ count \in Nat
      /\ \A j \in 1..count : Contents[j] = Entry(j)
  BY ContentsAre
<1>5. /\ Contents' \in Seq(Chars) /\ Len(Contents') = count - 1
      /\ \A j \in 1..(count - 1) : Contents'[j] = Entry(j)'
  BY <1>1, ContentsAreNext
<1>6. \A j \in 1..(count - 1) : Contents'[j] = Contents[j + 1]
  BY <1>3, <1>4, <1>5
<1> QED
  BY <1>4, <1>5, <1>6, IsTail

\* With the FIFO full the character that arrives takes the slot of the one
\* that is read.
LEMMA PushPopExchanges ==
  ASSUME FifoTypes, FifoTypes', NEW c \in Chars, count > 0,
         PushPop(c), ram' = [ram EXCEPT ![top] = c.data]
  PROVE  Contents' = Append(Tail(Contents), c)
<1>1. /\ bottom' = Succ(bottom) /\ count' = count
      /\ fifo' = [fifo EXCEPT ![top] = c.error]
  BY DEF PushPop
<1>2. bottom \in Slots /\ top \in Slots /\ Succ(bottom) \in Slots /\ count \in 0..FifoDepth
  BY SuccIsSlot DEF FifoTypes, Ring
<1>3. top = SlotOf(Succ(bottom), count)
  BY WriteSlot DEF FifoTypes
<1>4. ASSUME NEW j, j = count PROVE Entry(j)' = c
  <2>1. Entry(j)' = [data |-> ram'[top], error |-> fifo'[top]]
    BY <1>1, <1>3, <1>4, EntryAtNext
  <2>2. ram'[top] = c.data /\ fifo'[top] = c.error
    BY <1>1, <1>2 DEF FifoTypes
  <2> QED
    BY <2>1, <2>2 DEF Chars
<1>5. ASSUME NEW j \in 1..count, j < count PROVE Entry(j)' = Entry(j + 1)
  <2>1. j \in 1..FifoDepth /\ j < FifoDepth /\ count \in 1..FifoDepth /\ j # count
    BY <1>2, <1>5, ConstantsAssumption
  <2>2. SlotOf(Succ(bottom), j) = SlotOf(bottom, j + 1)
    BY <1>2, <2>1, SlotsOfRing
  <2>3. SlotOf(Succ(bottom), j) # top /\ SlotOf(Succ(bottom), j) \in Slots
    BY <1>2, <1>3, <2>1, SlotsOfRing, SlotAt
  <2>4. /\ ram'[SlotOf(bottom, j + 1)] = ram[SlotOf(bottom, j + 1)]
        /\ fifo'[SlotOf(bottom, j + 1)] = fifo[SlotOf(bottom, j + 1)]
    BY <1>1, <2>2, <2>3 DEF FifoTypes
  <2> QED
    BY <1>1, <2>2, <2>4, EntryAt, EntryAtNext
<1>6. /\ Contents \in Seq(Chars) /\ Len(Contents) = count /\ count \in Nat
      /\ \A j \in 1..count : Contents[j] = Entry(j)
  BY ContentsAre
<1>7. /\ Contents' \in Seq(Chars) /\ Len(Contents') = count
      /\ \A j \in 1..count : Contents'[j] = Entry(j)'
  BY <1>1, ContentsAreNext
<1>8. Contents'[count] = c
  BY <1>4, <1>6, <1>7
<1>9. \A j \in 1..count : j < count => Contents'[j] = Contents[j + 1]
  <2> SUFFICES ASSUME NEW j \in 1..count, j < count PROVE Contents'[j] = Contents[j + 1]
    OBVIOUS
  <2>1. j + 1 \in 1..count
    BY <1>6
  <2> QED
    BY <1>5, <1>6, <1>7, <2>1
<1> QED
  BY <1>6, <1>7, <1>8, <1>9, IsExchange

-----------------------------------------------------------------------------
(* The queue.                                                               *)

\* Data ready is up while there is any, and it is not held down by an edge
\* detector that has seen a character just before: characters are too long for
\* that.
ReadyInv == (count > 0 => lsr0r) /\ (lsr0_d => line > 0)

LEMMA FifoMoves ==
  ASSUME NEW push \in BOOLEAN, NEW c, Fifo(push, c)
  PROVE  /\ rx_reset => FifoReset
         /\ ~rx_reset /\ push /\ ~rf_pop => Push(c)
         /\ ~rx_reset /\ ~push /\ rf_pop => Pop
         /\ ~rx_reset /\ push /\ rf_pop => PushPop(c)
         /\ ~rx_reset /\ ~push /\ ~rf_pop => UNCHANGED <<fifo, top, bottom, count>>
         /\ ram' = IF push THEN [ram EXCEPT ![top] = c.data] ELSE ram
BY DEF Fifo

LEMMA ReadyMoves ==
  ASSUME NEW push \in BOOLEAN, DataReady(push)
  PROVE  /\ lsr0_d' => push
         /\ (count = 1 /\ rf_pop /\ ~push) \/ rx_reset => ~lsr0r'
         /\ ~((count = 1 /\ rf_pop /\ ~push) \/ rx_reset) =>
              (lsr0r' <=> lsr0r \/ (count = 0 /\ push /\ ~lsr0_d))
<1>1. lsr0_d' => push
  BY Zenon DEF DataReady, lsr0
<1>2. (count = 1 /\ rf_pop /\ ~push) \/ rx_reset => ~lsr0r'
  BY DEF DataReady
<1>3. ~((count = 1 /\ rf_pop /\ ~push) \/ rx_reset) =>
        (lsr0r' <=> lsr0r \/ (count = 0 /\ push /\ ~lsr0_d))
  BY Zenon DEF DataReady, lsr0
<1> QED
  BY <1>1, <1>2, <1>3

LEMMA ReadyStep == TypeOK /\ ReadyInv /\ [Next]_vars => ReadyInv'
<1> SUFFICES ASSUME TypeOK, ReadyInv, [Next]_vars PROVE ReadyInv'
  OBVIOUS
<1>1. CASE UNCHANGED vars
  BY <1>1 DEF vars, fifoVars, ReadyInv
<1>2. CASE Next
  <2>1. PICK op \in Accesses, push \in BOOLEAN, c \in Chars, enable \in BOOLEAN :
          Clock(op, push, c, enable)
    BY <1>2, NextIsClock
  <2>2. push => ~lsr0_d
    <3>1. push => line = 0
      BY <2>1 DEF Clock
    <3> QED
      BY <3>1 DEF ReadyInv
  <2>3. lsr0_d' => push
    BY <2>1, ReadyMoves DEF Clock
  <2>4. push => line' = CharTime
    BY <2>1 DEF Clock
  <2>5. lsr0_d' => line' > 0
    BY <2>3, <2>4, ConstantsAssumption
  <2>6. count \in Nat
    BY ConstantsAssumption DEF TypeOK
  <2>7. DataReady(push) /\ Fifo(push, c)
    BY <2>1 DEF Clock
  <2>8. ASSUME count' > 0 PROVE lsr0r'
    <3>1. ~rx_reset
      BY <2>7, <2>8, FifoMoves DEF FifoReset
    <3>2. CASE push
      <4>1. lsr0r' <=> lsr0r \/ count = 0
        BY <2>2, <2>7, <3>1, <3>2, ReadyMoves
      <4>2. count = 0 \/ lsr0r
        BY <2>6 DEF ReadyInv
      <4> QED
        BY <4>1, <4>2
    <3>3. CASE ~push /\ rf_pop
      <4>1. Pop
        BY <2>7, <3>1, <3>3, FifoMoves
      <4>2. count > 1
        BY <2>6, <2>8, <4>1 DEF Pop
      <4> QED
        BY <2>6, <2>7, <3>1, <3>3, <4>2, ReadyMoves DEF ReadyInv
    <3>4. CASE ~push /\ ~rf_pop
      <4>1. count' = count
        BY <2>7, <3>1, <3>4, FifoMoves
      <4> QED
        BY <2>7, <2>8, <3>1, <3>4, <4>1, ReadyMoves DEF ReadyInv
    <3> QED
      BY <3>2, <3>3, <3>4
  <2> QED
    BY <2>5, <2>8 DEF ReadyInv
<1> QED
  BY <1>1, <1>2

\* A clock is a step of the queue, or leaves it as it is.
LEMMA ClockIsQueueStep ==
  ASSUME TypeOK, TypeOK', ReadyInv, ReadyInv',
         NEW op \in Accesses, NEW push \in BOOLEAN, NEW c \in Chars, NEW enable \in BOOLEAN,
         Clock(op, push, c, enable)
  PROVE  \/ Len(Contents) < FifoDepth /\ Contents' = Append(Contents, c) /\ lsr0r' = TRUE
         \/ /\ Len(Contents) = FifoDepth
            /\ Contents' = [Contents EXCEPT ![1].data = c.data]
            /\ lsr0r' = lsr0r
         \/ Contents # <<>> /\ Contents' = Append(Tail(Contents), c) /\ lsr0r' = lsr0r
         \/ Contents # <<>> /\ Contents' = Tail(Contents) /\ lsr0r' = (Len(Contents) > 1)
         \/ Contents = <<>> /\ lsr0r' = TRUE /\ Contents' = Contents
         \/ Contents' = <<>> /\ lsr0r' = FALSE
         \/ Contents' = Contents /\ lsr0r' = lsr0r
<1>1. FifoTypes /\ FifoTypes'
  BY DEF TypeOK, FifoTypes, Ring
<1>2. lsr0r \in BOOLEAN /\ lsr0r' \in BOOLEAN
  BY DEF TypeOK
<1>3. /\ Contents \in Seq(Chars) /\ Len(Contents) = count /\ count \in Nat
      /\ Contents' \in Seq(Chars) /\ Len(Contents') = count'
  BY <1>1, ContentsAre, ContentsAreNext
<1>4. count \in 0..FifoDepth
  BY DEF TypeOK
<1>5. DataReady(push) /\ Fifo(push, c) /\ (push => line = 0)
  BY DEF Clock
<1>6. push => ~lsr0_d
  BY <1>5 DEF ReadyInv
<1>7. Contents = <<>> <=> count = 0
  BY <1>3
<1>8. CASE rx_reset
  <2>1. count' = 0
    BY <1>5, <1>8, FifoMoves DEF FifoReset
  <2>2. Contents' = <<>>
    BY <1>3, <2>1
  <2>3. lsr0r' = FALSE
    BY <1>2, <1>5, <1>8, ReadyMoves
  <2> QED
    BY <2>2, <2>3
<1>9. CASE ~rx_reset /\ push /\ ~rf_pop
  <2>1. Push(c) /\ ram' = [ram EXCEPT ![top] = c.data]
    BY <1>5, <1>9, FifoMoves
  <2>2. lsr0r' <=> lsr0r \/ count = 0
    BY <1>5, <1>6, <1>9, ReadyMoves
  <2>3. CASE count < FifoDepth
    <3>1. Contents' = Append(Contents, c)
      BY <1>1, <2>1, <2>3, PushAppends
    <3>2. count = 0 \/ lsr0r
      BY <1>3 DEF ReadyInv
    <3>3. lsr0r' = TRUE
      BY <1>2, <2>2, <3>2
    <3> QED
      BY <1>3, <2>3, <3>1, <3>3
  <2>4. CASE count = FifoDepth
    <3>1. Contents' = [Contents EXCEPT ![1].data = c.data]
      BY <1>1, <2>1, <2>4, OverrunHitsFirst
    <3>2. count # 0
      BY <2>4, ConstantsAssumption
    <3>3. lsr0r' = lsr0r
      BY <1>2, <2>2, <3>2
    <3> QED
      BY <1>3, <2>4, <3>1, <3>3
  <2>5. count < FifoDepth \/ count = FifoDepth
    BY <1>4, ConstantsAssumption
  <2> QED
    BY <2>3, <2>4, <2>5
<1>10. CASE ~rx_reset /\ push /\ rf_pop
  <2>1. PushPop(c) /\ ram' = [ram EXCEPT ![top] = c.data]
    BY <1>5, <1>10, FifoMoves
  <2>2. lsr0r' <=> lsr0r \/ count = 0
    BY <1>5, <1>6, <1>10, ReadyMoves
  <2>3. CASE count > 0
    <3>1. Contents' = Append(Tail(Contents), c)
      BY <1>1, <2>1, <2>3, PushPopExchanges
    <3>2. lsr0r' = lsr0r
      BY <1>2, <1>3, <2>2, <2>3
    <3> QED
      BY <1>3, <1>7, <2>3, <3>1, <3>2
  <2>4. CASE count = 0
    <3>1. count' = 0
      BY <2>1, <2>4 DEF PushPop
    <3>2. Contents' = Contents
      BY <1>3, <2>4, <3>1
    <3>3. lsr0r' = TRUE
      BY <1>2, <2>2, <2>4
    <3> QED
      BY <1>7, <2>4, <3>2, <3>3
  <2>5. count > 0 \/ count = 0
    BY <1>3
  <2> QED
    BY <2>3, <2>4, <2>5
<1>11. CASE ~rx_reset /\ ~push /\ rf_pop
  <2>1. Pop /\ ram' = ram
    BY <1>5, <1>11, FifoMoves
  <2>2. CASE count > 0
    <3>1. Contents' = Tail(Contents)
      BY <1>1, <2>1, <2>2, PopTakesFirst
    <3>2. lsr0r' <=> count > 1
      <4>1. CASE count = 1
        BY <1>5, <1>11, <4>1, ReadyMoves
      <4>2. CASE count > 1
        <5>1. lsr0r
          BY <1>3, <4>2 DEF ReadyInv
        <5> QED
          BY <1>3, <1>5, <1>11, <4>2, <5>1, ReadyMoves
      <4> QED
        BY <1>3, <2>2, <4>1, <4>2
    <3>3. lsr0r' = (Len(Contents) > 1)
      BY <1>2, <1>3, <3>2
    <3> QED
      BY <1>3, <1>7, <2>2, <3>1, <3>3
  <2>3. CASE count = 0
    <3>1. count' = 0
      BY <2>1, <2>3 DEF Pop
    <3>2. Contents' = Contents
      BY <1>3, <2>3, <3>1
    <3>3. lsr0r' = lsr0r
      BY <1>2, <1>5, <1>11, <2>3, ReadyMoves
    <3> QED
      BY <3>2, <3>3
  <2>4. count > 0 \/ count = 0
    BY <1>3
  <2> QED
    BY <2>2, <2>3, <2>4
<1>12. CASE ~rx_reset /\ ~push /\ ~rf_pop
  <2>1. UNCHANGED <<ram, fifo, top, bottom, count>>
    BY <1>5, <1>12, FifoMoves
  <2>2. Contents' = Contents
    BY <2>1 DEF Contents, Entry
  <2>3. lsr0r' = lsr0r
    BY <1>2, <1>5, <1>12, ReadyMoves
  <2> QED
    BY <2>2, <2>3
<1> QED
  BY <1>8, <1>9, <1>10, <1>11, <1>12

\* The receive FIFO is the bounded queue of ReceiveQueue, for a FIFO of any
\* depth: every character comes out once and in order, with its own error bit
\* and its own data (unless an overrun has changed them), and data ready is up
\* while there is one.
THEOREM ReceivesAsAQueue == Spec => ImplementsReceiveQueue
<1>1. Init => Queue!Init
  <2> SUFFICES ASSUME Init PROVE Contents = <<>> /\ lsr0r = FALSE
    BY DEF Queue!Init, Contents
  <2> QED
    BY DEF Init, Contents
<1>2. Init => ReadyInv
  BY DEF Init, ReadyInv
<1>3. TypeOK /\ TypeOK' /\ ReadyInv /\ ReadyInv' /\ [Next]_vars
        => [Queue!Next]_<<Contents, lsr0r>>
  <2> SUFFICES ASSUME TypeOK, TypeOK', ReadyInv, ReadyInv', [Next]_vars
               PROVE  Queue!Next \/ (Contents' = Contents /\ lsr0r' = lsr0r)
    OBVIOUS
  <2>1. CASE UNCHANGED vars
    BY <2>1 DEF vars, fifoVars, Contents, Entry
  <2>2. CASE Next
    <3>1. PICK op \in Accesses, push \in BOOLEAN, c \in Chars, enable \in BOOLEAN :
            Clock(op, push, c, enable)
      BY <2>2, NextIsClock
    <3>2. \/ Queue!Arrive(c) \/ Queue!Overrun(c) \/ Queue!Exchange(c)
          \/ Queue!Read \/ Queue!Vanish \/ Queue!Clear
          \/ Contents' = Contents /\ lsr0r' = lsr0r
      BY <3>1, ClockIsQueueStep
         DEF Contents, Queue!Arrive, Queue!Overrun, Queue!Exchange,
             Queue!Read, Queue!Vanish, Queue!Clear
    <3> QED
      BY <3>2 DEF Queue!Next
  <2> QED
    BY <2>1, <2>2
<1>4. [Queue!Next]_<<Contents, lsr0r>> => [Queue!Next]_<<[j \in 1..count |-> Entry(j)], lsr0r>>
  BY DEF Contents
<1> QED
  BY <1>1, <1>2, <1>3, <1>4, TypeCorrect, ReadyStep, PTL
     DEF Spec, ImplementsReceiveQueue, Queue!Spec
=============================================================================
