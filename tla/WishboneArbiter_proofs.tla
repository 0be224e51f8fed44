------------------------ MODULE WishboneArbiter_proofs ------------------------
(***************************************************************************)
(* Proofs about the system bus, for any number of masters, any burst       *)
(* length and any depth of the slave.                                      *)
(***************************************************************************)
EXTENDS WishboneArbiter, TLAPS, WellFoundedInduction

\* A set of masters has a smallest one: the priority decides.
LEMMA SmallestMaster ==
  ASSUME NEW S \in SUBSET Masters, S # {}
  PROVE  \E i \in S : \A j \in S : i <= j
<1>1. S \subseteq Nat
  BY ConstantsAssumption DEF Masters
<1>2. \E x \in S : \A y \in S : ~(<<y, x>> \in OpToRel(<, Nat))
  BY <1>1, NatLessThanWellFounded, WFMin
<1>3. PICK x \in S : \A y \in S : ~(<<y, x>> \in OpToRel(<, Nat))
  BY <1>2
<1>4. ASSUME NEW y \in S
      PROVE  x <= y
  <2>1. ~(y < x)
    BY <1>1, <1>3 DEF OpToRel
  <2>2. QED
    BY <1>1, <2>1
<1>5. QED
  BY <1>4

LEMMA EffectiveIsMaster ==
  ASSUME selected \in Masters
  PROVE  effective \in Masters
<1>1. Requesting \in SUBSET Masters
  BY DEF Requesting
<1>2. candidate \in Masters
  <2>1. CASE Requesting = {}
    BY <2>1 DEF candidate
  <2>2. CASE Requesting # {}
    BY <1>1, <2>2, SmallestMaster DEF candidate
  <2>3. QED
    BY <2>1, <2>2
<1>3. QED
  BY <1>2 DEF effective

-----------------------------------------------------------------------------
(* Type correctness.                                                        *)

LEMMA MastersMoveTypes ==
  ASSUME TypeOK, NEW stall \in BOOLEAN, NEW ack \in BOOLEAN, NEW reset,
         MastersMove(stall, ack, reset)
  PROVE  due' \in [Masters -> 0..MaxBurst] /\ todo' \in [Masters -> 0..MaxBurst]
<1>1. PICK start \in [Masters -> 0..MaxBurst] :
        /\ \A i \in Masters : cyc(i) => start[i] = 0
        /\ due'  = [i \in Masters |-> IF i \in reset THEN 0 ELSE Due(i, ack) + start[i]]
        /\ todo' = [i \in Masters |-> IF i \in reset THEN 0 ELSE Todo(i, stall, ack) + start[i]]
  BY DEF MastersMove
<1>2. ASSUME NEW i \in Masters
      PROVE  /\ Due(i, ack) + start[i] \in 0..MaxBurst
             /\ Todo(i, stall, ack) + start[i] \in 0..MaxBurst
  <2>1. due[i] \in 0..MaxBurst /\ todo[i] \in 0..MaxBurst /\ start[i] \in 0..MaxBurst
    BY <1>1 DEF TypeOK
  <2>2. MaxBurst \in Nat
    BY ConstantsAssumption
  <2>3. CASE cyc(i)
    <3>1. start[i] = 0
      BY <1>1, <2>3
    <3>2. Due(i, ack) \in 0..MaxBurst
      BY <2>1, <2>2, <2>3 DEF Due, cyc
    <3>3. Todo(i, stall, ack) \in 0..MaxBurst
      BY <2>1, <2>2 DEF Todo, Taken, stb
    <3>4. QED
      BY <2>2, <3>1, <3>2, <3>3
  <2>4. CASE ~cyc(i)
    <3>1. Due(i, ack) = 0
      BY <2>1, <2>2, <2>4 DEF Due, Acked, cyc
    <3>2. Todo(i, stall, ack) = 0
      BY <3>1 DEF Todo
    <3>3. QED
      BY <2>1, <2>2, <3>1, <3>2
  <2>5. QED
    BY <2>3, <2>4
<1>3. MaxBurst \in Nat
  BY ConstantsAssumption
<1>4. due' \in [Masters -> 0..MaxBurst]
  BY <1>1, <1>2, <1>3
<1>5. todo' \in [Masters -> 0..MaxBurst]
  BY <1>1, <1>2, <1>3
<1>6. QED
  BY <1>4, <1>5

LEMMA TypeStep == TypeOK /\ [Next]_vars => TypeOK'
<1> SUFFICES ASSUME TypeOK, [Next]_vars
             PROVE  TypeOK'
  OBVIOUS
<1>1. ASSUME NEW stall \in BOOLEAN, NEW ack \in BOOLEAN, NEW reset,
             Clock(stall, ack, reset)
      PROVE  TypeOK'
  <2>1. due' \in [Masters -> 0..MaxBurst] /\ todo' \in [Masters -> 0..MaxBurst]
    BY <1>1, MastersMoveTypes DEF Clock
  <2>2. effective \in Masters
    BY EffectiveIsMaster DEF TypeOK
  <2>3. Arrived(stall) \in Seq(Masters)
    BY <2>2 DEF Arrived, TypeOK
  <2>4. queue' \in Seq(Masters)
    BY <1>1, <2>3 DEF Clock
  <2>5. orphaned' \in BOOLEAN
    BY <1>1 DEF Clock
  <2>6. QED
    BY <1>1, <2>1, <2>2, <2>4, <2>5 DEF TypeOK, Clock
<1>2. CASE SystemReset
  <2>1. 0 \in Masters /\ 0 \in 0..MaxBurst
    BY ConstantsAssumption DEF Masters
  <2>2. [i \in Masters |-> 0] \in [Masters -> 0..MaxBurst]
    BY <2>1
  <2>3. <<>> \in Seq(Masters)
    OBVIOUS
  <2>4. due' \in [Masters -> 0..MaxBurst] /\ todo' \in [Masters -> 0..MaxBurst]
    BY <1>2, <2>2 DEF SystemReset
  <2>5. QED
    BY <1>2, <2>1, <2>3, <2>4 DEF SystemReset, TypeOK
<1>3. CASE UNCHANGED vars
  BY <1>3 DEF vars, TypeOK
<1>4. QED
  BY <1>1, <1>2, <1>3 DEF Next, RunClock, CoreReset

\* The bus keeps to its types, whatever its masters and its slave do.
THEOREM TypeCorrect == Spec => []TypeOK
<1>1. Init => TypeOK
  BY ConstantsAssumption DEF Init, TypeOK, Masters
<1>2. QED
  BY <1>1, TypeStep, PTL DEF Spec

-----------------------------------------------------------------------------
(* Answers go where they belong.  AnswersAreOwners is inductive: the master *)
(* that has the bus owns everything inside the slave (EffectiveOwns), and a *)
(* free bus means an empty slave.                                           *)

LEMMA EffectiveOwns ==
  ASSUME TypeOK, AnswersAreOwners, ~orphaned
  PROVE  /\ \A k \in 1..Len(queue) : queue[k] = effective
         /\ due[effective] = todo[effective] + Len(queue)
         /\ \A i \in Masters : i # effective => due[i] = todo[i]
<1>1. CASE busy
  BY <1>1 DEF effective, AnswersAreOwners
<1>2. CASE ~busy
  <2>1. due[selected] = 0 /\ todo[selected] \in Nat /\ Len(queue) \in Nat
    BY <1>2, ConstantsAssumption DEF busy, cyc, TypeOK
  <2>2. Len(queue) = 0 /\ todo[selected] = 0
    BY <2>1 DEF AnswersAreOwners
  <2>3. \A i \in Masters : due[i] = todo[i]
    BY <2>1, <2>2 DEF AnswersAreOwners
  <2>4. effective \in Masters
    BY EffectiveIsMaster DEF TypeOK
  <2>5. todo[effective] \in Nat
    BY <2>4, ConstantsAssumption DEF TypeOK
  <2>6. QED
    BY <2>2, <2>3, <2>4, <2>5
<1>3. QED
  BY <1>1, <1>2

LEMMA ClockKeepsOwners ==
  ASSUME TypeOK, AnswersAreOwners, ~orphaned,
         NEW stall \in BOOLEAN, NEW ack \in BOOLEAN, NEW reset,
         Clock(stall, ack, reset), effective \notin reset
  PROVE  AnswersAreOwners'
<1> DEFINE e == effective
           d == due[e]
           t == todo[e]
           q == Len(queue)
<1>1. e \in Masters
  BY EffectiveIsMaster DEF TypeOK
<1>2. /\ \A k \in 1..Len(queue) : queue[k] = e
      /\ due[e] = todo[e] + Len(queue)
      /\ \A i \in Masters : i # e => due[i] = todo[i]
  BY EffectiveOwns
<1>3. PICK start \in [Masters -> 0..MaxBurst] :
        /\ \A i \in Masters : cyc(i) => start[i] = 0
        /\ due'  = [i \in Masters |-> IF i \in reset THEN 0 ELSE Due(i, ack) + start[i]]
        /\ todo' = [i \in Masters |-> IF i \in reset THEN 0 ELSE Todo(i, stall, ack) + start[i]]
  BY DEF Clock, MastersMove
<1>4. selected' = e
  BY DEF Clock
<1>5. ASSUME NEW i \in Masters, i # e
      PROVE  due'[i] = todo'[i]
  <2>1. ~Taken(i, stall) /\ ~Acked(i, ack)
    BY <1>5 DEF Taken, Acked
  <2>2. due[i] = todo[i]
    BY <1>2, <1>5
  <2>3. Due(i, ack) = Todo(i, stall, ack)
    BY <2>1, <2>2 DEF Due, Todo
  <2>4. QED
    BY <1>3, <2>3
<1>6. due[e] \in Nat /\ todo[e] \in Nat /\ queue \in Seq(Masters) /\ Len(queue) \in Nat
  BY <1>1, ConstantsAssumption DEF TypeOK
<1>7. d \in Nat /\ t \in Nat /\ q \in Nat
  BY <1>6
<1> HIDE DEF d, t, q
<1>16. start[e] \in Nat
  BY <1>1, <1>3, ConstantsAssumption
<1>8. due'[e] = Due(e, ack) + start[e] /\ todo'[e] = Todo(e, stall, ack) + start[e]
  BY <1>1, <1>3
<1>9. /\ Arrived(stall) \in Seq(Masters)
      /\ \A k \in 1..Len(Arrived(stall)) : Arrived(stall)[k] = e
      /\ Len(Arrived(stall)) = IF Taken(e, stall) THEN Len(queue) + 1 ELSE Len(queue)
  BY <1>1, <1>2, <1>6 DEF Arrived
<1>10. ack => Arrived(stall) # <<>>
  BY DEF Clock
<1>11. queue' = IF ack THEN Tail(Arrived(stall)) ELSE Arrived(stall)
  BY DEF Clock
<1>12. /\ \A k \in 1..Len(queue') : queue'[k] = e
       /\ Len(queue') = IF ack THEN Len(Arrived(stall)) - 1 ELSE Len(Arrived(stall))
  <2>1. CASE ack
    <3>1. Len(Arrived(stall)) > 0
      BY <1>9, <1>10, <2>1
    <3>2. Len(queue') = Len(Arrived(stall)) - 1
      BY <1>9, <1>11, <2>1, <3>1
    <3>3. ASSUME NEW k \in 1..Len(queue')
          PROVE  queue'[k] = e
      <4>1. k + 1 \in 1..Len(Arrived(stall)) /\ queue'[k] = Arrived(stall)[k + 1]
        BY <1>9, <1>11, <2>1, <3>1, <3>2, <3>3
      <4>2. QED
        BY <1>9, <4>1
    <3>4. QED
      BY <2>1, <3>2, <3>3
  <2>2. CASE ~ack
    BY <1>9, <1>11, <2>2
  <2>3. QED
    BY <2>1, <2>2
<1>13. Due(e, ack) = Todo(e, stall, ack) + Len(queue')
  <2>1. CASE ~cyc(e)
    <3>1. due[e] = 0 /\ todo[e] = 0 /\ Len(queue) = 0
      BY <1>2, <1>6, <2>1 DEF cyc
    <3>2. ~Taken(e, stall) /\ Len(Arrived(stall)) = 0
      BY <1>9, <3>1 DEF Taken, stb
    <3>3. ~ack
      BY <1>9, <1>10, <3>2
    <3>4. Due(e, ack) = 0
      BY <2>1, <3>1 DEF Due, Acked
    <3>5. Todo(e, stall, ack) = 0
      BY <3>4 DEF Todo
    <3>6. Len(queue') = 0
      BY <1>12, <3>2, <3>3
    <3>7. QED
      BY <3>4, <3>5, <3>6
  <2>2. CASE cyc(e)
    <3>1. d = t + q /\ d > 0
      BY <1>2, <2>2 DEF cyc, d, t, q
    <3>2. Due(e, ack) = IF ack THEN d - 1 ELSE d
      BY <2>2 DEF Due, Acked, d
    <3>3. Todo(e, stall, ack) = IF Due(e, ack) = 0 THEN 0
                                ELSE IF Taken(e, stall) THEN t - 1 ELSE t
      BY DEF Todo, t
    <3>4. Taken(e, stall) => t > 0
      BY DEF Taken, stb, t
    <3>5. Len(Arrived(stall)) = IF Taken(e, stall) THEN q + 1 ELSE q
      BY <1>9 DEF q
    <3>6. ack => Len(Arrived(stall)) > 0
      BY <1>9, <1>10
    <3>7. CASE Taken(e, stall) /\ ack
      <4>1. Len(queue') = q /\ Due(e, ack) = d - 1
        BY <1>12, <1>7, <3>2, <3>5, <3>7
      <4>2. Todo(e, stall, ack) = t - 1
        <5>1. t > 0
          BY <3>4, <3>7
        <5>2. Due(e, ack) = 0 => t - 1 = 0
          BY <1>7, <3>1, <4>1, <5>1
        <5>3. QED
          BY <3>3, <3>7, <5>2
      <4>3. QED
        BY <1>7, <3>1, <4>1, <4>2
    <3>8. CASE Taken(e, stall) /\ ~ack
      <4>1. Len(queue') = q + 1 /\ Due(e, ack) = d
        BY <1>12, <3>2, <3>5, <3>8
      <4>2. Todo(e, stall, ack) = t - 1
        <5>1. Due(e, ack) # 0
          BY <1>7, <3>1, <4>1
        <5>2. QED
          BY <3>3, <3>8, <5>1
      <4>3. QED
        BY <1>7, <3>1, <4>1, <4>2
    <3>9. CASE ~Taken(e, stall) /\ ack
      <4>1. Len(queue') = q - 1 /\ Due(e, ack) = d - 1 /\ q > 0
        BY <1>12, <3>2, <3>5, <3>6, <3>9
      <4>2. Todo(e, stall, ack) = t
        <5>1. Due(e, ack) = 0 => t = 0
          BY <1>7, <3>1, <4>1
        <5>2. QED
          BY <3>3, <3>9, <5>1
      <4>3. QED
        BY <1>7, <3>1, <4>1, <4>2
    <3>10. CASE ~Taken(e, stall) /\ ~ack
      <4>1. Len(queue') = q /\ Due(e, ack) = d /\ Todo(e, stall, ack) = t
        BY <1>12, <1>7, <3>1, <3>2, <3>3, <3>5, <3>10
      <4>2. QED
        BY <3>1, <4>1
    <3>11. QED
      BY <3>7, <3>8, <3>9, <3>10
  <2>3. QED
    BY <2>1, <2>2
<1>14. due'[e] = todo'[e] + Len(queue')
  <2>1. Todo(e, stall, ack) \in Int /\ Len(queue') \in Int
    BY <1>6, <1>9, <1>12 DEF Todo
  <2>2. QED
    BY <1>16, <1>8, <1>13, <2>1
<1>15. QED
  BY <1>4, <1>5, <1>12, <1>14 DEF AnswersAreOwners

LEMMA OwnersStep == TypeOK /\ AnswersAreOwners /\ [Next]_vars => AnswersAreOwners'
<1> SUFFICES ASSUME TypeOK, AnswersAreOwners, [Next]_vars
             PROVE  AnswersAreOwners'
  OBVIOUS
<1>1. ASSUME NEW stall \in BOOLEAN, NEW ack \in BOOLEAN, NEW reset,
             Clock(stall, ack, reset)
      PROVE  AnswersAreOwners'
  <2>1. CASE ~orphaned /\ effective \notin reset
    BY <1>1, <2>1, ClockKeepsOwners
  <2>2. CASE orphaned \/ effective \in reset
    <3>1. CASE orphaned'
      BY <3>1 DEF AnswersAreOwners
    <3>2. CASE ~orphaned'
      <4>1. queue' = <<>> /\ due' = todo'
        BY <1>1, <2>2, <3>2 DEF Clock
      <4>2. todo' \in [Masters -> 0..MaxBurst]
        BY <1>1, MastersMoveTypes DEF Clock
      <4>3. selected' \in Masters
        BY <1>1, EffectiveIsMaster DEF Clock, TypeOK
      <4>4. todo'[selected'] \in Nat /\ Len(queue') = 0
        BY <4>1, <4>2, <4>3, ConstantsAssumption
      <4>5. QED
        BY <4>1, <4>4 DEF AnswersAreOwners
    <3>3. QED
      BY <3>1, <3>2
  <2>3. QED
    BY <2>1, <2>2
<1>2. CASE SystemReset
  <2>1. selected' \in Masters /\ Len(queue') = 0
    BY <1>2, ConstantsAssumption DEF SystemReset, Masters
  <2>2. QED
    BY <1>2, <2>1 DEF SystemReset, AnswersAreOwners
<1>3. CASE UNCHANGED vars
  BY <1>3 DEF vars, AnswersAreOwners
<1>4. QED
  BY <1>1, <1>2, <1>3 DEF Next, RunClock, CoreReset

\* The arbiter routes every answer to the master whose access it answers, as
\* long as no core reset has torn a bus cycle.
THEOREM AnswersAlwaysOwners == Spec => []AnswersAreOwners
<1>1. Init => AnswersAreOwners
  <2> SUFFICES ASSUME Init
               PROVE  AnswersAreOwners
    OBVIOUS
  <2>1. selected \in Masters /\ Len(queue) = 0
    BY ConstantsAssumption DEF Init, Masters
  <2>2. QED
    BY <2>1 DEF Init, AnswersAreOwners
<1>2. QED
  BY <1>1, OwnersStep, TypeCorrect, PTL DEF Spec

-----------------------------------------------------------------------------
(* The bus stays with its master.                                           *)

\* A clock edge copies the master that has the bus into `selected`, and as
\* long as that master holds cyc the copy decides.
THEOREM NeverHandedOverMidCycle == Spec => NoHandoverMidCycle
<1>1. ASSUME TypeOK, [Next]_vars, NEW i \in Masters, i = effective, cyc(i), cyc(i)'
      PROVE  effective' = i
  <2>1. ASSUME NEW stall, NEW ack, NEW reset, Clock(stall, ack, reset)
        PROVE  effective' = i
    BY <1>1, <2>1 DEF Clock, effective, busy, cyc
  <2>2. CASE SystemReset
    BY <1>1, <2>2 DEF SystemReset, cyc
  <2>3. CASE UNCHANGED vars
    BY <1>1, <2>3 DEF vars, effective, busy, candidate, Requesting, cyc
  <2>4. QED
    BY <1>1, <2>1, <2>2, <2>3 DEF Next, RunClock, CoreReset
<1>2. TypeOK /\ [Next]_vars
        => [\A i \in Masters : i = effective /\ cyc(i) /\ cyc(i)' => effective' = i]_vars
  BY <1>1
<1>3. QED
  BY <1>2, TypeCorrect, PTL DEF Spec, NoHandoverMidCycle
=============================================================================
