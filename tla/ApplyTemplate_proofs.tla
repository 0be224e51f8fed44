------------------------ MODULE ApplyTemplate_proofs ------------------------
(***************************************************************************)
(* Proofs about the DEF template step, for any databases, templates,       *)
(* configurations and number of runs.                                      *)
(***************************************************************************)
EXTENDS ApplyTemplate, FiniteSetTheorems, TLAPS

-----------------------------------------------------------------------------
(* The calls on a design that the step makes: the design still hangs       *)
(* together, and what each call leaves of its nets, pins and instances.    *)

(* The fields of a design with one of them replaced.                       *)
LEMMA Fields ==
  ASSUME NEW d, IsDesign(d), NEW x
  PROVE  /\ [d EXCEPT !.nets = x] =
              [grid |-> d.grid, dbu |-> d.dbu, layers |-> d.layers, die |-> d.die,
               insts |-> d.insts, nets |-> x, bterms |-> d.bterms, obs |-> d.obs]
         /\ [d EXCEPT !.bterms = x] =
              [grid |-> d.grid, dbu |-> d.dbu, layers |-> d.layers, die |-> d.die,
               insts |-> d.insts, nets |-> d.nets, bterms |-> x, obs |-> d.obs]
         /\ [d EXCEPT !.insts = x] =
              [grid |-> d.grid, dbu |-> d.dbu, layers |-> d.layers, die |-> d.die,
               insts |-> x, nets |-> d.nets, bterms |-> d.bterms, obs |-> d.obs]
         /\ [d EXCEPT !.obs = x] =
              [grid |-> d.grid, dbu |-> d.dbu, layers |-> d.layers, die |-> d.die,
               insts |-> d.insts, nets |-> d.nets, bterms |-> d.bterms, obs |-> x]
         /\ [d EXCEPT !.die = x] =
              [grid |-> d.grid, dbu |-> d.dbu, layers |-> d.layers, die |-> x,
               insts |-> d.insts, nets |-> d.nets, bterms |-> d.bterms, obs |-> d.obs]
BY DEF IsDesign

(* A design is checked by its parts: what the pins and the instances need  *)
(* of the nets is that they are there.                                     *)
LEMMA Assembled ==
  ASSUME NEW d, IsDesign(d), NEW e,
         e = [grid |-> d.grid, dbu |-> d.dbu, layers |-> d.layers, die |-> e.die,
              insts |-> e.insts, nets |-> e.nets, bterms |-> e.bterms, obs |-> e.obs],
         IsABag(e.obs),
         IsFiniteSet(DOMAIN e.nets), NoNet \notin DOMAIN e.nets,
         IsFiniteSet(DOMAIN e.insts),
         e.nets = [k \in DOMAIN e.nets |-> e.nets[k]],
         e.bterms = [n \in DOMAIN e.bterms |-> e.bterms[n]],
         e.insts = [i \in DOMAIN e.insts |-> e.insts[i]],
         \A n \in DOMAIN e.bterms : IsBTerm(e, e.bterms[n]),
         \A i \in DOMAIN e.insts : IsInst(e, e.insts[i])
  PROVE  IsDesign(e)
BY DEF IsDesign

LEMMA SameNets ==
  ASSUME NEW d, NEW e, DOMAIN d.nets \subseteq DOMAIN e.nets
  PROVE  /\ \A t : IsBTerm(d, t) => IsBTerm(e, t)
         /\ \A i : IsInst(d, i) => IsInst(e, i)
BY DEF IsBTerm, IsInst

LEMMA CreateNetKeeps ==
  ASSUME NEW d, IsDesign(d), NEW key, key # NoNet
  PROVE  LET e == CreateNet(d, key)
         IN  /\ IsDesign(e)
             /\ DOMAIN e.nets = DOMAIN d.nets \cup {key}
             /\ \A k \in DOMAIN d.nets \ {key} : e.nets[k] = d.nets[k]
             /\ e.bterms = d.bterms /\ e.insts = d.insts
             /\ e.grid = d.grid /\ e.dbu = d.dbu /\ e.die = d.die
             /\ e.layers = d.layers
<1> DEFINE nets == Put(d.nets, key, [special |-> FALSE, sig |-> "SIGNAL"])
           e == CreateNet(d, key)
<1>1. e = [d EXCEPT !.nets = nets]
  BY DEF CreateNet, IsDesign
<1>2. e = [grid |-> d.grid, dbu |-> d.dbu, layers |-> d.layers, die |-> d.die,
           insts |-> d.insts, nets |-> nets, bterms |-> d.bterms, obs |-> d.obs]
  BY <1>1, Fields
<1>3. /\ DOMAIN nets = DOMAIN d.nets \cup {key}
      /\ nets = [k \in DOMAIN nets |-> nets[k]]
      /\ \A k \in DOMAIN d.nets \ {key} : nets[k] = d.nets[k]
  BY DEF Put
<1> HIDE DEF nets, e
<1>4. DOMAIN d.nets \subseteq DOMAIN e.nets
  BY <1>2, <1>3
<1>5. /\ e.bterms = d.bterms /\ e.insts = d.insts /\ e.nets = nets
      /\ e.grid = d.grid /\ e.dbu = d.dbu /\ e.die = d.die /\ e.layers = d.layers
      /\ e.obs = d.obs
  BY <1>2
<1>6. /\ \A n \in DOMAIN e.bterms : IsBTerm(e, e.bterms[n])
      /\ \A i \in DOMAIN e.insts : IsInst(e, e.insts[i])
  BY <1>4, <1>5, SameNets DEF IsDesign
<1>7. IsFiniteSet(DOMAIN d.nets \cup {key})
  BY FS_AddElement DEF IsDesign
<1>8. IsDesign(e)
  BY <1>2, <1>3, <1>5, <1>6, <1>7, Assembled DEF IsDesign
<1> QED
  BY <1>3, <1>5, <1>8 DEF e

LEMMA CreateBTermKeeps ==
  ASSUME NEW d, IsDesign(d), NEW key, key \in DOMAIN d.nets, NEW name
  PROVE  LET e == CreateBTerm(d, key, name)
         IN  /\ IsDesign(e)
             /\ DOMAIN e.bterms = DOMAIN d.bterms \cup {name}
             /\ \A n \in DOMAIN d.bterms : e.bterms[n] = d.bterms[n]
             /\ name \notin DOMAIN d.bterms =>
                  e.bterms[name] = [net |-> key, sig |-> "SIGNAL", boxes |-> EmptyBag]
             /\ e.nets = d.nets /\ e.insts = d.insts
             /\ e.grid = d.grid /\ e.dbu = d.dbu /\ e.die = d.die
             /\ e.layers = d.layers
<1> DEFINE t == [net |-> key, sig |-> "SIGNAL", boxes |-> EmptyBag]
           bterms == Put(d.bterms, name, t)
           e == CreateBTerm(d, key, name)
<1>1. CASE name \in DOMAIN d.bterms
  BY <1>1 DEF CreateBTerm
<1>2. CASE name \notin DOMAIN d.bterms
  <2>1. e = [d EXCEPT !.bterms = bterms]
    BY <1>2 DEF CreateBTerm, IsDesign
  <2>2. e = [grid |-> d.grid, dbu |-> d.dbu, layers |-> d.layers, die |-> d.die,
             insts |-> d.insts, nets |-> d.nets, bterms |-> bterms, obs |-> d.obs]
    BY <2>1, Fields
  <2>3. /\ DOMAIN bterms = DOMAIN d.bterms \cup {name}
        /\ bterms = [n \in DOMAIN bterms |-> bterms[n]]
        /\ \A n \in DOMAIN d.bterms : bterms[n] = d.bterms[n]
        /\ bterms[name] = t
    BY <1>2 DEF Put
  <2>4. DOMAIN EmptyBag = {} /\ IsABag(EmptyBag)
    BY DEF EmptyBag, SetToBag, IsABag
  <2>5. IsBTerm(d, t)
    BY <2>4 DEF IsBTerm
  <2> HIDE DEF t, bterms, e
  <2>6. /\ e.bterms = bterms /\ e.insts = d.insts /\ e.nets = d.nets
        /\ e.grid = d.grid /\ e.dbu = d.dbu /\ e.die = d.die /\ e.layers = d.layers
        /\ e.obs = d.obs
    BY <2>2
  <2>7. /\ \A n \in DOMAIN e.bterms : IsBTerm(d, e.bterms[n])
        /\ \A i \in DOMAIN e.insts : IsInst(d, e.insts[i])
    BY <2>3, <2>5, <2>6 DEF IsDesign
  <2>8. /\ \A n \in DOMAIN e.bterms : IsBTerm(e, e.bterms[n])
        /\ \A i \in DOMAIN e.insts : IsInst(e, e.insts[i])
    BY <2>6, <2>7, SameNets
  <2>9. IsDesign(e)
    BY <2>2, <2>3, <2>6, <2>8, Assembled DEF IsDesign
  <2> QED
    BY <2>3, <2>6, <2>9 DEF e, t
<1> QED
  BY <1>1, <1>2

LEMMA BagAddKeeps ==
  ASSUME NEW B, IsABag(B), NEW x
  PROVE  /\ IsABag(B (+) SetToBag({x}))
         /\ DOMAIN (B (+) SetToBag({x})) = DOMAIN B \cup {x}
BY DEF IsABag, SetToBag, (+)

(* Boxes added one by one add up.                                          *)
LEMMA BagOneMore ==
  ASSUME NEW B, IsABag(B), NEW S, NEW x, x \notin S
  PROVE  (B (+) SetToBag(S)) (+) SetToBag({x}) = B (+) SetToBag(S \cup {x})
BY DEF IsABag, SetToBag, (+)

(* A part of a sum of bags is in the sum.                                  *)
LEMMA BagPart ==
  ASSUME NEW B, IsABag(B), NEW S
  PROVE  /\ SetToBag(S) \sqsubseteq B (+) SetToBag(S)
         /\ B (+) SetToBag(S) \sqsubseteq B (+) SetToBag(S)
BY DEF IsABag, SetToBag, (+), \sqsubseteq

LEMMA BagNoMore ==
  ASSUME NEW B, IsABag(B)
  PROVE  B (+) SetToBag({}) = B
BY DEF IsABag, SetToBag, (+)

(* A change of the record of one pin.                                      *)
LEMMA PinChanged ==
  ASSUME NEW d, IsDesign(d), NEW name, name \in DOMAIN d.bterms, NEW t, NEW e,
         IsBTerm(d, t),
         e = [d EXCEPT !.bterms = [d.bterms EXCEPT ![name] = t]]
  PROVE  /\ IsDesign(e)
         /\ DOMAIN e.bterms = DOMAIN d.bterms
         /\ \A n \in DOMAIN d.bterms \ {name} : e.bterms[n] = d.bterms[n]
         /\ e.bterms[name] = t
         /\ e.nets = d.nets /\ e.insts = d.insts
         /\ e.grid = d.grid /\ e.dbu = d.dbu /\ e.die = d.die
         /\ e.layers = d.layers
<1> DEFINE bterms == [d.bterms EXCEPT ![name] = t]
<1>1. e = [grid |-> d.grid, dbu |-> d.dbu, layers |-> d.layers, die |-> d.die,
           insts |-> d.insts, nets |-> d.nets, bterms |-> bterms, obs |-> d.obs]
  BY Fields
<1>2. /\ DOMAIN bterms = DOMAIN d.bterms
      /\ bterms = [n \in DOMAIN bterms |-> bterms[n]]
      /\ \A n \in DOMAIN d.bterms \ {name} : bterms[n] = d.bterms[n]
      /\ bterms[name] = t
  OBVIOUS
<1> HIDE DEF bterms
<1>3. /\ e.bterms = bterms /\ e.insts = d.insts /\ e.nets = d.nets
      /\ e.grid = d.grid /\ e.dbu = d.dbu /\ e.die = d.die /\ e.layers = d.layers
      /\ e.obs = d.obs
  BY <1>1
<1>4. \A n \in DOMAIN e.bterms : IsBTerm(d, e.bterms[n])
  BY <1>2, <1>3 DEF IsDesign
<1>5. \A i \in DOMAIN e.insts : IsInst(d, e.insts[i])
  BY <1>3 DEF IsDesign
<1>6. /\ \A n \in DOMAIN e.bterms : IsBTerm(e, e.bterms[n])
      /\ \A i \in DOMAIN e.insts : IsInst(e, e.insts[i])
  <2>1. DOMAIN d.nets \subseteq DOMAIN e.nets
    BY <1>3
  <2> QED
    BY <1>4, <1>5, <2>1, SameNets
<1>7. IsDesign(e)
  BY <1>1, <1>2, <1>3, <1>6, Assembled DEF IsDesign
<1> QED
  BY <1>2, <1>3, <1>7

LEMMA AddBoxKeeps ==
  ASSUME NEW d, IsDesign(d), NEW name, name \in DOMAIN d.bterms, NEW b, IsBox(b)
  PROVE  LET e == AddBox(d, name, b)
         IN  /\ IsDesign(e)
             /\ DOMAIN e.bterms = DOMAIN d.bterms
             /\ \A n \in DOMAIN d.bterms \ {name} : e.bterms[n] = d.bterms[n]
             /\ e.bterms[name] = [net |-> d.bterms[name].net, sig |-> d.bterms[name].sig,
                                  boxes |-> d.bterms[name].boxes (+) SetToBag({b})]
             /\ e.nets = d.nets /\ e.insts = d.insts
             /\ e.grid = d.grid /\ e.dbu = d.dbu /\ e.die = d.die
             /\ e.layers = d.layers
<1> DEFINE old == d.bterms[name]
           t == [net |-> old.net, sig |-> old.sig, boxes |-> old.boxes (+) SetToBag({b})]
           e == AddBox(d, name, b)
<1>1. IsBTerm(d, old)
  BY DEF IsDesign
<1>2. IsABag(t.boxes) /\ DOMAIN t.boxes = DOMAIN old.boxes \cup {b}
  BY <1>1, BagAddKeeps DEF IsBTerm
<1>3. IsBTerm(d, t)
  BY <1>1, <1>2 DEF IsBTerm
<1>4. t = [old EXCEPT !.boxes = @ (+) SetToBag({b})]
  BY <1>1 DEF IsBTerm
<1>5. e = [d EXCEPT !.bterms = [d.bterms EXCEPT ![name] = t]]
  BY <1>4 DEF AddBox, IsDesign
<1> HIDE DEF t, e
<1>6. /\ IsDesign(e)
      /\ DOMAIN e.bterms = DOMAIN d.bterms
      /\ \A n \in DOMAIN d.bterms \ {name} : e.bterms[n] = d.bterms[n]
      /\ e.bterms[name] = t
      /\ e.nets = d.nets /\ e.insts = d.insts
      /\ e.grid = d.grid /\ e.dbu = d.dbu /\ e.die = d.die /\ e.layers = d.layers
  BY <1>3, <1>5, PinChanged
<1> QED
  BY <1>6 DEF e, t

LEMMA SetSpecialKeeps ==
  ASSUME NEW d, IsDesign(d), NEW name, name \in DOMAIN d.bterms, NEW sig
  PROVE  LET e == SetSpecial(d, name, sig)
         IN  /\ IsDesign(e)
             /\ DOMAIN e.bterms = DOMAIN d.bterms
             /\ \A n \in DOMAIN d.bterms \ {name} : e.bterms[n] = d.bterms[n]
             /\ e.bterms[name] = [net |-> d.bterms[name].net, sig |-> sig,
                                  boxes |-> d.bterms[name].boxes]
             /\ DOMAIN e.nets = DOMAIN d.nets
             /\ \A k \in DOMAIN d.nets \ {d.bterms[name].net} : e.nets[k] = d.nets[k]
             /\ e.nets[d.bterms[name].net] = [special |-> TRUE, sig |-> sig]
             /\ e.insts = d.insts
             /\ e.grid = d.grid /\ e.dbu = d.dbu /\ e.die = d.die
             /\ e.layers = d.layers
<1> DEFINE old == d.bterms[name]
           t == [net |-> old.net, sig |-> sig, boxes |-> old.boxes]
           c == [d EXCEPT !.bterms = [d.bterms EXCEPT ![name] = t]]
           nets == [d.nets EXCEPT ![old.net] = [special |-> TRUE, sig |-> sig]]
           e == SetSpecial(d, name, sig)
<1>1. IsBTerm(d, old)
  BY DEF IsDesign
<1>2. IsBTerm(d, t)
  BY <1>1 DEF IsBTerm
<1>3. t = [old EXCEPT !.sig = sig]
  BY <1>1 DEF IsBTerm
<1>4. e = [c EXCEPT !.nets = nets]
  BY <1>3 DEF SetSpecial, IsDesign
<1>5. /\ DOMAIN nets = DOMAIN d.nets
      /\ nets = [k \in DOMAIN nets |-> nets[k]]
      /\ \A k \in DOMAIN d.nets \ {old.net} : nets[k] = d.nets[k]
      /\ nets[old.net] = [special |-> TRUE, sig |-> sig]
  BY <1>1 DEF IsBTerm
<1> HIDE DEF t, c, nets, e
<1>6. /\ IsDesign(c)
      /\ DOMAIN c.bterms = DOMAIN d.bterms
      /\ \A n \in DOMAIN d.bterms \ {name} : c.bterms[n] = d.bterms[n]
      /\ c.bterms[name] = t
      /\ c.nets = d.nets /\ c.insts = d.insts
      /\ c.grid = d.grid /\ c.dbu = d.dbu /\ c.die = d.die /\ c.layers = d.layers
  BY <1>2, PinChanged DEF c
<1>7. e = [grid |-> c.grid, dbu |-> c.dbu, layers |-> c.layers, die |-> c.die,
           insts |-> c.insts, nets |-> nets, bterms |-> c.bterms, obs |-> c.obs]
  BY <1>4, <1>6, Fields
<1>8. /\ e.bterms = c.bterms /\ e.insts = c.insts /\ e.nets = nets
      /\ e.grid = c.grid /\ e.dbu = c.dbu /\ e.die = c.die /\ e.layers = c.layers
      /\ e.obs = c.obs
  BY <1>7
<1>9. /\ \A n \in DOMAIN e.bterms : IsBTerm(e, e.bterms[n])
      /\ \A i \in DOMAIN e.insts : IsInst(e, e.insts[i])
  BY <1>5, <1>6, <1>8, SameNets DEF IsDesign
<1>10. IsDesign(e)
  BY <1>5, <1>6, <1>7, <1>8, <1>9, Assembled DEF IsDesign
<1> QED
  BY <1>5, <1>6, <1>8, <1>10 DEF e, t

(* There is always a name for one more net, and it is new.                 *)
LEMMA NewNetIsNew ==
  ASSUME NEW d, IsDesign(d), NEW name
  PROVE  /\ NewNet(d, name) \notin DOMAIN d.nets
         /\ NewNet(d, name) # NoNet
         /\ NewNet(d, name)[1] = name
<1> DEFINE taken == DOMAIN d.nets \cup {NoNet}
           N == Cardinality(taken)
           f == [i \in 1..(N + 1) |-> <<name, i>>]
<1>1. N \in Nat /\ IsFiniteSet(taken)
  BY FS_AddElement, FS_CardinalityType DEF IsDesign
<1>2. IsFiniteSet(1..(N + 1)) /\ Cardinality(1..(N + 1)) = N + 1
  BY <1>1, FS_Interval
<1>3. \E i \in 1..(N + 1) : <<name, i>> \notin taken
  <2> SUFFICES ASSUME \A i \in 1..(N + 1) : <<name, i>> \in taken
               PROVE  FALSE
    OBVIOUS
  <2>1. f \in [1..(N + 1) -> taken]
    OBVIOUS
  <2>2. \A i, j \in 1..(N + 1) : f[i] = f[j] => i = j
    OBVIOUS
  <2>3. N < N + 1
    BY <1>1
  <2> HIDE DEF f, N, taken
  <2> QED
    BY <1>1, <1>2, <2>1, <2>2, <2>3, FS_PigeonHole DEF N
<1> QED
  BY <1>3 DEF NewNet

-----------------------------------------------------------------------------
(* What is in the files.                                                   *)

(* Between its start and its first write a run has not touched the files,  *)
(* between its writes it has written the DEF.                              *)
Working == {"open", "function", "create", "place", "diearea", "returned"}

FilesInv ==
  /\ DOMAIN disk = Paths
  /\ inv \in Configs
  /\ pc \in Working \cup {"idle", "def_written"}
  /\ pc \in Working => disk = before
  /\ pc = "def_written" => disk = [before EXCEPT ![inv.outputDef] = mem]
  /\ pc # "idle" => exit = "none"
  /\ DatabaseLast

LEMMA FilesInit == Init => FilesInv
<1> SUFFICES ASSUME Init PROVE FilesInv
  OBVIOUS
<1> USE DEF Init, ClickInit
<1>1. DOMAIN disk = Paths
  BY DisksAssumption
<1>2. inv \in Configs
  BY ConfigsAssumption
<1> QED
  BY <1>1, <1>2 DEF FilesInv, Working, FailedRunWritesNothing, DatabaseLast, Failures

(* A step of a run that has not written yet.                               *)
LEMMA BeforeWrites ==
  ASSUME FilesInv, pc \in Working,
         disk' = disk, before' = before, inv' = inv,
         \/ pc' \in Working /\ exit' = exit
         \/ pc' = "idle" /\ exit' \in Failures \cup {"killed"}
  PROVE  FilesInv'
BY DEF FilesInv, Working, FailedRunWritesNothing, DatabaseLast, Failures

(* A step that begins a run, or fails before it.                           *)
LEMMA AtStart ==
  ASSUME FilesInv, disk' = disk, before' = disk, inv' \in Configs,
         \/ pc' = "open" /\ exit' = "none"
         \/ pc' = "idle" /\ exit' \in Failures
  PROVE  FilesInv'
BY DEF FilesInv, Working, FailedRunWritesNothing, DatabaseLast, Failures

LEMMA FilesStep == FilesInv /\ [Next]_vars => FilesInv'
<1> SUFFICES ASSUME FilesInv, [Next]_vars PROVE FilesInv'
  OBVIOUS
<1>1. ASSUME NEW c \in Configs, CommandFails(c) PROVE FilesInv'
  BY <1>1, AtStart DEF FilesInv, CommandFails, Failures
<1>2. ASSUME NEW c \in Configs, GetCommand(c) PROVE FilesInv'
  BY <1>2, AtStart DEF GetCommand, Launch
<1>3. CASE OpenDb
  BY <1>3, BeforeWrites DEF OpenDb, End, files, Working, Failures
<1>4. CASE RefuseDef
  BY <1>4, BeforeWrites DEF RefuseDef, End, files, Working, Failures
<1>5. CASE WriteDef
  <2>1. /\ inv.outputDef \in Paths
        /\ disk = before /\ exit = "none"
    BY <1>5, ConfigsAssumption DEF FilesInv, WriteDef, Working, Paths
  <2>2. /\ DOMAIN disk' = Paths
        /\ disk' = [before' EXCEPT ![inv'.outputDef] = mem']
        /\ pc' = "def_written" /\ exit' = "none" /\ inv' \in Configs
    BY <1>5, <2>1 DEF FilesInv, WriteDef
  <2>3. FailedRunWritesNothing'
    BY <2>2 DEF FailedRunWritesNothing, Failures
  <2>4. DatabaseLast'
    BY <1>5, <2>1, <2>2, <2>3 DEF DatabaseLast, FilesInv, WriteDef
  <2> QED
    BY <2>2, <2>3, <2>4 DEF FilesInv, Working
<1>6. CASE WriteDb
  <2>1. /\ inv.outputDef \in DefPaths /\ inv.output \in OdbPaths
        /\ inv.outputDef \in DOMAIN before /\ inv.output \in DOMAIN disk
        /\ inv.output # inv.outputDef
        /\ disk = [before EXCEPT ![inv.outputDef] = mem]
        /\ DOMAIN before = Paths
    BY <1>6, ConfigsAssumption, PathsAssumption DEF FilesInv, WriteDb, Paths
  <2>2. /\ disk' = [disk EXCEPT ![inv.output] = mem]
        /\ inv' = inv /\ before' = before /\ exit' = "ok" /\ pc' = "idle"
    BY <1>6 DEF WriteDb
  <2>3. FailedRunWritesNothing'
    BY <2>2 DEF FailedRunWritesNothing, Failures
  <2>4. DatabaseLast'
    <3>1. disk'[inv.output] = mem /\ disk'[inv.outputDef] = mem
      BY <2>1, <2>2
    <3>2. \A p \in Paths \ {inv.output, inv.outputDef} : disk'[p] = before[p]
      BY <2>1, <2>2
    <3> QED
      BY <2>2, <2>3, <3>1, <3>2 DEF DatabaseLast
  <2> QED
    BY <2>1, <2>2, <2>3, <2>4 DEF FilesInv, Working
<1>7. CASE ReadTemplate
  BY <1>7, BeforeWrites DEF ReadTemplate, End, files, Working, Failures
<1>8. CASE CreatePin
  BY <1>8, BeforeWrites DEF CreatePin, files, Working
<1>9. CASE PinsCreated
  BY <1>9, BeforeWrites DEF PinsCreated, files, Working
<1>10. CASE PlaceBox
  BY <1>10, BeforeWrites DEF PlaceBox, End, files, Working, Failures
<1>11. CASE PinsPlaced
  BY <1>11, BeforeWrites DEF PinsPlaced, End, files, Working, Failures
<1>12. CASE MoveDieArea
  BY <1>12, BeforeWrites DEF MoveDieArea, End, files, Working, Failures
<1>13. CASE Kill
  <2>1. CASE pc \in Working
    BY <1>13, <2>1, BeforeWrites DEF Kill, End, files
  <2>2. CASE pc = "def_written"
    <3>1. /\ disk' = disk /\ before' = before /\ inv' = inv
          /\ pc' = "idle" /\ exit' = "killed"
      BY <1>13 DEF Kill, End, files
    <3>2. \A p \in Paths \ {inv.outputDef} : disk[p] = before[p]
      BY <2>2 DEF FilesInv, DatabaseLast
    <3> QED
      BY <3>1, <3>2
      DEF FilesInv, Working, FailedRunWritesNothing, DatabaseLast, Failures
  <2> QED
    BY <1>13, <2>1, <2>2 DEF Kill, FilesInv
<1>14. CASE UNCHANGED vars
  BY <1>14 DEF vars, clickVars, FilesInv, FailedRunWritesNothing, DatabaseLast
<1> QED
  BY <1>1, <1>2, <1>3, <1>4, <1>5, <1>6, <1>7, <1>8, <1>9, <1>10, <1>11, <1>12,
     <1>13, <1>14
  DEF Next, ScriptStep, Relocate

LEMMA FilesAlways == Spec => []FilesInv
BY FilesInit, FilesStep, PTL DEF Spec

(* A script that raises or exits has written nothing.                      *)
THEOREM FailuresWriteNothing == Spec => []FailedRunWritesNothing
<1>1. FilesInv => FailedRunWritesNothing
  BY DEF FilesInv, DatabaseLast
<1> QED
  BY <1>1, FilesAlways, PTL

(* The database is written last: a run killed on the way leaves every      *)
(* database as it was, a run that ends leaves DEF and database equal.      *)
THEOREM DatabaseWrittenLast == Spec => []DatabaseLast
BY FilesAlways, PTL DEF FilesInv

-----------------------------------------------------------------------------
(* What the loops have done to the design.                                 *)

Loaded == {"function", "create", "place", "diearea", "returned", "def_written"}
Placing == {"place", "diearea", "returned", "def_written"}

TypeInv ==
  /\ runs \in 0..MaxRuns
  /\ exit \in Failures \cup {"none", "ok", "killed"}
  /\ DOMAIN before = Paths
  /\ \A p \in Paths : /\ disk[p] = NoFile \/ IsDesign(disk[p])
                      /\ before[p] = NoFile \/ IsDesign(before[p])
  /\ IF pc \in {"idle", "open"} THEN mem = NoDesign ELSE IsDesign(mem)
  /\ grid_errors \in BOOLEAN
  /\ pc # "idle" => inv.pins # NoPins

(* The input was read, and the instances and the grid are the input's.     *)
ReadInv ==
  pc \in Loaded => /\ IsDesign(read)
                   /\ mem.insts = read.insts
                   /\ mem.grid = read.grid
                   /\ pc = "function" => mem = read

(* While pins are created: old ones and their nets are untouched, new ones *)
(* are bare, and every requested pin is there or still to do.              *)
CreateInv ==
  pc = "create" =>
    /\ locs = TemplateLocations(inv.template)
    /\ todo \in Seq(Requested)
    /\ Requested \subseteq DOMAIN mem.bterms \cup Range(todo)
    /\ DOMAIN mem.bterms \subseteq DOMAIN read.bterms \cup Requested
    /\ DOMAIN read.bterms \subseteq DOMAIN mem.bterms
    /\ \A n \in DOMAIN read.bterms : mem.bterms[n] = read.bterms[n]
    /\ \A n \in DOMAIN mem.bterms \ DOMAIN read.bterms :
         mem.bterms[n].net[1] = n /\ mem.bterms[n].boxes = EmptyBag
    /\ DOMAIN read.nets \subseteq DOMAIN mem.nets
    /\ \A k \in DOMAIN read.nets : mem.nets[k] = read.nets[k]

(* While boxes are placed: what is not left has been placed.               *)
Done(n) == {b \in locs[n].boxes : <<n, b>> \notin left}

PlaceInv ==
  pc \in Placing =>
    /\ locs = TemplateLocations(inv.template)
    /\ left \subseteq Placements
    /\ pc # "place" => left = {}
    /\ DOMAIN mem.bterms = DOMAIN read.bterms \cup Requested
    /\ \A n \in Applied : mem.bterms[n].boxes = BoxesBefore(n) (+) SetToBag(Done(n))
    /\ \A n \in Applied : Done(n) # {} =>
         /\ mem.bterms[n].sig = locs[n].sig
         /\ \E o \in Applied : /\ mem.bterms[o].net = mem.bterms[n].net
                               /\ NetSetBy(mem.bterms[n].net, o)
    /\ \A n \in Requested \ DOMAIN read.bterms : mem.bterms[n].net[1] = n
    /\ \A n \in Requested \ (Applied \cup DOMAIN read.bterms) :
         mem.bterms[n].boxes = EmptyBag
    /\ \A n \in DOMAIN read.bterms \ Applied : mem.bterms[n] = read.bterms[n]
    /\ DOMAIN read.nets \subseteq DOMAIN mem.nets
    /\ \A k \in DOMAIN read.nets :
         (\A n \in Applied : mem.bterms[n].net # k) => mem.nets[k] = read.nets[k]
    /\ pc \in {"returned", "def_written"} => mem.die = inv.template.die

LoopInv == FilesInv /\ TypeInv /\ ReadInv /\ CreateInv /\ PlaceInv

(* What is known of a template.                                            *)
LEMMA TemplateFacts ==
  ASSUME inv \in Configs
  PROVE  /\ Applied = {n \in Requested \cap DOMAIN inv.template.terms :
                         inv.template.terms[n].boxes # {}}
         /\ \A n \in Applied : TemplateLocations(inv.template)[n] = inv.template.terms[n]
         /\ \A n \in Applied : \A b \in inv.template.terms[n].boxes : IsBox(b)
         /\ inv.pins # NoPins => inv.pins \in Seq(Requested)
         /\ inv.output \in Paths /\ inv.outputDef \in Paths
BY ConfigsAssumption
DEF Applied, TemplateLocations, Restrict, IsTemplate, Requested, Paths

(* One pin.                                                                *)
LEMMA WithPinKeeps ==
  ASSUME NEW d, IsDesign(d), NEW name
  PROVE  LET e == WithPin(d, name)
         IN  /\ IsDesign(e)
             /\ DOMAIN e.bterms = DOMAIN d.bterms \cup {name}
             /\ \A n \in DOMAIN d.bterms : e.bterms[n] = d.bterms[n]
             /\ name \notin DOMAIN d.bterms =>
                  e.bterms[name].net[1] = name /\ e.bterms[name].boxes = EmptyBag
             /\ DOMAIN d.nets \subseteq DOMAIN e.nets
             /\ \A k \in DOMAIN d.nets : e.nets[k] = d.nets[k]
             /\ e.insts = d.insts /\ e.grid = d.grid
<1> DEFINE key == NewNet(d, name)
           c == CreateNet(d, key)
           e == CreateBTerm(c, key, name)
<1>1. key \notin DOMAIN d.nets /\ key[1] = name /\ key # NoNet
  BY NewNetIsNew
<1> HIDE DEF key
<1>2. /\ IsDesign(c)
      /\ DOMAIN c.nets = DOMAIN d.nets \cup {key}
      /\ \A k \in DOMAIN d.nets : c.nets[k] = d.nets[k]
      /\ c.bterms = d.bterms /\ c.insts = d.insts /\ c.grid = d.grid
  BY <1>1, CreateNetKeeps
<1> HIDE DEF c
<1>3. /\ IsDesign(e)
      /\ DOMAIN e.bterms = DOMAIN c.bterms \cup {name}
      /\ \A n \in DOMAIN c.bterms : e.bterms[n] = c.bterms[n]
      /\ name \notin DOMAIN c.bterms =>
           e.bterms[name] = [net |-> key, sig |-> "SIGNAL", boxes |-> EmptyBag]
      /\ e.nets = c.nets /\ e.insts = c.insts /\ e.grid = c.grid
  BY <1>2, CreateBTermKeeps
<1> HIDE DEF e
<1>4. WithPin(d, name) = e
  BY DEF WithPin, e, c, key
<1> QED
  BY <1>1, <1>2, <1>3, <1>4

(* One box.                                                                *)
LEMMA PlacedKeeps ==
  ASSUME IsDesign(mem), NEW n \in DOMAIN mem.bterms, NEW b, IsBox(b)
  PROVE  LET e == Placed(n, b)
         IN  /\ IsDesign(e)
             /\ DOMAIN e.bterms = DOMAIN mem.bterms
             /\ \A o \in DOMAIN mem.bterms \ {n} : e.bterms[o] = mem.bterms[o]
             /\ e.bterms[n].net = mem.bterms[n].net
             /\ e.bterms[n].sig = locs[n].sig
             /\ e.bterms[n].boxes = mem.bterms[n].boxes (+) SetToBag({b})
             /\ e.nets[mem.bterms[n].net] = [special |-> TRUE, sig |-> locs[n].sig]
             /\ \A k \in DOMAIN mem.nets \ {mem.bterms[n].net} : e.nets[k] = mem.nets[k]
             /\ DOMAIN e.nets = DOMAIN mem.nets
             /\ e.insts = mem.insts /\ e.grid = mem.grid
<1> DEFINE c == AddBox(mem, n, b)
           e == SetSpecial(c, n, locs[n].sig)
<1>1. /\ IsDesign(c)
      /\ DOMAIN c.bterms = DOMAIN mem.bterms
      /\ \A o \in DOMAIN mem.bterms \ {n} : c.bterms[o] = mem.bterms[o]
      /\ c.bterms[n] = [net |-> mem.bterms[n].net, sig |-> mem.bterms[n].sig,
                        boxes |-> mem.bterms[n].boxes (+) SetToBag({b})]
      /\ c.nets = mem.nets /\ c.insts = mem.insts /\ c.grid = mem.grid
  BY AddBoxKeeps
<1> HIDE DEF c
<1>2. /\ IsDesign(e)
      /\ DOMAIN e.bterms = DOMAIN c.bterms
      /\ \A o \in DOMAIN c.bterms \ {n} : e.bterms[o] = c.bterms[o]
      /\ e.bterms[n] = [net |-> c.bterms[n].net, sig |-> locs[n].sig,
                        boxes |-> c.bterms[n].boxes]
      /\ DOMAIN e.nets = DOMAIN c.nets
      /\ \A k \in DOMAIN c.nets \ {c.bterms[n].net} : e.nets[k] = c.nets[k]
      /\ e.nets[c.bterms[n].net] = [special |-> TRUE, sig |-> locs[n].sig]
      /\ e.insts = c.insts /\ e.grid = c.grid
  BY <1>1, SetSpecialKeeps
<1> HIDE DEF e
<1>3. Placed(n, b) = e
  BY DEF Placed, e, c
<1> QED
  BY <1>1, <1>2, <1>3

-----------------------------------------------------------------------------
(* Every step keeps the invariant of the loops.                            *)

Exits == Failures \cup {"none", "ok", "killed"}

(* Nothing is in memory between runs and before the input is read.         *)
LEMMA Unloaded ==
  ASSUME FilesInv', pc' \in {"idle", "open"}, mem' = NoDesign,
         runs' \in 0..MaxRuns, exit' \in Exits, DOMAIN before' = Paths,
         \A p \in Paths : /\ disk'[p] = NoFile \/ IsDesign(disk'[p])
                          /\ before'[p] = NoFile \/ IsDesign(before'[p]),
         grid_errors' \in BOOLEAN, pc' # "idle" => inv'.pins # NoPins
  PROVE  LoopInv'
BY DEF LoopInv, TypeInv, ReadInv, CreateInv, PlaceInv, Loaded, Placing, Exits

LEMMA EndStep ==
  ASSUME LoopInv, FilesInv', NEW code \in Failures \cup {"killed"}, End(code),
         UNCHANGED localVars
  PROVE  LoopInv'
BY Unloaded DEF LoopInv, TypeInv, End, files, localVars, Exits

LEMMA LoopInit == Init => LoopInv
<1> SUFFICES ASSUME Init PROVE LoopInv
  OBVIOUS
<1>1. FilesInv
  BY FilesInit
<1>2. /\ pc = "idle" /\ mem = NoDesign /\ runs = 0 /\ exit = "none"
      /\ before = disk /\ disk \in Disks /\ grid_errors = FALSE
  BY DEF Init, ClickInit
<1>3. TypeInv
  <2>1. DOMAIN disk = Paths /\ \A p \in Paths : disk[p] = NoFile \/ IsDesign(disk[p])
    BY <1>2, DisksAssumption
  <2>2. runs \in 0..MaxRuns
    BY <1>2, MaxRunsAssumption
  <2> QED
    BY <1>2, <2>1, <2>2 DEF TypeInv
<1> QED
  BY <1>1, <1>2, <1>3 DEF LoopInv, ReadInv, CreateInv, PlaceInv, Loaded, Placing

LEMMA StartStep ==
  ASSUME LoopInv, FilesInv', NEW c \in Configs, CommandFails(c) \/ GetCommand(c)
  PROVE  LoopInv'
<1>1. CASE CommandFails(c)
  <2>1. runs' \in 0..MaxRuns
    BY <1>1, MaxRunsAssumption DEF LoopInv, TypeInv, CommandFails
  <2>2. /\ pc' = "idle" /\ mem' = NoDesign /\ exit' \in Exits
        /\ disk' = disk /\ before' = disk /\ grid_errors' \in BOOLEAN
        /\ DOMAIN disk = Paths
    BY <1>1 DEF LoopInv, TypeInv, FilesInv, CommandFails, localVars, Exits, Failures
  <2> QED
    BY <2>1, <2>2, Unloaded DEF LoopInv, TypeInv
<1>2. CASE GetCommand(c)
  <2>1. runs' \in 0..MaxRuns
    BY <1>2, MaxRunsAssumption DEF LoopInv, TypeInv, GetCommand, Launch
  <2>2. /\ pc' = "open" /\ mem' = NoDesign /\ exit' \in Exits
        /\ disk' = disk /\ before' = disk /\ grid_errors' \in BOOLEAN
        /\ DOMAIN disk = Paths /\ inv' = c /\ c.pins # NoPins
    BY <1>2 DEF LoopInv, FilesInv, GetCommand, Launch, Exits
  <2> QED
    BY <2>1, <2>2, Unloaded DEF LoopInv, TypeInv
<1> QED
  BY <1>1, <1>2

LEMMA OpenStep ==
  ASSUME LoopInv, FilesInv', OpenDb \/ RefuseDef, UNCHANGED localVars
  PROVE  LoopInv'
<1>1. CASE OpenDb /\ disk[inv.input] = NoFile
  <2>1. End("raised")
    BY <1>1 DEF OpenDb
  <2> QED
    BY <2>1, EndStep DEF Failures
<1>2. CASE OpenDb /\ disk[inv.input] # NoFile
  <2>1. /\ pc = "open" /\ pc' = "function" /\ mem' = disk[inv.input]
        /\ inv.input \in Paths
        /\ inv' = inv /\ exit' = exit /\ disk' = disk /\ before' = before
        /\ runs' = runs /\ grid_errors' = grid_errors
    BY <1>2 DEF OpenDb, files, localVars, Paths
  <2>2. disk = before
    BY <2>1 DEF LoopInv, FilesInv, Working
  <2>3. IsDesign(mem') /\ mem' = read'
    BY <1>2, <2>1, <2>2 DEF LoopInv, TypeInv, read
  <2>4. TypeInv'
    BY <2>1, <2>3 DEF LoopInv, TypeInv
  <2> QED
    BY <2>1, <2>3, <2>4 DEF LoopInv, ReadInv, CreateInv, PlaceInv, Placing
<1>3. CASE RefuseDef
  BY <1>3, EndStep DEF RefuseDef, Failures
<1> QED
  BY <1>1, <1>2, <1>3

LEMMA ReadStep ==
  ASSUME LoopInv, FilesInv', ReadTemplate
  PROVE  LoopInv'
<1>1. CASE ~SameTechnology
  <2>1. End("raised") /\ UNCHANGED localVars
    BY <1>1 DEF ReadTemplate
  <2> QED
    BY <2>1, EndStep DEF Failures
<1>2. CASE SameTechnology
  <2>1. /\ pc = "function" /\ pc' = "create" /\ mem' = mem
        /\ inv' = inv /\ exit' = exit /\ disk' = disk /\ before' = before
        /\ runs' = runs /\ grid_errors' = grid_errors
        /\ locs' = TemplateLocations(inv.template) /\ todo' = inv.pins
    BY <1>2 DEF ReadTemplate, files
  <2>2. IsDesign(mem) /\ IsDesign(read) /\ mem = read /\ read' = read
    BY <2>1 DEF LoopInv, ReadInv, Loaded, read
  <2>3. todo' \in Seq(Requested) /\ Range(todo') = Requested /\ Requested' = Requested
    BY <2>1, TemplateFacts DEF LoopInv, FilesInv, TypeInv, Requested
  <2>4. TypeInv'
    BY <2>1, <2>2 DEF LoopInv, TypeInv
  <2>5. ReadInv'
    BY <2>1, <2>2 DEF ReadInv
  <2>6. CreateInv'
    BY <2>1, <2>2, <2>3 DEF CreateInv
  <2> QED
    BY <2>1, <2>4, <2>5, <2>6 DEF LoopInv, PlaceInv, Placing
<1> QED
  BY <1>1, <1>2

LEMMA CreateStep ==
  ASSUME LoopInv, FilesInv', CreatePin
  PROVE  LoopInv'
<1> DEFINE name == Head(todo)
           e == WithPin(mem, name)
<1>1. /\ pc = "create" /\ pc' = "create" /\ mem' = e /\ todo # <<>>
      /\ inv' = inv /\ exit' = exit /\ disk' = disk /\ before' = before
      /\ runs' = runs /\ grid_errors' = grid_errors
      /\ locs' = locs /\ todo' = Tail(todo)
  BY DEF CreatePin, files
<1>2. /\ IsDesign(mem) /\ IsDesign(read) /\ read' = read /\ Requested' = Requested
      /\ mem.insts = read.insts /\ mem.grid = read.grid
  BY <1>1 DEF LoopInv, TypeInv, ReadInv, Loaded, read, Requested
<1>3. todo \in Seq(Requested)
  BY <1>1 DEF LoopInv, CreateInv
<1>4. /\ name \in Requested /\ Tail(todo) \in Seq(Requested)
      /\ Range(todo) \subseteq Range(Tail(todo)) \cup {name}
  <2>1. name \in Requested /\ Tail(todo) \in Seq(Requested)
    BY <1>1, <1>3
  <2>2. ASSUME NEW x \in Range(todo) PROVE x \in Range(Tail(todo)) \cup {name}
    <3>1. PICK i \in 1..Len(todo) : x = todo[i]
      BY <1>3, <2>2 DEF Range
    <3>2. CASE i = 1
      BY <3>1, <3>2
    <3>3. CASE i # 1
      <4>1. i - 1 \in 1..Len(Tail(todo)) /\ Tail(todo)[i - 1] = todo[i]
        BY <1>1, <1>3, <3>3
      <4>2. i - 1 \in DOMAIN Tail(todo) /\ x = Tail(todo)[i - 1]
        BY <2>1, <3>1, <4>1
      <4>3. x \in Range(Tail(todo))
        BY <4>2 DEF Range
      <4> QED
        BY <4>3
    <3> QED
      BY <3>2, <3>3
  <2> QED
    BY <2>1, <2>2
<1> HIDE DEF name
<1>5. /\ IsDesign(e)
      /\ DOMAIN e.bterms = DOMAIN mem.bterms \cup {name}
      /\ \A n \in DOMAIN mem.bterms : e.bterms[n] = mem.bterms[n]
      /\ name \notin DOMAIN mem.bterms =>
           e.bterms[name].net[1] = name /\ e.bterms[name].boxes = EmptyBag
      /\ DOMAIN mem.nets \subseteq DOMAIN e.nets
      /\ \A k \in DOMAIN mem.nets : e.nets[k] = mem.nets[k]
      /\ e.insts = mem.insts /\ e.grid = mem.grid
  BY <1>2, WithPinKeeps
<1> HIDE DEF e
<1>6. TypeInv'
  BY <1>1, <1>5 DEF LoopInv, TypeInv
<1>7. ReadInv'
  BY <1>1, <1>2, <1>5 DEF ReadInv
<1>8. CreateInv'
  <2>1. /\ locs = TemplateLocations(inv.template)
        /\ Requested \subseteq DOMAIN mem.bterms \cup Range(todo)
        /\ DOMAIN mem.bterms \subseteq DOMAIN read.bterms \cup Requested
        /\ DOMAIN read.bterms \subseteq DOMAIN mem.bterms
        /\ \A n \in DOMAIN read.bterms : mem.bterms[n] = read.bterms[n]
        /\ \A n \in DOMAIN mem.bterms \ DOMAIN read.bterms :
             mem.bterms[n].net[1] = n /\ mem.bterms[n].boxes = EmptyBag
        /\ DOMAIN read.nets \subseteq DOMAIN mem.nets
        /\ \A k \in DOMAIN read.nets : mem.nets[k] = read.nets[k]
    BY <1>1 DEF LoopInv, CreateInv
  <2>2. \A n \in DOMAIN e.bterms \ DOMAIN read.bterms :
          e.bterms[n].net[1] = n /\ e.bterms[n].boxes = EmptyBag
    BY <1>5, <2>1
  <2>3. Requested \subseteq DOMAIN e.bterms \cup Range(Tail(todo))
    BY <1>4, <1>5, <2>1
  <2>4. /\ DOMAIN e.bterms \subseteq DOMAIN read.bterms \cup Requested
        /\ DOMAIN read.bterms \subseteq DOMAIN e.bterms
        /\ \A n \in DOMAIN read.bterms : e.bterms[n] = read.bterms[n]
    BY <1>4, <1>5, <2>1
  <2>5. /\ DOMAIN read.nets \subseteq DOMAIN e.nets
        /\ \A k \in DOMAIN read.nets : e.nets[k] = read.nets[k]
    BY <1>5, <2>1
  <2> QED
    BY <1>1, <1>2, <1>4, <2>1, <2>2, <2>3, <2>4, <2>5 DEF CreateInv
<1> QED
  BY <1>1, <1>6, <1>7, <1>8 DEF LoopInv, PlaceInv, Placing

LEMMA CreatedStep ==
  ASSUME LoopInv, FilesInv', PinsCreated
  PROVE  LoopInv'
<1>1. /\ pc = "create" /\ pc' = "place" /\ mem' = mem /\ todo = <<>>
      /\ inv' = inv /\ exit' = exit /\ disk' = disk /\ before' = before
      /\ runs' = runs /\ grid_errors' = grid_errors
      /\ locs' = locs /\ left' = Placements
  BY DEF PinsCreated, files
<1>2. /\ IsDesign(mem) /\ IsDesign(read) /\ read' = read /\ Requested' = Requested
      /\ mem.insts = read.insts /\ mem.grid = read.grid /\ inv \in Configs
      /\ Applied' = Applied
  BY <1>1 DEF LoopInv, FilesInv, TypeInv, ReadInv, Loaded, read, Requested, Applied
<1>3. /\ locs = TemplateLocations(inv.template)
      /\ Requested \subseteq DOMAIN mem.bterms \cup Range(todo)
      /\ DOMAIN mem.bterms \subseteq DOMAIN read.bterms \cup Requested
      /\ DOMAIN read.bterms \subseteq DOMAIN mem.bterms
      /\ \A n \in DOMAIN read.bterms : mem.bterms[n] = read.bterms[n]
      /\ \A n \in DOMAIN mem.bterms \ DOMAIN read.bterms :
           mem.bterms[n].net[1] = n /\ mem.bterms[n].boxes = EmptyBag
      /\ DOMAIN read.nets \subseteq DOMAIN mem.nets
      /\ \A k \in DOMAIN read.nets : mem.nets[k] = read.nets[k]
  BY <1>1 DEF LoopInv, CreateInv
<1>4. DOMAIN mem.bterms = DOMAIN read.bterms \cup Requested
  <2>1. Range(todo) = {}
    BY <1>1 DEF Range
  <2> QED
    BY <1>3, <2>1
<1>5. TypeInv' /\ ReadInv'
  BY <1>1, <1>2 DEF LoopInv, TypeInv, ReadInv
<1>6. left' \subseteq Placements'
  BY <1>1, <1>2 DEF Placements
<1>7. ASSUME NEW n \in Applied
      PROVE  Done(n)' = {} /\ mem'.bterms[n].boxes = BoxesBefore(n)' (+) SetToBag(Done(n)')
  <2>1. n \in DOMAIN mem.bterms \cap DOMAIN locs \cap Requested
    BY <1>3, <1>4 DEF Applied
  <2>2. \A b \in locs[n].boxes : <<n, b>> \in Placements
    BY <2>1 DEF Placements
  <2>3. Done(n)' = {}
    BY <1>1, <2>2 DEF Done
  <2>4. mem.bterms[n].boxes = BoxesBefore(n)
    BY <1>3, <2>1 DEF BoxesBefore
  <2>5. IsABag(mem.bterms[n].boxes)
    BY <1>2, <2>1 DEF IsDesign, IsBTerm
  <2>6. mem.bterms[n].boxes (+) SetToBag({}) = mem.bterms[n].boxes
    BY <2>5, BagNoMore
  <2>7. BoxesBefore(n)' = BoxesBefore(n)
    BY <1>2 DEF BoxesBefore
  <2> QED
    BY <1>1, <2>3, <2>4, <2>6, <2>7
<1>8. PlaceInv'
  BY <1>1, <1>2, <1>3, <1>4, <1>6, <1>7 DEF PlaceInv
<1> QED
  BY <1>1, <1>5, <1>8 DEF LoopInv, CreateInv

LEMMA BoxStep ==
  ASSUME LoopInv, FilesInv', PlaceBox
  PROVE  LoopInv'
<1>1. PICK p \in left :
        \/ /\ mem' = Placed(p[1], p[2])
           /\ left' = left \ {p}
           /\ grid_errors' = GridErrors(p[2])
           /\ UNCHANGED <<pc, inv, exit, files, todo, locs>>
        \/ End("raised") /\ UNCHANGED localVars
  BY DEF PlaceBox
<1>2. CASE End("raised") /\ UNCHANGED localVars
  BY <1>2, EndStep DEF Failures
<1>3. CASE /\ mem' = Placed(p[1], p[2])
           /\ left' = left \ {p}
           /\ grid_errors' = GridErrors(p[2])
           /\ UNCHANGED <<pc, inv, exit, files, todo, locs>>
  <2> DEFINE n == p[1]
             b == p[2]
             e == Placed(n, b)
  <2>1. /\ pc = "place" /\ pc' = "place" /\ mem' = e /\ left' = left \ {p}
        /\ inv' = inv /\ exit' = exit /\ disk' = disk /\ before' = before
        /\ runs' = runs /\ locs' = locs
    BY <1>3 DEF PlaceBox, files
  <2>2. /\ IsDesign(mem) /\ IsDesign(read) /\ read' = read /\ Requested' = Requested
        /\ mem.insts = read.insts /\ mem.grid = read.grid /\ inv \in Configs
        /\ Applied' = Applied
    BY <2>1 DEF LoopInv, FilesInv, TypeInv, ReadInv, Loaded, read, Requested, Applied
  <2>3. /\ locs = TemplateLocations(inv.template)
        /\ left \subseteq Placements
        /\ DOMAIN mem.bterms = DOMAIN read.bterms \cup Requested
    BY <2>1 DEF LoopInv, PlaceInv, Placing
  <2>4. /\ p = <<n, b>> /\ n \in DOMAIN mem.bterms /\ n \in Applied
        /\ b \in locs[n].boxes
    BY <2>3 DEF Placements, Applied
  <2>5. locs[n] = inv.template.terms[n] /\ IsBox(b)
    BY <2>2, <2>3, <2>4, TemplateFacts
  <2> HIDE DEF n, b
  <2>6. /\ IsDesign(e)
        /\ DOMAIN e.bterms = DOMAIN mem.bterms
        /\ \A o \in DOMAIN mem.bterms \ {n} : e.bterms[o] = mem.bterms[o]
        /\ e.bterms[n].net = mem.bterms[n].net
        /\ e.bterms[n].sig = locs[n].sig
        /\ e.bterms[n].boxes = mem.bterms[n].boxes (+) SetToBag({b})
        /\ e.nets[mem.bterms[n].net] = [special |-> TRUE, sig |-> locs[n].sig]
        /\ \A k \in DOMAIN mem.nets \ {mem.bterms[n].net} : e.nets[k] = mem.nets[k]
        /\ DOMAIN e.nets = DOMAIN mem.nets
        /\ e.insts = mem.insts /\ e.grid = mem.grid
    BY <2>2, <2>4, <2>5, PlacedKeeps
  <2> HIDE DEF e
  <2>7. TypeInv'
    BY <1>3, <2>1, <2>6 DEF LoopInv, TypeInv, GridErrors, OffGrid
  <2>8. ReadInv'
    BY <2>1, <2>2, <2>6 DEF ReadInv
  <2>9. Placements' = Placements
    BY <2>1, <2>2, <2>6 DEF Placements
  <2>10. \A o \in Applied \ {n} : Done(o)' = Done(o)
    BY <2>1, <2>4 DEF Done
  <2>11. Done(n)' = Done(n) \cup {b} /\ b \notin Done(n)
    BY <2>1, <2>4 DEF Done
  <2>12. Applied \subseteq DOMAIN mem.bterms
    BY <2>3 DEF Applied
  <2>13. \A o : BoxesBefore(o)' = BoxesBefore(o)
    BY <2>2 DEF BoxesBefore
  <2>14. \A o \in Applied : mem.bterms[o].boxes = BoxesBefore(o) (+) SetToBag(Done(o))
    BY <2>1 DEF LoopInv, PlaceInv, Placing
  <2>15. ASSUME NEW o \in Applied
         PROVE  e.bterms[o].boxes = BoxesBefore(o) (+) SetToBag(Done(o)')
    <3>1. CASE o # n
      BY <2>6, <2>10, <2>12, <2>14, <3>1
    <3>2. CASE o = n
      <4>1. IsABag(BoxesBefore(n))
        <5>1. IsABag(EmptyBag)
          BY DEF IsABag, EmptyBag, SetToBag
        <5> QED
          BY <2>2, <5>1 DEF BoxesBefore, IsDesign, IsBTerm
      <4>2. (BoxesBefore(n) (+) SetToBag(Done(n))) (+) SetToBag({b}) =
              BoxesBefore(n) (+) SetToBag(Done(n) \cup {b})
        BY <2>11, <4>1, BagOneMore
      <4> QED
        BY <2>6, <2>11, <2>14, <3>2, <4>2
    <3> QED
      BY <3>1, <3>2
  <2>16. \A o \in Applied : e.bterms[o].net = mem.bterms[o].net
    BY <2>6, <2>12
  <2>17. \A o \in Applied : mem.bterms[o].net \in DOMAIN mem.nets
    BY <2>2, <2>12 DEF IsDesign, IsBTerm
  <2>18. ASSUME NEW o \in Applied, Done(o)' # {}
         PROVE  /\ e.bterms[o].sig = locs[o].sig
                /\ \E q \in Applied : /\ e.bterms[q].net = e.bterms[o].net
                                      /\ e.nets[e.bterms[o].net] =
                                           [special |-> TRUE, sig |-> inv.template.terms[q].sig]
    <3>1. CASE mem.bterms[o].net = mem.bterms[n].net
      <4>1. e.nets[e.bterms[o].net] = [special |-> TRUE, sig |-> inv.template.terms[n].sig]
        BY <2>5, <2>6, <2>16, <3>1
      <4>2. e.bterms[n].net = e.bterms[o].net
        BY <2>4, <2>16, <3>1
      <4>3. e.bterms[o].sig = locs[o].sig
        <5>1. CASE o = n
          BY <2>6, <5>1
        <5>2. CASE o # n
          <6>1. mem.bterms[o].sig = locs[o].sig
            BY <2>1, <2>10, <2>18, <5>2 DEF LoopInv, PlaceInv, Placing
          <6> QED
            BY <2>6, <2>12, <5>2, <6>1
        <5> QED
          BY <5>1, <5>2
      <4> QED
        BY <2>4, <4>1, <4>2, <4>3
    <3>2. CASE mem.bterms[o].net # mem.bterms[n].net
      <4>1. o # n
        BY <3>2
      <4>2. Done(o) # {}
        BY <2>10, <2>18, <4>1
      <4>3. mem.bterms[o].sig = locs[o].sig
        BY <2>1, <4>2 DEF LoopInv, PlaceInv, Placing
      <4>4. PICK q \in Applied : /\ mem.bterms[q].net = mem.bterms[o].net
                                /\ NetSetBy(mem.bterms[o].net, q)
        BY <2>1, <4>2 DEF LoopInv, PlaceInv, Placing
      <4>5. e.nets[mem.bterms[o].net] = mem.nets[mem.bterms[o].net]
        BY <2>6, <2>17, <3>2
      <4>6. e.nets[e.bterms[o].net] = [special |-> TRUE, sig |-> inv.template.terms[q].sig]
        BY <2>16, <4>4, <4>5 DEF NetSetBy
      <4>7. e.bterms[q].net = e.bterms[o].net
        BY <2>16, <4>4
      <4>8. e.bterms[o].sig = locs[o].sig
        BY <2>6, <2>12, <4>1, <4>3
      <4> QED
        BY <4>6, <4>7, <4>8
    <3> QED
      BY <3>1, <3>2
  <2>19. \A o \in Requested \ DOMAIN read.bterms : e.bterms[o].net[1] = o
    <3>1. \A o \in Requested \ DOMAIN read.bterms : mem.bterms[o].net[1] = o
      BY <2>1 DEF LoopInv, PlaceInv, Placing
    <3>2. \A o \in DOMAIN mem.bterms : e.bterms[o].net = mem.bterms[o].net
      BY <2>6
    <3> QED
      BY <2>3, <3>1, <3>2
  <2>20. \A o \in Requested \ (Applied \cup DOMAIN read.bterms) :
           e.bterms[o].boxes = EmptyBag
    <3>1. \A o \in Requested \ (Applied \cup DOMAIN read.bterms) :
            mem.bterms[o].boxes = EmptyBag
      BY <2>1 DEF LoopInv, PlaceInv, Placing
    <3> QED
      BY <2>3, <2>4, <2>6, <3>1
  <2>21. \A o \in DOMAIN read.bterms \ Applied : e.bterms[o] = read.bterms[o]
    <3>1. \A o \in DOMAIN read.bterms \ Applied : mem.bterms[o] = read.bterms[o]
      BY <2>1 DEF LoopInv, PlaceInv, Placing
    <3> QED
      BY <2>3, <2>4, <2>6, <3>1
  <2>22. DOMAIN read.nets \subseteq DOMAIN e.nets
    BY <2>1, <2>6 DEF LoopInv, PlaceInv, Placing
  <2>23. ASSUME NEW k \in DOMAIN read.nets, \A o \in Applied : e.bterms[o].net # k
         PROVE  e.nets[k] = read.nets[k]
    <3>1. k \in DOMAIN mem.nets /\ k # mem.bterms[n].net
      BY <2>1, <2>4, <2>16, <2>23 DEF LoopInv, PlaceInv, Placing
    <3>2. mem.nets[k] = read.nets[k]
      BY <2>1, <2>16, <2>23 DEF LoopInv, PlaceInv, Placing
    <3> QED
      BY <2>6, <3>1, <3>2
  <2>24. PlaceInv'
    <3>1. left' \subseteq Placements'
      BY <2>1, <2>3, <2>9
    <3>2. DOMAIN e.bterms = DOMAIN read.bterms \cup Requested
      BY <2>3, <2>6
    <3> QED
      BY <2>1, <2>2, <2>3, <2>13, <2>15, <2>18, <2>19, <2>20, <2>21, <2>22, <2>23,
         <3>1, <3>2
      DEF PlaceInv, NetSetBy
  <2> QED
    BY <2>1, <2>7, <2>8, <2>24 DEF LoopInv, CreateInv
<1> QED
  BY <1>1, <1>2, <1>3

(* A step of a run after the loops that leaves pins, nets and instances.   *)
LEMMA AfterLoops ==
  ASSUME LoopInv, FilesInv', pc \in Placing, pc' \in Placing \ {"place"}, left = {},
         IsDesign(mem'), mem'.bterms = mem.bterms, mem'.nets = mem.nets,
         mem'.insts = mem.insts, mem'.grid = mem.grid,
         pc' \in {"returned", "def_written"} => mem'.die = inv.template.die,
         inv' = inv, exit' = exit, before' = before, runs' = runs,
         \A p \in Paths : disk'[p] = NoFile \/ IsDesign(disk'[p]), UNCHANGED localVars
  PROVE  LoopInv'
<1>1. TypeInv'
  BY DEF LoopInv, TypeInv, Placing, localVars
<1>2. read' = read /\ Applied' = Applied /\ Requested' = Requested
  BY DEF read, Applied, Requested
<1>3. ReadInv'
  BY <1>2 DEF LoopInv, ReadInv, Placing, Loaded
<1>4. /\ locs' = locs /\ left' = left /\ Placements' = Placements
      /\ \A n : Done(n)' = Done(n) /\ BoxesBefore(n)' = BoxesBefore(n)
      /\ \A k, n : NetSetBy(k, n)' = NetSetBy(k, n)
  BY <1>2 DEF localVars, Placements, Done, BoxesBefore, NetSetBy
<1>5. PlaceInv'
  BY <1>2, <1>4 DEF LoopInv, PlaceInv
<1> QED
  BY <1>1, <1>3, <1>5 DEF LoopInv, CreateInv, Placing

LEMMA PlacedStep ==
  ASSUME LoopInv, FilesInv', PinsPlaced
  PROVE  LoopInv'
<1>1. CASE grid_errors
  BY <1>1, EndStep DEF PinsPlaced, Failures
<1>2. CASE ~grid_errors
  <2>1. /\ pc = "place" /\ pc' = "diearea" /\ left = {} /\ mem' = mem /\ inv' = inv
        /\ exit' = exit /\ disk' = disk /\ before' = before /\ runs' = runs
        /\ UNCHANGED localVars
    BY <1>2 DEF PinsPlaced, files
  <2>2. IsDesign(mem')
    BY <2>1 DEF LoopInv, TypeInv
  <2>3. \A p \in Paths : disk'[p] = NoFile \/ IsDesign(disk'[p])
    BY <2>1 DEF LoopInv, TypeInv
  <2> QED
    BY <2>1, <2>2, <2>3, AfterLoops DEF Placing
<1> QED
  BY <1>1, <1>2

LEMMA DieAreaStep ==
  ASSUME LoopInv, FilesInv', MoveDieArea
  PROVE  LoopInv'
<1>1. CASE ~SameTechnology
  BY <1>1, EndStep DEF MoveDieArea, Failures
<1>2. CASE SameTechnology
  <2> DEFINE die == inv.template.die
  <2>1. /\ pc = "diearea" /\ pc' = "returned" /\ mem' = [mem EXCEPT !.die = die]
        /\ inv' = inv
        /\ exit' = exit /\ disk' = disk /\ before' = before /\ runs' = runs
        /\ UNCHANGED localVars
    BY <1>2 DEF MoveDieArea, files
  <2>2. IsDesign(mem) /\ left = {}
    BY <2>1 DEF LoopInv, TypeInv, PlaceInv, Placing
  <2>3. mem' = [grid |-> mem.grid, dbu |-> mem.dbu, layers |-> mem.layers, die |-> die,
                insts |-> mem.insts, nets |-> mem.nets, bterms |-> mem.bterms,
                obs |-> mem.obs]
    BY <2>1, <2>2, Fields
  <2>4. /\ mem'.insts = mem.insts /\ mem'.nets = mem.nets /\ mem'.bterms = mem.bterms
        /\ mem'.grid = mem.grid /\ mem'.die = die /\ mem'.obs = mem.obs
        /\ mem' = [grid |-> mem.grid, dbu |-> mem.dbu, layers |-> mem.layers,
                   die |-> mem'.die, insts |-> mem'.insts, nets |-> mem'.nets,
                   bterms |-> mem'.bterms, obs |-> mem'.obs]
    BY <2>3
  <2>5. IsDesign(mem')
    <3>1. /\ \A n \in DOMAIN mem'.bterms : IsBTerm(mem', mem'.bterms[n])
          /\ \A i \in DOMAIN mem'.insts : IsInst(mem', mem'.insts[i])
      BY <2>2, <2>4, SameNets DEF IsDesign
    <3> QED
      BY <2>2, <2>4, <3>1, Assembled DEF IsDesign
  <2>6. \A p \in Paths : disk'[p] = NoFile \/ IsDesign(disk'[p])
    BY <2>1 DEF LoopInv, TypeInv
  <2> QED
    BY <2>1, <2>2, <2>4, <2>5, <2>6, AfterLoops DEF Placing
<1> QED
  BY <1>1, <1>2

LEMMA WriteStep ==
  ASSUME LoopInv, FilesInv', WriteDef \/ WriteDb, UNCHANGED localVars
  PROVE  LoopInv'
<1>1. IsDesign(mem) /\ left = {} /\ pc \in {"returned", "def_written"}
  BY DEF LoopInv, TypeInv, PlaceInv, Placing, WriteDef, WriteDb
<1>2. \A p \in Paths : disk'[p] = NoFile \/ IsDesign(disk'[p])
  BY <1>1 DEF LoopInv, TypeInv, FilesInv, WriteDef, WriteDb
<1>3. CASE WriteDef
  <2>1. /\ pc = "returned" /\ pc' = "def_written" /\ mem' = mem /\ inv' = inv
        /\ exit' = exit /\ before' = before /\ runs' = runs
    BY <1>3 DEF WriteDef
  <2>2. mem.die = inv.template.die
    BY <2>1 DEF LoopInv, PlaceInv, Placing
  <2> QED
    BY <1>1, <1>2, <2>1, <2>2, AfterLoops DEF Placing
<1>4. CASE WriteDb
  <2>1. /\ pc' = "idle" /\ mem' = NoDesign /\ exit' \in Exits
        /\ before' = before /\ runs' = runs /\ grid_errors' = grid_errors
    BY <1>4 DEF WriteDb, Exits, localVars
  <2> QED
    BY <1>2, <2>1, Unloaded DEF LoopInv, TypeInv
<1> QED
  BY <1>3, <1>4

LEMMA LoopStep == LoopInv /\ [Next]_vars => LoopInv'
<1> SUFFICES ASSUME LoopInv, [Next]_vars PROVE LoopInv'
  OBVIOUS
<1>1. FilesInv'
  BY FilesStep DEF LoopInv
<1>2. ASSUME NEW c \in Configs, CommandFails(c) \/ GetCommand(c) PROVE LoopInv'
  BY <1>1, <1>2, StartStep
<1>3. CASE (OpenDb \/ RefuseDef) /\ UNCHANGED localVars
  BY <1>1, <1>3, OpenStep
<1>4. CASE (WriteDef \/ WriteDb) /\ UNCHANGED localVars
  BY <1>1, <1>4, WriteStep
<1>5. CASE Relocate
  BY <1>1, <1>5, ReadStep, CreateStep, CreatedStep, BoxStep, PlacedStep DEF Relocate
<1>6. CASE MoveDieArea
  BY <1>1, <1>6, DieAreaStep
<1>7. CASE Kill /\ UNCHANGED localVars
  BY <1>1, <1>7, EndStep DEF Kill
<1>8. CASE UNCHANGED vars
  <2>1. /\ pc' = pc /\ mem' = mem /\ inv' = inv /\ exit' = exit /\ disk' = disk
        /\ before' = before /\ runs' = runs /\ locs' = locs /\ left' = left
        /\ todo' = todo /\ grid_errors' = grid_errors
    BY <1>8 DEF vars, clickVars, localVars
  <2>2. /\ read' = read /\ Applied' = Applied /\ Requested' = Requested
        /\ Placements' = Placements
        /\ \A n : Done(n)' = Done(n) /\ BoxesBefore(n)' = BoxesBefore(n)
        /\ \A k, n : NetSetBy(k, n)' = NetSetBy(k, n)
    BY <2>1 DEF read, Applied, Requested, Placements, Done, BoxesBefore, NetSetBy
  <2> QED
    BY <1>1, <2>1, <2>2 DEF LoopInv, TypeInv, ReadInv, CreateInv, PlaceInv
<1> QED
  BY <1>2, <1>3, <1>4, <1>5, <1>6, <1>7, <1>8 DEF Next, ScriptStep

LEMMA LoopAlways == Spec => []LoopInv
BY LoopInit, LoopStep, PTL DEF Spec

(* Every design in the files and in memory hangs together, whatever the    *)
(* input, the template and the pins asked for.                             *)
THEOREM TypeCorrect == Spec => []TypeOK
<1>1. LoopInv => TypeOK
  <2> SUFFICES ASSUME LoopInv PROVE TypeOK
    OBVIOUS
  <2>1. ClickTypeOK
    BY DEF LoopInv, FilesInv, TypeInv, ClickTypeOK
  <2>2. pc \in Working \cup {"idle", "def_written"} /\ inv \in Configs
    BY DEF LoopInv, FilesInv
  <2>3. pc = "create" => /\ Range(todo) \subseteq Requested
                         /\ Requested \ Range(todo) \subseteq DOMAIN mem.bterms
    BY DEF LoopInv, CreateInv, Range
  <2>4. pc = "place" => left \subseteq Placements
    BY DEF LoopInv, PlaceInv, Placing
  <2> QED
    BY <2>1, <2>2, <2>3, <2>4 DEF TypeOK, Working, LoopInv, TypeInv
<1> QED
  BY <1>1, LoopAlways, PTL

(* The loops of relocate_pins and move_diearea add up to the template      *)
(* applied to the design that was read, for any design, template and list  *)
(* of pins, and in any order of the boxes.  The boxes that a pin had stay, *)
(* whatever its signal type: a case of what the property admits.           *)
THEOREM WrittenAlwaysApplied == Spec => []WrittenIsApplied
<1>1. LoopInv => WrittenIsApplied
  <2> SUFFICES ASSUME LoopInv, pc \in {"returned", "def_written"}
               PROVE  WrittenIsApplied
    BY DEF WrittenIsApplied, Written
  <2>1. PlaceInv /\ ReadInv /\ inv \in Configs /\ pc \in Placing /\ pc \in Loaded
    BY DEF LoopInv, FilesInv, Placing, Loaded
  <2>2. \A n \in Applied : /\ Done(n) = inv.template.terms[n].boxes
                           /\ Done(n) # {}
                           /\ locs[n] = inv.template.terms[n]
    BY <2>1, TemplateFacts DEF PlaceInv, Done
  <2>3. \A n \in Applied : PlacedAsDrawn(n)
    <3> SUFFICES ASSUME NEW n \in Applied PROVE PlacedAsDrawn(n)
      OBVIOUS
    <3> DEFINE drawn == SetToBag(inv.template.terms[n].boxes)
    <3>1. /\ mem.bterms[n].boxes = BoxesBefore(n) (+) drawn
          /\ mem.bterms[n].sig = inv.template.terms[n].sig
          /\ \E o \in Applied : /\ mem.bterms[o].net = mem.bterms[n].net
                                /\ NetSetBy(mem.bterms[n].net, o)
      BY <2>1, <2>2 DEF PlaceInv
    <3>2. IsABag(BoxesBefore(n))
      <4>1. IsABag(EmptyBag)
        BY DEF IsABag, EmptyBag, SetToBag
      <4>2. n \in DOMAIN read.bterms => IsABag(read.bterms[n].boxes)
        BY <2>1 DEF ReadInv, IsDesign, IsBTerm
      <4> QED
        BY <4>1, <4>2 DEF BoxesBefore
    <3>3. /\ drawn \sqsubseteq BoxesBefore(n) (+) drawn
          /\ BoxesBefore(n) (+) drawn \sqsubseteq BoxesBefore(n) (+) drawn
      BY <3>2, BagPart
    <3> HIDE DEF drawn
    <3> QED
      BY <3>1, <3>3 DEF PlacedAsDrawn, drawn
  <2> QED
    BY <2>1, <2>3 DEF WrittenIsApplied, PlaceInv, ReadInv, AsRead, Written
<1> QED
  BY <1>1, LoopAlways, PTL

-----------------------------------------------------------------------------
(* The manufacturing grid.                                                 *)

Checked == {"diearea", "returned", "def_written"}

GridInv ==
  /\ pc \in Loaded => grid_errors \/ OffGridBoxes(mem) \subseteq OffGridBoxes(read)
  /\ pc \in Checked => ~grid_errors
  /\ NoNewOffGrid

(* A box off the grid is one of a pin's.                                   *)
LEMMA OffGridMember ==
  ASSUME NEW d, NEW p
  PROVE  p \in OffGridBoxes(d) <=>
           \E n \in DOMAIN d.bterms : \E b \in DOMAIN d.bterms[n].boxes :
             p = <<n, b>> /\ d.grid # 0 /\ \E x \in Corners(b) : x % d.grid # 0
BY DEF OffGridBoxes

LEMMA SameBoxes ==
  ASSUME NEW d, NEW e, e.bterms = d.bterms, e.grid = d.grid
  PROVE  OffGridBoxes(e) = OffGridBoxes(d)
BY DEF OffGridBoxes

(* Creating pins adds no box.                                              *)
LEMMA BarePins ==
  ReadInv /\ CreateInv /\ pc = "create" => OffGridBoxes(mem) \subseteq OffGridBoxes(read)
<1> SUFFICES ASSUME ReadInv, CreateInv, pc = "create", NEW p \in OffGridBoxes(mem)
             PROVE  p \in OffGridBoxes(read)
  OBVIOUS
<1>1. PICK n \in DOMAIN mem.bterms : \E b \in DOMAIN mem.bterms[n].boxes :
        p = <<n, b>> /\ mem.grid # 0 /\ \E x \in Corners(b) : x % mem.grid # 0
  BY OffGridMember
<1>2. DOMAIN EmptyBag = {}
  BY DEF EmptyBag, SetToBag
<1>3. n \in DOMAIN read.bterms /\ mem.bterms[n] = read.bterms[n] /\ mem.grid = read.grid
  BY <1>1, <1>2 DEF CreateInv, ReadInv, Loaded
<1> QED
  BY <1>1, <1>3, OffGridMember

(* A box that passes the check adds none off the grid.                     *)
LEMMA CheckedBox ==
  ASSUME LoopInv, PlaceBox, pc' = "place", GridInv
  PROVE  grid_errors' \/ OffGridBoxes(mem') \subseteq OffGridBoxes(read)
<1>1. PICK p \in left : /\ mem' = Placed(p[1], p[2])
                         /\ grid_errors' = GridErrors(p[2])
  BY DEF PlaceBox, End
<1> DEFINE n == p[1]
           b == p[2]
           e == Placed(n, b)
<1>2. inv \in Configs /\ pc = "place" /\ IsDesign(mem)
  BY DEF LoopInv, FilesInv, TypeInv, PlaceBox
<1>3. n \in DOMAIN mem.bterms /\ n \in Applied /\ b \in locs[n].boxes
  BY <1>2 DEF LoopInv, PlaceInv, Placing, Placements, Applied
<1>4. IsBox(b)
  BY <1>2, <1>3, TemplateFacts DEF LoopInv, PlaceInv, Placing
<1> HIDE DEF n, b
<1>5. /\ IsDesign(e)
      /\ DOMAIN e.bterms = DOMAIN mem.bterms
      /\ \A o \in DOMAIN mem.bterms \ {n} : e.bterms[o] = mem.bterms[o]
      /\ e.bterms[n].net = mem.bterms[n].net
      /\ e.bterms[n].sig = locs[n].sig
      /\ e.bterms[n].boxes = mem.bterms[n].boxes (+) SetToBag({b})
      /\ e.nets[mem.bterms[n].net] = [special |-> TRUE, sig |-> locs[n].sig]
      /\ \A k \in DOMAIN mem.nets \ {mem.bterms[n].net} : e.nets[k] = mem.nets[k]
      /\ DOMAIN e.nets = DOMAIN mem.nets
      /\ e.insts = mem.insts /\ e.grid = mem.grid
  BY <1>2, <1>3, <1>4, PlacedKeeps
<1> HIDE DEF e
<1>6. IsABag(mem.bterms[n].boxes)
  BY <1>2, <1>3 DEF IsDesign, IsBTerm
<1>7. DOMAIN e.bterms[n].boxes = DOMAIN mem.bterms[n].boxes \cup {b}
  BY <1>5, <1>6, BagAddKeeps
<1>8. CASE OffGrid(b) \/ grid_errors
  BY <1>1, <1>8 DEF GridErrors, b
<1>9. CASE ~OffGrid(b) /\ ~grid_errors
  <2>1. OffGridBoxes(mem) \subseteq OffGridBoxes(read)
    BY <1>2, <1>9 DEF GridInv, Loaded
  <2>2. \A x \in Corners(b) : ~(x % mem.grid # 0)
    BY <1>9 DEF OffGrid, check_pin_grid
  <2>3. ASSUME NEW q \in OffGridBoxes(e) PROVE q \in OffGridBoxes(mem)
    <3>1. PICK o \in DOMAIN e.bterms : \E c \in DOMAIN e.bterms[o].boxes :
            q = <<o, c>> /\ e.grid # 0 /\ \E x \in Corners(c) : x % e.grid # 0
      BY OffGridMember
    <3>2. PICK c \in DOMAIN e.bterms[o].boxes :
            q = <<o, c>> /\ e.grid # 0 /\ \E x \in Corners(c) : x % e.grid # 0
      BY <3>1
    <3>3. c # b
      BY <1>5, <2>2, <3>2
    <3>4. c \in DOMAIN mem.bterms[o].boxes
      BY <1>5, <1>7, <3>3
    <3> QED
      BY <1>5, <3>2, <3>4, OffGridMember
  <2> QED
    BY <1>1, <2>1, <2>3 DEF e, n, b
<1> QED
  BY <1>8, <1>9

(* Steps that leave the files, and steps that begin a run.                 *)
LEMMA FilesKept ==
  ASSUME GridInv, disk' = disk, before' = before, inv' = inv
  PROVE  NoNewOffGrid'
BY DEF GridInv, NoNewOffGrid, read, OffGridBoxes

LEMMA GridStep == LoopInv /\ LoopInv' /\ GridInv /\ [Next]_vars => GridInv'
<1> SUFFICES ASSUME LoopInv, LoopInv', GridInv, [Next]_vars PROVE GridInv'
  OBVIOUS
<1> USE DEF Loaded, Checked
<1>1. ASSUME NEW c \in Configs, CommandFails(c) \/ GetCommand(c) PROVE GridInv'
  BY <1>1 DEF CommandFails, GetCommand, Launch, GridInv, NoNewOffGrid
<1>2. ASSUME NEW code, End(code) PROVE GridInv'
  BY <1>2, FilesKept DEF End, files, GridInv
<1>3. CASE OpenDb /\ pc' = "function"
  <2>1. mem' = read'
    BY <1>3 DEF LoopInv, ReadInv
  <2> QED
    BY <1>3, <2>1, FilesKept DEF OpenDb, files, GridInv, End
<1>4. CASE ReadTemplate /\ pc' = "create"
  <2>1. /\ disk' = disk /\ before' = before /\ inv' = inv /\ mem' = mem
        /\ grid_errors' = grid_errors /\ mem = read /\ pc = "function"
    BY <1>4 DEF ReadTemplate, files, End, LoopInv, ReadInv
  <2>2. mem' = read'
    BY <2>1 DEF read
  <2> QED
    BY <1>4, <2>1, <2>2, FilesKept DEF GridInv
<1>5. CASE CreatePin
  <2>1. /\ disk' = disk /\ before' = before /\ inv' = inv /\ pc' = "create"
    BY <1>5 DEF CreatePin, files
  <2>2. (ReadInv /\ CreateInv /\ pc = "create" =>
           OffGridBoxes(mem) \subseteq OffGridBoxes(read))'
    BY BarePins, PTL
  <2> QED
    BY <2>1, <2>2, FilesKept DEF GridInv, LoopInv
<1>6. CASE PinsCreated
  <2>1. /\ disk' = disk /\ before' = before /\ inv' = inv /\ mem' = mem
        /\ grid_errors' = grid_errors /\ pc = "create" /\ pc' = "place"
    BY <1>6 DEF PinsCreated, files
  <2>2. OffGridBoxes(mem') = OffGridBoxes(mem) /\ OffGridBoxes(read') = OffGridBoxes(read)
    BY <2>1 DEF read
  <2> QED
    BY <2>1, <2>2, FilesKept DEF GridInv
<1>7. CASE PlaceBox /\ pc' = "place"
  <2>1. /\ disk' = disk /\ before' = before /\ inv' = inv
    BY <1>7 DEF PlaceBox, files, End
  <2>2. grid_errors' \/ OffGridBoxes(mem') \subseteq OffGridBoxes(read)
    BY <1>7, CheckedBox
  <2>3. read' = read
    BY <2>1 DEF read
  <2> QED
    BY <1>7, <2>1, <2>2, <2>3, FilesKept DEF GridInv
<1>8. CASE PinsPlaced /\ pc' = "diearea"
  <2>1. /\ disk' = disk /\ before' = before /\ inv' = inv /\ mem' = mem /\ pc = "place"
        /\ grid_errors' = FALSE /\ grid_errors = FALSE
    BY <1>8 DEF PinsPlaced, files, End, localVars, LoopInv, TypeInv
  <2>2. mem' = mem /\ read' = read
    BY <2>1 DEF read
  <2> QED
    BY <1>8, <2>1, <2>2, FilesKept DEF GridInv
<1>9. CASE MoveDieArea /\ pc' = "returned"
  <2>1. /\ disk' = disk /\ before' = before /\ inv' = inv /\ pc = "diearea"
        /\ grid_errors' = grid_errors
        /\ mem' = [mem EXCEPT !.die = inv.template.die] /\ IsDesign(mem)
    BY <1>9 DEF MoveDieArea, files, End, localVars, LoopInv, TypeInv
  <2>2. mem'.bterms = mem.bterms /\ mem'.grid = mem.grid
    BY <2>1 DEF IsDesign
  <2>3. OffGridBoxes(mem') = OffGridBoxes(mem) /\ read' = read
    BY <2>1, <2>2, SameBoxes DEF read
  <2> QED
    BY <1>9, <2>1, <2>3, FilesKept DEF GridInv
<1>10. CASE (WriteDef \/ WriteDb) /\ UNCHANGED localVars
  <2>1. /\ before' = before /\ inv' = inv /\ grid_errors' = grid_errors
        /\ pc \in {"returned", "def_written"}
        /\ \A p \in Paths : disk'[p] \in {disk[p], mem}
        /\ pc' = "idle" \/ (pc' = "def_written" /\ mem' = mem)
    BY <1>10 DEF WriteDef, WriteDb, localVars, LoopInv, FilesInv
  <2>2. OffGridBoxes(mem) \subseteq OffGridBoxes(read) /\ ~grid_errors /\ read' = read
    BY <2>1 DEF GridInv, read
  <2>3. NoNewOffGrid'
    BY <2>1, <2>2 DEF GridInv, NoNewOffGrid
  <2>4. pc' = "def_written" => OffGridBoxes(mem') \subseteq OffGridBoxes(read')
    BY <2>1, <2>2
  <2> QED
    BY <2>1, <2>2, <2>3, <2>4 DEF GridInv
<1>11. CASE UNCHANGED vars
  BY <1>11, FilesKept DEF vars, clickVars, localVars, GridInv, read
<1>12. OpenDb => pc' = "function" \/ End("raised")
  BY DEF OpenDb
<1>13. RefuseDef => \E code : End(code)
  BY DEF RefuseDef
<1>14. ReadTemplate => pc' = "create" \/ End("raised")
  BY DEF ReadTemplate
<1>15. PlaceBox => pc' = "place" \/ End("raised")
  BY DEF PlaceBox
<1>16. PinsPlaced => pc' = "diearea" \/ End("dataerr")
  BY DEF PinsPlaced
<1>17. MoveDieArea => pc' = "returned" \/ End("raised")
  BY DEF MoveDieArea
<1>18. Kill => End("killed")
  BY DEF Kill
<1> QED
  BY <1>1, <1>2, <1>3, <1>4, <1>5, <1>6, <1>7, <1>8, <1>9, <1>10, <1>11, <1>12,
     <1>13, <1>14, <1>15, <1>16, <1>17, <1>18
  DEF Next, ScriptStep, Relocate

LEMMA GridInit == Init => GridInv
BY DEF Init, ClickInit, GridInv, NoNewOffGrid, Loaded, Checked

(* No box off the manufacturing grid reaches a file by way of the          *)
(* template, for any grid, template and design.                            *)
THEOREM NeverNewOffGrid == Spec => []NoNewOffGrid
<1>1. GridInv => NoNewOffGrid
  BY DEF GridInv
<1> QED
  BY <1>1, GridInit, GridStep, LoopAlways, PTL DEF Spec
=============================================================================
