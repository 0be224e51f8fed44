----------------------- MODULE DefUtilScripts_proofs -----------------------
(***************************************************************************)
(* Proofs about the commands of defutil.py and defutil_ol2.py, for any     *)
(* databases, arguments and number of runs, and any order of the loops.    *)
(***************************************************************************)
EXTENDS DefUtilScripts, FiniteSetTheorems, TLAPS

-----------------------------------------------------------------------------
(* The calls on a design that the commands make: the design still hangs    *)
(* together, and what each call leaves of its nets, pins and instances.    *)

(* The fields of a design with one of them replaced.                       *)
LEMMA Fields ==
  ASSUME NEW d, IsDesign(d), NEW x
  PROVE  /\ [d EXCEPT !.nets = x] =
              [grid |-> d.grid, dbu |-> d.dbu, layers |-> d.layers, die |-> d.die,
               insts |-> d.insts, nets |-> x, bterms |-> d.bterms, obs |-> d.obs]
         /\ [d EXCEPT !.bterms = x] =
              [grid |-> d.grid, dbu |-> d.dbu, layers |-> d.layers, die |-> d.die,
               insts |-> d.insts, nets |-> d.nets, bterms |-> x, obs |-> d.obs]
         /\ [d EXCEPT !.insts = x] =
              [grid |-> d.grid, dbu |-> d.dbu, layers |-> d.layers, die |-> d.die,
               insts |-> x, nets |-> d.nets, bterms |-> d.bterms, obs |-> d.obs]
         /\ [d EXCEPT !.obs = x] =
              [grid |-> d.grid, dbu |-> d.dbu, layers |-> d.layers, die |-> d.die,
               insts |-> d.insts, nets |-> d.nets, bterms |-> d.bterms, obs |-> x]
         /\ [d EXCEPT !.die = x] =
              [grid |-> d.grid, dbu |-> d.dbu, layers |-> d.layers, die |-> x,
               insts |-> d.insts, nets |-> d.nets, bterms |-> d.bterms, obs |-> d.obs]
BY DEF IsDesign

(* A design is checked by its parts: what the pins and the instances need  *)
(* of the nets is that they are there.                                     *)
LEMMA Assembled ==
  ASSUME NEW d, IsDesign(d), NEW e,
         e = [grid |-> d.grid, dbu |-> d.dbu, layers |-> d.layers, die |-> e.die,
              insts |-> e.insts, nets |-> e.nets, bterms |-> e.bterms, obs |-> e.obs],
         IsABag(e.obs),
         IsFiniteSet(DOMAIN e.nets), NoNet \notin DOMAIN e.nets,
         IsFiniteSet(DOMAIN e.insts),
         e.nets = [k \in DOMAIN e.nets |-> e.nets[k]],
         e.bterms = [n \in DOMAIN e.bterms |-> e.bterms[n]],
         e.insts = [i \in DOMAIN e.insts |-> e.insts[i]],
         \A n \in DOMAIN e.bterms : IsBTerm(e, e.bterms[n]),
         \A i \in DOMAIN e.insts : IsInst(e, e.insts[i])
  PROVE  IsDesign(e)
BY DEF IsDesign

LEMMA SameNets ==
  ASSUME NEW d, NEW e, DOMAIN d.nets \subseteq DOMAIN e.nets
  PROVE  /\ \A t : IsBTerm(d, t) => IsBTerm(e, t)
         /\ \A i : IsInst(d, i) => IsInst(e, i)
BY DEF IsBTerm, IsInst

(* Instances.                                                              *)

LEMMA InstsChanged ==
  ASSUME NEW d, IsDesign(d), NEW x, x = [i \in DOMAIN x |-> x[i]],
         IsFiniteSet(DOMAIN x), \A i \in DOMAIN x : IsInst(d, x[i])
  PROVE  LET e == [d EXCEPT !.insts = x]
         IN  /\ IsDesign(e)
             /\ e.insts = x
             /\ e.nets = d.nets /\ e.bterms = d.bterms /\ e.obs = d.obs
             /\ e.dbu = d.dbu /\ e.layers = d.layers
<1> DEFINE e == [d EXCEPT !.insts = x]
<1>1. e = [grid |-> d.grid, dbu |-> d.dbu, layers |-> d.layers, die |-> d.die,
           insts |-> x, nets |-> d.nets, bterms |-> d.bterms, obs |-> d.obs]
  BY Fields
<1> HIDE DEF e
<1>2. /\ e.insts = x /\ e.nets = d.nets /\ e.bterms = d.bterms /\ e.obs = d.obs
      /\ e.dbu = d.dbu /\ e.layers = d.layers /\ e.die = d.die
  BY <1>1
<1>3. /\ \A n \in DOMAIN e.bterms : IsBTerm(e, e.bterms[n])
      /\ \A i \in DOMAIN e.insts : IsInst(e, e.insts[i])
  BY <1>2, SameNets DEF IsDesign
<1>4. IsDesign(e)
  BY <1>1, <1>2, <1>3, Assembled DEF IsDesign
<1> QED
  BY <1>2, <1>4 DEF e

LEMMA SetStatusKeeps ==
  ASSUME NEW d, IsDesign(d), NEW i \in DOMAIN d.insts, NEW s \in {"NONE", "PLACED", "FIRM"}
  PROVE  LET e == SetStatus(d, i, s)
         IN  IsDesign(e) /\ DOMAIN e.insts = DOMAIN d.insts
<1> DEFINE inst == [d.insts[i] EXCEPT !.status = s]
           x == [d.insts EXCEPT ![i] = inst]
<1>1. IsInst(d, d.insts[i])
  BY DEF IsDesign
<1>2. IsInst(d, inst)
  BY <1>1 DEF IsInst
<1>3. /\ x = [j \in DOMAIN x |-> x[j]] /\ DOMAIN x = DOMAIN d.insts
      /\ \A j \in DOMAIN x : x[j] = d.insts[j] \/ x[j] = inst
  OBVIOUS
<1>4. SetStatus(d, i, s) = [d EXCEPT !.insts = x]
  BY DEF SetStatus, IsDesign
<1> HIDE DEF inst, x
<1>5. \A j \in DOMAIN x : IsInst(d, x[j])
  BY <1>2, <1>3 DEF IsDesign
<1>6. IsFiniteSet(DOMAIN x)
  BY <1>3 DEF IsDesign
<1>7. LET e == [d EXCEPT !.insts = x] IN IsDesign(e) /\ e.insts = x
  BY <1>3, <1>5, <1>6, InstsChanged
<1> QED
  BY <1>3, <1>4, <1>7

LEMMA CreateInstKeeps ==
  ASSUME NEW d, IsDesign(d), NEW master, NEW name
  PROVE  LET e == CreateInst(d, master, name)
         IN  /\ IsDesign(e)
             /\ DOMAIN e.insts = DOMAIN d.insts \cup {name}
             /\ \A i \in DOMAIN d.insts : e.insts[i] = d.insts[i]
             /\ name \notin DOMAIN d.insts => e.insts[name].master = master
<1> DEFINE inst == [master |-> master, status |-> "NONE", net |-> NoNet]
           x == Put(d.insts, name, inst)
<1>1. CASE name \in DOMAIN d.insts
  BY <1>1 DEF CreateInst
<1>2. CASE name \notin DOMAIN d.insts
  <2>1. CreateInst(d, master, name) = [d EXCEPT !.insts = x]
    BY <1>2 DEF CreateInst, IsDesign
  <2>2. /\ x = [j \in DOMAIN x |-> x[j]] /\ DOMAIN x = DOMAIN d.insts \cup {name}
        /\ \A i \in DOMAIN d.insts : x[i] = d.insts[i]
        /\ x[name] = inst /\ inst.master = master
    BY <1>2 DEF Put
  <2>3. IsInst(d, inst)
    BY DEF IsInst
  <2> HIDE DEF inst, x
  <2>4. \A j \in DOMAIN x : IsInst(d, x[j])
    BY <2>2, <2>3 DEF IsDesign
  <2>5. IsFiniteSet(DOMAIN x)
    BY <2>2, FS_AddElement DEF IsDesign
  <2>6. LET e == [d EXCEPT !.insts = x] IN IsDesign(e) /\ e.insts = x
    BY <2>2, <2>4, <2>5, InstsChanged
  <2> QED
    BY <2>1, <2>2, <2>6
<1> QED
  BY <1>1, <1>2

LEMMA DestroyInstKeeps ==
  ASSUME NEW d, IsDesign(d), NEW name
  PROVE  IsDesign(DestroyInst(d, name))
<1> DEFINE x == Without(d.insts, name)
<1>1. DestroyInst(d, name) = [d EXCEPT !.insts = x]
  BY DEF DestroyInst, IsDesign
<1>2. /\ x = [j \in DOMAIN x |-> x[j]] /\ DOMAIN x = DOMAIN d.insts \ {name}
      /\ \A j \in DOMAIN x : x[j] = d.insts[j]
  BY DEF Without
<1> HIDE DEF x
<1>3. \A j \in DOMAIN x : IsInst(d, x[j])
  BY <1>2 DEF IsDesign
<1>4. IsFiniteSet(DOMAIN x)
  BY <1>2, FS_RemoveElement DEF IsDesign
<1> QED
  BY <1>1, <1>2, <1>3, <1>4, InstsChanged

(* A rename moves one instance to a free name, or does nothing.            *)
LEMMA RenameInstKeeps ==
  ASSUME NEW d, IsDesign(d), NEW old \in DOMAIN d.insts, NEW new,
         new \notin DOMAIN d.insts
  PROVE  LET e == RenameInst(d, old, new)
         IN  /\ IsDesign(e)
             /\ DOMAIN e.insts = (DOMAIN d.insts \ {old}) \cup {new}
             /\ \A i \in DOMAIN d.insts \ {old} : e.insts[i] = d.insts[i]
             /\ e.insts[new] = d.insts[old]
             /\ Cardinality(DOMAIN e.insts) = Cardinality(DOMAIN d.insts)
<1> DEFINE inst == d.insts[old]
           rest == DOMAIN d.insts \ {old}
           x == Put(Without(d.insts, old), new, inst)
<1>1. RenameInst(d, old, new) = [d EXCEPT !.insts = x]
  BY DEF RenameInst, IsDesign
<1>2. /\ x = [j \in DOMAIN x |-> x[j]] /\ DOMAIN x = rest \cup {new}
      /\ \A i \in rest : x[i] = d.insts[i]
      /\ x[new] = inst
  BY DEF Put, Without
<1>3. IsFiniteSet(rest) /\ Cardinality(rest) = Cardinality(DOMAIN d.insts) - 1
  <2>1. IsFiniteSet(DOMAIN d.insts)
    BY DEF IsDesign
  <2> QED
    BY <2>1, FS_RemoveElement
<1>4. new \notin rest /\ Cardinality(DOMAIN d.insts) \in Nat
  BY FS_CardinalityType DEF IsDesign
<1>5. /\ IsFiniteSet(rest \cup {new})
      /\ Cardinality(rest \cup {new}) = Cardinality(rest) + 1
  BY <1>3, <1>4, FS_AddElement
<1> HIDE DEF inst, rest, x
<1>6. \A j \in DOMAIN x : IsInst(d, x[j])
  BY <1>2 DEF IsDesign, inst, rest
<1>7. LET e == [d EXCEPT !.insts = x] IN IsDesign(e) /\ e.insts = x
  BY <1>2, <1>5, <1>6, InstsChanged
<1>8. Cardinality(DOMAIN x) = Cardinality(DOMAIN d.insts)
  BY <1>2, <1>3, <1>4, <1>5
<1> QED
  BY <1>1, <1>2, <1>7, <1>8 DEF inst, rest

-----------------------------------------------------------------------------
(* Nets and pins that go.                                                  *)

LEMMA DisconnectNetKeeps ==
  ASSUME NEW d, IsDesign(d), NEW key
  PROVE  LET e == DisconnectNet(d, key)
         IN  /\ IsDesign(e)
             /\ DOMAIN e.insts = DOMAIN d.insts
             /\ \A i \in ITermsOf(d, key) : e.insts[i].net = NoNet
             /\ \A i \in DOMAIN d.insts \ ITermsOf(d, key) : e.insts[i] = d.insts[i]
             /\ e.nets = d.nets /\ e.bterms = d.bterms
<1> DEFINE Off(i) == [d.insts[i] EXCEPT !.net = NoNet]
           x == [i \in DOMAIN d.insts |-> IF i \in ITermsOf(d, key) THEN Off(i)
                                                                     ELSE d.insts[i]]
<1>1. DisconnectNet(d, key) = [d EXCEPT !.insts = x]
  BY DEF DisconnectNet, IsDesign
<1>2. \A i \in DOMAIN d.insts : IsInst(d, d.insts[i])
  BY DEF IsDesign
<1>3. ASSUME NEW i \in DOMAIN d.insts
      PROVE  IsInst(d, Off(i)) /\ Off(i).net = NoNet
  <2>1. /\ d.insts[i] = [master |-> d.insts[i].master, status |-> d.insts[i].status,
                         net |-> d.insts[i].net]
        /\ d.insts[i].status \in {"NONE", "PLACED", "FIRM"}
    BY <1>2 DEF IsInst
  <2>2. Off(i) = [master |-> d.insts[i].master, status |-> d.insts[i].status,
                  net |-> NoNet]
    BY <2>1
  <2> HIDE DEF Off
  <2> QED
    BY <2>1, <2>2 DEF IsInst
<1> HIDE DEF Off
<1>4. /\ x = [j \in DOMAIN x |-> x[j]] /\ DOMAIN x = DOMAIN d.insts
      /\ \A i \in DOMAIN d.insts : i \in ITermsOf(d, key) => x[i] = Off(i)
      /\ \A i \in DOMAIN d.insts : i \notin ITermsOf(d, key) => x[i] = d.insts[i]
  OBVIOUS
<1> HIDE DEF x
<1>5. \A j \in DOMAIN x : IsInst(d, x[j])
  BY <1>2, <1>3, <1>4
<1>6. IsFiniteSet(DOMAIN x)
  BY <1>4 DEF IsDesign
<1>7. LET e == [d EXCEPT !.insts = x]
      IN  IsDesign(e) /\ e.insts = x /\ e.nets = d.nets /\ e.bterms = d.bterms
  BY <1>4, <1>5, <1>6, InstsChanged
<1>8. ITermsOf(d, key) \subseteq DOMAIN d.insts
  BY DEF ITermsOf
<1> QED
  BY <1>1, <1>3, <1>4, <1>7, <1>8

(* A net without pins goes, and takes no pin and no instance with it.      *)
LEMMA DestroyNetKeeps ==
  ASSUME NEW d, IsDesign(d), NEW key \in DOMAIN d.nets, BTermsOf(d, key) = {}
  PROVE  LET e == DestroyNet(d, key)
         IN  /\ IsDesign(e)
             /\ DOMAIN e.insts = DOMAIN d.insts
             /\ \A i \in ITermsOf(d, key) : e.insts[i].net = NoNet
             /\ \A i \in DOMAIN d.insts \ ITermsOf(d, key) : e.insts[i] = d.insts[i]
             /\ DOMAIN e.nets = DOMAIN d.nets \ {key} /\ e.bterms = d.bterms
<1> DEFINE c == DisconnectNet(d, key)
           nets == Without(d.nets, key)
           bterms == [n \in DOMAIN d.bterms \ BTermsOf(d, key) |-> d.bterms[n]]
           f == [c EXCEPT !.nets = nets]
           e == [f EXCEPT !.bterms = bterms]
<1>1. /\ IsDesign(c)
      /\ DOMAIN c.insts = DOMAIN d.insts
      /\ \A i \in ITermsOf(d, key) : c.insts[i].net = NoNet
      /\ \A i \in DOMAIN d.insts \ ITermsOf(d, key) : c.insts[i] = d.insts[i]
      /\ c.nets = d.nets /\ c.bterms = d.bterms
  BY DisconnectNetKeeps
<1>2. bterms = d.bterms
  BY DEF IsDesign
<1>3. /\ nets = [k \in DOMAIN nets |-> nets[k]]
      /\ DOMAIN nets = DOMAIN d.nets \ {key}
  BY DEF Without
<1>4. DestroyNet(d, key) = e
  BY <1>1 DEF DestroyNet, IsDesign
<1> HIDE DEF c, nets, bterms
<1>5. f = [grid |-> c.grid, dbu |-> c.dbu, layers |-> c.layers, die |-> c.die,
           insts |-> c.insts, nets |-> nets, bterms |-> c.bterms, obs |-> c.obs]
  BY <1>1, Fields
<1> HIDE DEF f
<1>6. e = [grid |-> c.grid, dbu |-> c.dbu, layers |-> c.layers, die |-> c.die,
           insts |-> c.insts, nets |-> nets, bterms |-> c.bterms, obs |-> c.obs]
  BY <1>1, <1>2, <1>5
<1> HIDE DEF e
<1>7. /\ e.insts = c.insts /\ e.nets = nets /\ e.bterms = c.bterms
      /\ e.grid = c.grid /\ e.dbu = c.dbu /\ e.layers = c.layers /\ e.obs = c.obs
      /\ e.die = c.die
  BY <1>6
<1>8. \A n \in DOMAIN e.bterms : IsBTerm(e, e.bterms[n])
  <2>1. \A n \in DOMAIN d.bterms : IsBTerm(d, d.bterms[n]) /\ d.bterms[n].net # key
    BY DEF IsDesign, BTermsOf
  <2> QED
    BY <1>1, <1>3, <1>7, <2>1 DEF IsBTerm
<1>9. \A i \in DOMAIN e.insts : IsInst(e, e.insts[i])
  <2>1. \A i \in DOMAIN c.insts : IsInst(c, c.insts[i]) /\ c.insts[i].net # key
    BY <1>1 DEF IsDesign, ITermsOf
  <2> QED
    BY <1>1, <1>3, <1>7, <2>1 DEF IsInst
<1>10. IsFiniteSet(DOMAIN nets)
  BY <1>3, FS_RemoveElement DEF IsDesign
<1>11. IsDesign(e)
  BY <1>1, <1>3, <1>6, <1>7, <1>8, <1>9, <1>10, Assembled DEF IsDesign
<1> QED
  BY <1>1, <1>3, <1>4, <1>7, <1>11

LEMMA DestroyBTermKeeps ==
  ASSUME NEW d, IsDesign(d), NEW name
  PROVE  IsDesign(DestroyBTerm(d, name))
<1> DEFINE x == Without(d.bterms, name)
           e == [d EXCEPT !.bterms = x]
<1>1. DestroyBTerm(d, name) = e
  BY DEF DestroyBTerm, IsDesign
<1>2. /\ x = [n \in DOMAIN x |-> x[n]] /\ DOMAIN x \subseteq DOMAIN d.bterms
      /\ \A n \in DOMAIN x : x[n] = d.bterms[n]
  BY DEF Without
<1> HIDE DEF x
<1>3. e = [grid |-> d.grid, dbu |-> d.dbu, layers |-> d.layers, die |-> d.die,
           insts |-> d.insts, nets |-> d.nets, bterms |-> x, obs |-> d.obs]
  BY Fields
<1> HIDE DEF e
<1>4. /\ e.insts = d.insts /\ e.nets = d.nets /\ e.bterms = x /\ e.obs = d.obs
      /\ e.die = d.die
  BY <1>3
<1>5. /\ \A n \in DOMAIN e.bterms : IsBTerm(d, e.bterms[n])
      /\ \A i \in DOMAIN e.insts : IsInst(d, e.insts[i])
  BY <1>2, <1>4 DEF IsDesign
<1>6. /\ \A n \in DOMAIN e.bterms : IsBTerm(e, e.bterms[n])
      /\ \A i \in DOMAIN e.insts : IsInst(e, e.insts[i])
  BY <1>4, <1>5, SameNets
<1> QED
  BY <1>1, <1>2, <1>3, <1>4, <1>6, Assembled DEF IsDesign

(* One more copy of a box in the bag, and no other change.                 *)
LEMMA BagAddCounts ==
  ASSUME NEW B, IsABag(B), NEW x
  PROVE  LET A == B (+) SetToBag({x})
         IN  /\ IsABag(A)
             /\ DOMAIN A = DOMAIN B \cup {x}
             /\ \A b : Copies(b, A) = Copies(b, B) + (IF b = x THEN 1 ELSE 0)
BY DEF IsABag, SetToBag, (+), Copies

LEMMA CreateObstructionKeeps ==
  ASSUME NEW d, IsDesign(d), NEW b
  PROVE  LET e == CreateObstruction(d, b)
         IN  /\ IsDesign(e)
             /\ e.obs = d.obs (+) SetToBag({b})
             /\ e.dbu = d.dbu
<1> DEFINE x == d.obs (+) SetToBag({b})
           e == [d EXCEPT !.obs = x]
<1>1. CreateObstruction(d, b) = e
  BY DEF CreateObstruction, IsDesign
<1> HIDE DEF x
<1>2. e = [grid |-> d.grid, dbu |-> d.dbu, layers |-> d.layers, die |-> d.die,
           insts |-> d.insts, nets |-> d.nets, bterms |-> d.bterms, obs |-> x]
  BY Fields
<1> HIDE DEF e
<1>3. /\ e.insts = d.insts /\ e.nets = d.nets /\ e.bterms = d.bterms /\ e.obs = x
      /\ e.die = d.die /\ e.dbu = d.dbu
  BY <1>2
<1>4. /\ \A n \in DOMAIN e.bterms : IsBTerm(e, e.bterms[n])
      /\ \A i \in DOMAIN e.insts : IsInst(e, e.insts[i])
  BY <1>3, SameNets DEF IsDesign
<1>5. IsABag(x)
  BY BagAddCounts DEF x, IsDesign
<1>6. IsDesign(e)
  BY <1>2, <1>3, <1>4, <1>5, Assembled DEF IsDesign
<1> QED
  BY <1>1, <1>3, <1>6 DEF x

-----------------------------------------------------------------------------
(* One turn of each command, the same for both scripts.                    *)

(* What the two scripts do with a net, an instance to rename and one to    *)
(* merge.                                                                  *)
NetRemoved(d, k, match, emptyOnly) ==
  IF k[1] \notin match \/ (emptyOnly /\ ITermsOf(d, k) # {})
  THEN d
  ELSE IF BTermsOf(d, k) # {} THEN DisconnectNet(d, k) ELSE DestroyNet(d, k)

Renamed(d, i, original, new) ==
  IF Head(i) = original
  THEN RenameInst(d, i, U!Replaced(i, original, new))
  ELSE d

LEMMA SameRemoveNet ==
  ASSUME NEW d, NEW k, NEW match, NEW emptyOnly \in BOOLEAN
  PROVE  /\ U!RemoveNet(d, k, match, emptyOnly) = NetRemoved(d, k, match, emptyOnly)
         /\ O!RemoveNet(d, k, match, emptyOnly) = NetRemoved(d, k, match, emptyOnly)
<1>1. U!DisconnectNet(d, k) = DisconnectNet(d, k) /\ O!DisconnectNet(d, k) = DisconnectNet(d, k)
  BY DEF U!DisconnectNet, O!DisconnectNet, DisconnectNet, U!ITermsOf, O!ITermsOf, ITermsOf
<1>2. U!DestroyNet(d, k) = DestroyNet(d, k) /\ O!DestroyNet(d, k) = DestroyNet(d, k)
  BY <1>1 DEF U!DestroyNet, O!DestroyNet, DestroyNet, U!Without, O!Without, Without,
              U!BTermsOf, O!BTermsOf, BTermsOf
<1>3. U!ITermsOf(d, k) = ITermsOf(d, k) /\ O!ITermsOf(d, k) = ITermsOf(d, k)
  BY DEF U!ITermsOf, O!ITermsOf, ITermsOf
<1>4. U!BTermsOf(d, k) = BTermsOf(d, k) /\ O!BTermsOf(d, k) = BTermsOf(d, k)
  BY DEF U!BTermsOf, O!BTermsOf, BTermsOf
<1> QED
  BY <1>1, <1>2, <1>3, <1>4 DEF U!RemoveNet, O!RemoveNet, NetRemoved

LEMMA SameReplacePrefix ==
  ASSUME NEW d, NEW i, NEW original, NEW new
  PROVE  /\ U!ReplacePrefix(d, i, original, new) = Renamed(d, i, original, new)
         /\ O!ReplacePrefix(d, i, original, new) = Renamed(d, i, original, new)
BY DEF U!ReplacePrefix, O!ReplacePrefix, Renamed, U!Replaced,
       U!RenameInst, O!RenameInst, RenameInst, U!Put, O!Put, Put,
       U!Without, O!Without, Without

LEMMA SameMergeComponent ==
  ASSUME NEW d, NEW donor, NEW i
  PROVE  U!MergeComponent(d, donor, i) = CreateInst(d, donor.insts[i].master, i)
BY DEF U!MergeComponent, U!CreateInst, CreateInst, U!Put, Put

-----------------------------------------------------------------------------
(* Obstructions.                                                           *)

(* A coordinate in database units is within one of the coordinate in       *)
(* microns, whichever way the product was rounded.                         *)
LEMMA InDbuIsNear ==
  ASSUME NEW c \in Int, NEW dbu \in Nat, NEW x \in U!InDbu(c, dbu) \cup O!InDbu(c, dbu)
  PROVE  100 * x - dbu * c \in -100..100
<1> DEFINE p == dbu * c
<1>1. p \in Int /\ c * dbu = p /\ (-c) * dbu = -p
  OBVIOUS
<1>2. CASE x \in U!InDbu(c, dbu)
  <2>1. x \in {U!Trunc(p, 100), U!Trunc(p, 100) - 1, U!Trunc(p, 100) + 1}
        /\ (x # U!Trunc(p, 100) => p % 100 = 0)
    BY <1>1, <1>2 DEF U!InDbu
  <2> HIDE DEF p
  <2> QED
    BY <1>1, <2>1 DEF U!Trunc
<1>3. CASE x \in O!InDbu(c, dbu)
  <2> DEFINE size == IF c < 0 THEN -c ELSE c
             sign == IF c < 0 THEN -1 ELSE 1
             m == size * dbu
  <2>1. m \in Int /\ sign * m = p
    BY <1>1
  <2>2. \/ x = sign * (m \div 100)
        \/ x = sign * (m \div 100 - 1) /\ m % 100 = 0
    BY <1>3 DEF O!InDbu
  <2> HIDE DEF p, m
  <2> QED
    BY <1>1, <2>1, <2>2
<1> QED
  BY <1>2, <1>3

LEMMA BoxIsNear ==
  ASSUME NEW o, IsBox(o), NEW dbu \in Nat,
         NEW b \in U!BoxesInDbu(o, dbu) \cup O!BoxesInDbu(o, dbu)
  PROVE  Near(o, b, dbu)
<1>1. o.xMin \in Int /\ o.yMin \in Int /\ o.xMax \in Int /\ o.yMax \in Int
  BY DEF IsBox, Corners
<1>2. /\ b.layer = o.layer
      /\ b.xMin \in U!InDbu(o.xMin, dbu) \cup O!InDbu(o.xMin, dbu)
      /\ b.yMin \in U!InDbu(o.yMin, dbu) \cup O!InDbu(o.yMin, dbu)
      /\ b.xMax \in U!InDbu(o.xMax, dbu) \cup O!InDbu(o.xMax, dbu)
      /\ b.yMax \in U!InDbu(o.yMax, dbu) \cup O!InDbu(o.yMax, dbu)
  BY DEF U!BoxesInDbu, O!BoxesInDbu
<1>3. /\ 100 * b.xMin - dbu * o.xMin \in -100..100
      /\ 100 * b.yMin - dbu * o.yMin \in -100..100
      /\ 100 * b.xMax - dbu * o.xMax \in -100..100
      /\ 100 * b.yMax - dbu * o.yMax \in -100..100
  BY <1>1, <1>2, InDbuIsNear
<1> QED
  BY <1>2, <1>3 DEF Near

LEMMA NoneAdded ==
  ASSUME NEW bag, IsABag(bag), NEW dbu
  PROVE  AddedFor({}, bag, bag, dbu)
<1> DEFINE box == [o \in {} |-> 0]
<1>1. box \in [{} -> DOMAIN bag]
  OBVIOUS
<1>2. \A b : Copies(b, bag) \in Nat
  BY DEF Copies, IsABag
<1>3. \A b : {o \in {} : box[o] = b} = {}
  OBVIOUS
<1>4. Cardinality({}) = 0
  BY FS_EmptySet
<1>5. \A b : Copies(b, bag) = Copies(b, bag) + Cardinality({o \in {} : box[o] = b})
  BY <1>2, <1>3, <1>4
<1> HIDE DEF box
<1> QED
  BY <1>1, <1>5 DEF AddedFor

(* One more, and one more of its own.                                      *)
LEMMA OneAdded ==
  ASSUME NEW S, IsFiniteSet(S), NEW bag, IsABag(bag), NEW old, IsABag(old), NEW dbu,
         AddedFor(S, bag, old, dbu), NEW o, o \notin S, NEW b, Near(o, b, dbu)
  PROVE  AddedFor(S \cup {o}, bag (+) SetToBag({b}), old, dbu)
<1>1. PICK box \in [S -> DOMAIN bag] :
        /\ \A p \in S : Near(p, box[p], dbu)
        /\ \A c \in DOMAIN bag \cup DOMAIN old :
             Copies(c, bag) = Copies(c, old) + Cardinality({p \in S : box[p] = c})
  BY DEF AddedFor
<1> DEFINE A == bag (+) SetToBag({b})
           T == S \cup {o}
           more == [p \in T |-> IF p = o THEN b ELSE box[p]]
           For(c) == {p \in S : box[p] = c}
<1>2. /\ DOMAIN A = DOMAIN bag \cup {b}
      /\ \A c : Copies(c, A) = Copies(c, bag) + (IF c = b THEN 1 ELSE 0)
  BY BagAddCounts
<1>3. /\ more \in [T -> DOMAIN bag \cup {b}]
      /\ more[o] = b
      /\ \A p \in S : more[p] = box[p]
  OBVIOUS
<1>4. \A p \in T : Near(p, more[p], dbu)
  BY <1>1, <1>3
<1>5. \A c : IsFiniteSet(For(c)) /\ Cardinality(For(c)) \in Nat
  BY FS_Subset, FS_CardinalityType
<1>6. \A c : Copies(c, bag) \in Nat /\ Copies(c, old) \in Nat
  BY DEF Copies, IsABag
<1>7. \A c : Copies(c, bag) = Copies(c, old) + Cardinality(For(c))
  <2> SUFFICES ASSUME NEW c, c \notin DOMAIN bag \cup DOMAIN old
               PROVE  Copies(c, bag) = Copies(c, old) + Cardinality(For(c))
    BY <1>1
  <2>1. For(c) = {}
    OBVIOUS
  <2>2. Cardinality(For(c)) = 0
    BY <2>1, FS_EmptySet
  <2> QED
    BY <2>2 DEF Copies
<1>8. \A c : Cardinality({p \in T : more[p] = c}) = Cardinality(For(c)) + (IF c = b THEN 1 ELSE 0)
  <2> TAKE c
  <2>1. CASE c = b
    <3>1. {p \in T : more[p] = c} = For(c) \cup {o}
      BY <1>3, <2>1
    <3>2. o \notin For(c)
      OBVIOUS
    <3> HIDE DEF For, more
    <3> QED
      BY <1>5, <2>1, <3>1, <3>2, FS_AddElement
  <2>2. CASE c # b
    <3>1. {p \in T : more[p] = c} = For(c)
      BY <1>3, <2>2
    <3>2. Cardinality({p \in T : more[p] = c}) = Cardinality(For(c))
      BY <3>1
    <3> HIDE DEF For, more, T
    <3>3. Cardinality(For(c)) \in Nat
      BY <1>5
    <3> QED
      BY <2>2, <3>2, <3>3
  <2> QED
    BY <2>1, <2>2
<1> HIDE DEF A, T, more, For
<1>9. \A c \in DOMAIN A \cup DOMAIN old :
        Copies(c, A) = Copies(c, old) + Cardinality({p \in T : more[p] = c})
  BY <1>2, <1>5, <1>6, <1>7, <1>8
<1>10. more \in [T -> DOMAIN A]
  BY <1>2, <1>3
<1> QED
  BY <1>4, <1>9, <1>10 DEF AddedFor, A, T

-----------------------------------------------------------------------------
(* The command under way and the designs it works on.                      *)

Working == {"open", "function", "loop", "returned"}
Exits == Failures \cup {"none", "ok", "killed"}

BaseInv ==
  /\ DOMAIN disk = Paths /\ DOMAIN before = Paths
  /\ inv \in Invocations
  /\ pc \in Working \cup {"idle", "def_written"}
  /\ runs \in 0..MaxRuns
  /\ exit \in Exits
  /\ \A p \in Paths : /\ disk[p] = NoFile \/ IsDesign(disk[p])
                      /\ before[p] = NoFile \/ IsDesign(before[p])
  /\ IF pc \in {"idle", "open"} THEN mem = NoDesign ELSE IsDesign(mem)
  /\ pc \in Working => disk = before
  /\ pc \in {"function", "loop", "returned"} => IsDesign(read)
  /\ pc = "function" => mem = read

(* The list of a command: names of things that were there when it began.   *)
TodoInv ==
  /\ pc = "returned" => todo = {}
  /\ In("mark_component_fixed") => todo \subseteq DOMAIN mem.insts

LEMMA BaseInit == Init => BaseInv
<1> SUFFICES ASSUME Init PROVE BaseInv
  OBVIOUS
<1>1. /\ pc = "idle" /\ mem = NoDesign /\ runs = 0 /\ exit = "none"
      /\ before = disk /\ disk \in Disks
      /\ inv = CHOOSE i \in Invocations : TRUE
  BY DEF Init, ClickInit
<1>2. inv \in Invocations
  BY <1>1, InvocationsAssumption
<1>3. DOMAIN disk = Paths /\ \A p \in Paths : disk[p] = NoFile \/ IsDesign(disk[p])
  BY <1>1, DisksAssumption
<1>4. runs \in 0..MaxRuns
  BY <1>1, MaxRunsAssumption
<1> QED
  BY <1>1, <1>2, <1>3, <1>4 DEF BaseInv, Working, Exits

(* A turn that leaves a design leaves the rest alone.                      *)
LEMMA TurnStep ==
  ASSUME BaseInv, pc = "loop", NEW x, NEW e, Turn(x, e), IsDesign(e)
  PROVE  BaseInv'
BY DEF BaseInv, Turn, files, Working, read

LEMMA EndStep ==
  ASSUME BaseInv, NEW code \in Failures \cup {"killed"}, End(code)
  PROVE  BaseInv'
BY DEF BaseInv, End, files, Working, Exits

LEMMA MarkStep ==
  ASSUME BaseInv, TodoInv, MarkComponentFixed
  PROVE  BaseInv' /\ TodoInv'
<1>1. PICK i \in todo : Turn(i, IF Ol2 THEN O!MarkComponentFixed(mem, i, inv.cell)
                                       ELSE U!MarkComponentFixed(mem, i, inv.cell))
  BY DEF MarkComponentFixed
<1>2. IsDesign(mem) /\ pc = "loop" /\ i \in DOMAIN mem.insts
  BY DEF BaseInv, TodoInv, MarkComponentFixed, In
<1>3. /\ O!MarkComponentFixed(mem, i, inv.cell) \in {mem, SetStatus(mem, i, "FIRM")}
      /\ U!MarkComponentFixed(mem, i, inv.cell) \in {mem, SetStatus(mem, i, "FIRM")}
  BY DEF O!MarkComponentFixed, U!MarkComponentFixed, O!SetStatus, U!SetStatus, SetStatus
<1>4. /\ IsDesign(SetStatus(mem, i, "FIRM"))
      /\ DOMAIN SetStatus(mem, i, "FIRM").insts = DOMAIN mem.insts
  BY <1>2, SetStatusKeeps
<1>5. BaseInv'
  BY <1>1, <1>2, <1>3, <1>4, TurnStep
<1>6. /\ DOMAIN mem'.insts = DOMAIN mem.insts
      /\ todo' \subseteq todo /\ pc' = pc
  BY <1>1, <1>3, <1>4 DEF Turn
<1> QED
  BY <1>2, <1>5, <1>6 DEF TodoInv, In, MarkComponentFixed

LEMMA RemoveComponentStep ==
  ASSUME BaseInv, RemoveComponents
  PROVE  BaseInv'
<1>1. PICK i \in todo : Turn(i, IF Ol2 THEN O!RemoveComponent(mem, i, inv.match)
                                       ELSE U!RemoveComponent(mem, i, inv.match))
  BY DEF RemoveComponents
<1>2. IsDesign(mem) /\ pc = "loop"
  BY DEF BaseInv, RemoveComponents, In
<1>3. /\ O!RemoveComponent(mem, i, inv.match) \in {mem, DestroyInst(mem, i)}
      /\ U!RemoveComponent(mem, i, inv.match) \in {mem, DestroyInst(mem, i)}
  BY DEF O!RemoveComponent, U!RemoveComponent, O!DestroyInst, U!DestroyInst, DestroyInst,
         O!Without, U!Without, Without
<1>4. IsDesign(DestroyInst(mem, i))
  BY <1>2, DestroyInstKeeps
<1> QED
  BY <1>1, <1>2, <1>3, <1>4, TurnStep

LEMMA RemovePinStep ==
  ASSUME BaseInv, RemovePins
  PROVE  BaseInv'
<1>1. PICK n \in todo : Turn(n, IF Ol2 THEN O!RemovePin(mem, n, inv.match)
                                       ELSE U!RemovePin(mem, n, inv.match))
  BY DEF RemovePins
<1>2. IsDesign(mem) /\ pc = "loop"
  BY DEF BaseInv, RemovePins, In
<1>3. /\ O!RemovePin(mem, n, inv.match) \in {mem, DestroyBTerm(mem, n)}
      /\ U!RemovePin(mem, n, inv.match) \in {mem, DestroyBTerm(mem, n)}
  BY DEF O!RemovePin, U!RemovePin, O!DestroyBTerm, U!DestroyBTerm, DestroyBTerm,
         O!Without, U!Without, Without
<1>4. IsDesign(DestroyBTerm(mem, n))
  BY <1>2, DestroyBTermKeeps
<1> QED
  BY <1>1, <1>2, <1>3, <1>4, TurnStep

LEMMA ObstructionStep ==
  ASSUME BaseInv, AddObstructions
  PROVE  BaseInv'
<1>1. PICK o \in todo :
        \/ \E b : Turn(o, CreateObstruction(mem, b))
        \/ End("raised")
  BY DEF AddObstructions
<1>2. IsDesign(mem) /\ pc = "loop"
  BY DEF BaseInv, AddObstructions, In
<1>3. ASSUME NEW b, Turn(o, CreateObstruction(mem, b)) PROVE BaseInv'
  BY <1>2, <1>3, CreateObstructionKeeps, TurnStep
<1>4. CASE End("raised")
  BY <1>4, EndStep DEF Failures
<1> QED
  BY <1>1, <1>3, <1>4

-----------------------------------------------------------------------------
(* What each loop has done so far.                                         *)

Running == {"loop", "returned"}

MergeInv ==
  pc \in Running /\ inv.op = "merge_components" =>
    LET donor == before[inv.donor]
    IN  /\ todo \subseteq DOMAIN donor.insts
        /\ DOMAIN mem.insts = DOMAIN read.insts \cup (DOMAIN donor.insts \ todo)
        /\ \A i \in DOMAIN read.insts : mem.insts[i] = read.insts[i]
        /\ \A i \in DOMAIN donor.insts \ (DOMAIN read.insts \cup todo) :
             mem.insts[i].master = donor.insts[i].master

(* An instance is cut off once its net's turn has come, and a net is gone  *)
(* then, unless it is spared.                                              *)
NetsInv ==
  pc \in Running /\ inv.op = "remove_nets" =>
    /\ mem.bterms = read.bterms
    /\ DOMAIN mem.insts = DOMAIN read.insts
    /\ \A i \in DOMAIN read.insts :
         LET k == read.insts[i].net
         IN  IF k = NoNet \/ inv.empty_only \/ k[1] \notin inv.match \/ k \in todo
             THEN mem.insts[i] = read.insts[i]
             ELSE mem.insts[i].net = NoNet
    /\ DOMAIN mem.nets \subseteq DOMAIN read.nets
    /\ \A k \in DOMAIN read.nets :
         k \in DOMAIN mem.nets <=>
           \/ k \in todo
           \/ k[1] \notin inv.match
           \/ BTermsOf(read, k) # {}
           \/ inv.empty_only /\ ITermsOf(read, k) # {}
    /\ todo \subseteq DOMAIN read.nets

(* An instance whose turn has not come is where it was; one whose turn has *)
(* come is under a name whose turn will not come any more.                 *)
New(i) == U!Replaced(i, inv.original, inv.new)

RenameInv ==
  pc \in Running /\ inv.op = "replace_instance_prefixes" =>
    /\ Cardinality(DOMAIN mem.insts) = Cardinality(DOMAIN read.insts)
    /\ todo \subseteq DOMAIN mem.insts
    /\ \A i \in todo : mem.insts[i] = read.insts[i]
    /\ \A i \in DOMAIN read.insts \ todo :
         IF Head(i) # inv.original
         THEN i \in DOMAIN mem.insts /\ mem.insts[i] = read.insts[i]
         ELSE \E j \in ({i, New(i)} \cap DOMAIN mem.insts) \ todo :
                mem.insts[j] = read.insts[i]

\* The boxes that are in memory: those that were read, and one for each of the
\* obstructions that the loop has passed.
ObsInv ==
  pc \in Running /\ inv.op = "add_obstructions" =>
    /\ todo \subseteq inv.obstructions
    /\ \A o \in inv.obstructions : IsBox(o)
    /\ mem.dbu = read.dbu
    /\ AddedFor(inv.obstructions \ todo, mem.obs, read.obs, read.dbu)

MainInv == BaseInv /\ TodoInv /\ MergeInv /\ NetsInv /\ RenameInv /\ ObsInv

(* A turn of one command is none of another's.                             *)
LEMMA OtherLoops ==
  ASSUME pc = "loop", inv' = inv
  PROVE  /\ inv.op # "merge_components" => MergeInv'
         /\ inv.op # "remove_nets" => NetsInv'
         /\ inv.op # "replace_instance_prefixes" => RenameInv'
         /\ inv.op # "add_obstructions" => ObsInv'
BY DEF MergeInv, NetsInv, RenameInv, ObsInv

LEMMA MergeStep ==
  ASSUME MainInv, MergeComponents
  PROVE  MainInv'
<1> DEFINE donor == before[inv.donor]
<1>1. /\ pc = "loop" /\ inv.op = "merge_components" /\ disk = before
  BY DEF MergeComponents, In, MainInv, BaseInv, Working
<1>2. PICK i \in todo : Turn(i, U!MergeComponent(mem, donor, i))
  BY <1>1 DEF MergeComponents
<1> DEFINE e == CreateInst(mem, donor.insts[i].master, i)
<1>3. /\ mem' = e /\ todo' = todo \ {i} /\ pc' = pc /\ inv' = inv
      /\ before' = before /\ Turn(i, e)
  BY <1>2, SameMergeComponent DEF Turn, files
<1>4. /\ IsDesign(mem) /\ todo \subseteq DOMAIN donor.insts
      /\ DOMAIN mem.insts = DOMAIN read.insts \cup (DOMAIN donor.insts \ todo)
      /\ \A j \in DOMAIN read.insts : mem.insts[j] = read.insts[j]
      /\ \A j \in DOMAIN donor.insts \ (DOMAIN read.insts \cup todo) :
           mem.insts[j].master = donor.insts[j].master
  BY <1>1 DEF MainInv, BaseInv, MergeInv, Running
<1>5. /\ IsDesign(e)
      /\ DOMAIN e.insts = DOMAIN mem.insts \cup {i}
      /\ \A j \in DOMAIN mem.insts : e.insts[j] = mem.insts[j]
      /\ i \notin DOMAIN mem.insts => e.insts[i].master = donor.insts[i].master
  BY <1>4, CreateInstKeeps
<1> HIDE DEF e
<1>6. BaseInv'
  BY <1>1, <1>3, <1>5, TurnStep DEF MainInv
<1>7. read' = read
  BY <1>3 DEF read
<1>8. /\ DOMAIN e.insts = DOMAIN read.insts \cup (DOMAIN donor.insts \ todo')
      /\ \A j \in DOMAIN read.insts : e.insts[j] = read.insts[j]
  BY <1>3, <1>4, <1>5
<1>9. \A j \in DOMAIN donor.insts \ (DOMAIN read.insts \cup todo') :
        e.insts[j].master = donor.insts[j].master
  BY <1>3, <1>4, <1>5
<1>10. MergeInv'
  BY <1>1, <1>3, <1>4, <1>7, <1>8, <1>9 DEF MergeInv
<1> QED
  BY <1>1, <1>3, <1>6, <1>10, OtherLoops DEF MainInv, TodoInv, In

LEMMA NetStep ==
  ASSUME MainInv, RemoveNets
  PROVE  MainInv'
<1> DEFINE eo == inv.empty_only
           match == inv.match
<1>1. /\ pc = "loop" /\ inv.op = "remove_nets" /\ eo \in BOOLEAN
  BY InvocationsAssumption DEF RemoveNets, In, MainInv, BaseInv
<1>2. PICK k \in todo : Turn(k, NetRemoved(mem, k, match, eo))
  BY <1>1, SameRemoveNet DEF RemoveNets
<1> DEFINE e == NetRemoved(mem, k, match, eo)
<1>3. /\ mem' = e /\ todo' = todo \ {k} /\ pc' = pc /\ inv' = inv
      /\ before' = before /\ Turn(k, e)
  BY <1>2 DEF Turn, files
<1>4. /\ IsDesign(mem) /\ IsDesign(read) /\ mem.bterms = read.bterms
      /\ DOMAIN mem.insts = DOMAIN read.insts
      /\ DOMAIN mem.nets \subseteq DOMAIN read.nets
      /\ todo \subseteq DOMAIN mem.nets
      /\ read' = read
  BY <1>1, <1>3 DEF MainInv, BaseInv, NetsInv, Running, read
<1>5. \A i \in DOMAIN read.insts :
        IF \/ read.insts[i].net = NoNet \/ eo
           \/ read.insts[i].net[1] \notin match \/ read.insts[i].net \in todo
        THEN mem.insts[i] = read.insts[i]
        ELSE mem.insts[i].net = NoNet
  BY <1>1 DEF MainInv, NetsInv, Running
<1>6. k \in DOMAIN mem.nets /\ k # NoNet /\ k \in DOMAIN read.nets
  BY <1>4 DEF IsDesign
<1>7. BTermsOf(mem, k) = BTermsOf(read, k)
  BY <1>4 DEF BTermsOf
<1>8. ITermsOf(mem, k) = ITermsOf(read, k)
  BY <1>4, <1>5, <1>6 DEF ITermsOf
<1>9. \A q \in DOMAIN read.nets :
        q \in DOMAIN mem.nets <=>
          \/ q \in todo
          \/ q[1] \notin match
          \/ BTermsOf(read, q) # {}
          \/ eo /\ ITermsOf(read, q) # {}
  BY <1>1 DEF MainInv, NetsInv, Running
<1>10. CASE k[1] \notin match \/ (eo /\ ITermsOf(mem, k) # {})
  <2>1. e = mem
    BY <1>10 DEF NetRemoved
  <2> HIDE DEF e
  <2>2. BaseInv'
    BY <1>1, <1>3, <1>4, <2>1, TurnStep DEF MainInv
  <2>3. \A i \in DOMAIN read.insts :
          IF \/ read.insts[i].net = NoNet \/ eo
             \/ read.insts[i].net[1] \notin match \/ read.insts[i].net \in todo'
          THEN e.insts[i] = read.insts[i]
          ELSE e.insts[i].net = NoNet
    BY <1>3, <1>5, <1>8, <1>10, <2>1 DEF ITermsOf
  <2>4. \A q \in DOMAIN read.nets :
          q \in DOMAIN e.nets <=>
            \/ q \in todo'
            \/ q[1] \notin match
            \/ BTermsOf(read, q) # {}
            \/ eo /\ ITermsOf(read, q) # {}
    BY <1>3, <1>8, <1>9, <1>10, <2>1
  <2>5. NetsInv'
    BY <1>1, <1>3, <1>4, <2>1, <2>3, <2>4 DEF NetsInv
  <2> QED
    BY <1>1, <1>3, <2>2, <2>5, OtherLoops DEF MainInv, TodoInv, In
<1>11. CASE k[1] \in match /\ ~(eo /\ ITermsOf(mem, k) # {})
  <2>1. /\ IsDesign(e)
        /\ DOMAIN e.insts = DOMAIN mem.insts
        /\ \A i \in ITermsOf(mem, k) : e.insts[i].net = NoNet
        /\ \A i \in DOMAIN mem.insts \ ITermsOf(mem, k) : e.insts[i] = mem.insts[i]
        /\ e.bterms = mem.bterms
        /\ DOMAIN e.nets \subseteq DOMAIN mem.nets
        /\ \A q \in DOMAIN mem.nets :
             q \in DOMAIN e.nets <=> q # k \/ BTermsOf(mem, k) # {}
    <3>1. CASE BTermsOf(mem, k) # {}
      <4>1. e = DisconnectNet(mem, k)
        BY <1>11, <3>1 DEF NetRemoved
      <4> HIDE DEF e
      <4> QED
        BY <1>4, <3>1, <4>1, DisconnectNetKeeps
    <3>2. CASE BTermsOf(mem, k) = {}
      <4>1. e = DestroyNet(mem, k)
        BY <1>11, <3>2 DEF NetRemoved
      <4> HIDE DEF e
      <4> QED
        BY <1>4, <1>6, <3>2, <4>1, DestroyNetKeeps
    <3> QED
      BY <3>1, <3>2
  <2> HIDE DEF e
  <2>2. BaseInv'
    BY <1>1, <1>3, <2>1, TurnStep DEF MainInv
  <2>3. ASSUME NEW i \in DOMAIN read.insts
        PROVE  IF \/ read.insts[i].net = NoNet \/ eo
                  \/ read.insts[i].net[1] \notin match \/ read.insts[i].net \in todo'
               THEN e.insts[i] = read.insts[i]
               ELSE e.insts[i].net = NoNet
    <3>1. CASE i \in ITermsOf(mem, k)
      <4>1. e.insts[i].net = NoNet
        BY <2>1, <3>1
      <4>2. read.insts[i].net = k
        BY <1>8, <3>1 DEF ITermsOf
      <4> QED
        BY <1>3, <1>6, <1>11, <3>1, <4>1, <4>2
    <3>2. CASE i \notin ITermsOf(mem, k)
      <4>1. e.insts[i] = mem.insts[i]
        BY <1>4, <2>1, <3>2
      <4>2. read.insts[i].net # k
        BY <1>8, <3>2 DEF ITermsOf
      <4> QED
        BY <1>3, <1>5, <4>1, <4>2
    <3> QED
      BY <3>1, <3>2
  <2>4. \A q \in DOMAIN read.nets :
          q \in DOMAIN e.nets <=>
            \/ q \in todo'
            \/ q[1] \notin match
            \/ BTermsOf(read, q) # {}
            \/ eo /\ ITermsOf(read, q) # {}
    BY <1>3, <1>6, <1>7, <1>8, <1>9, <1>11, <2>1
  <2>5. NetsInv'
    BY <1>1, <1>3, <1>4, <2>1, <2>3, <2>4 DEF NetsInv
  <2> QED
    BY <1>1, <1>3, <2>2, <2>5, OtherLoops DEF MainInv, TodoInv, In
<1> QED
  BY <1>10, <1>11

LEMMA RenameStep ==
  ASSUME MainInv, ReplaceInstancePrefixes
  PROVE  MainInv'
<1>1. pc = "loop" /\ inv.op = "replace_instance_prefixes"
  BY DEF ReplaceInstancePrefixes, In
<1>2. PICK i \in todo : Turn(i, Renamed(mem, i, inv.original, inv.new))
  BY SameReplacePrefix DEF ReplaceInstancePrefixes
<1> DEFINE e == Renamed(mem, i, inv.original, inv.new)
<1>3. /\ mem' = e /\ todo' = todo \ {i} /\ pc' = pc /\ inv' = inv
      /\ before' = before /\ Turn(i, e)
  BY <1>2 DEF Turn, files
<1>4. /\ IsDesign(mem)
      /\ Cardinality(DOMAIN mem.insts) = Cardinality(DOMAIN read.insts)
      /\ todo \subseteq DOMAIN mem.insts
      /\ \A o \in todo : mem.insts[o] = read.insts[o]
  BY <1>1 DEF MainInv, BaseInv, RenameInv, Running
<1>5. \A o \in DOMAIN read.insts \ todo :
        IF Head(o) # inv.original
        THEN o \in DOMAIN mem.insts /\ mem.insts[o] = read.insts[o]
        ELSE \E j \in ({o, New(o)} \cap DOMAIN mem.insts) \ todo :
               mem.insts[j] = read.insts[o]
  BY <1>1 DEF MainInv, RenameInv, Running
<1>6. /\ read' = read
      /\ \A o : New(o)' = New(o)
  BY <1>3 DEF read, New, U!Replaced
<1>7. /\ IsDesign(e)
      /\ Cardinality(DOMAIN e.insts) = Cardinality(DOMAIN mem.insts)
      /\ \A o \in DOMAIN mem.insts \ {i} : o \in DOMAIN e.insts /\ e.insts[o] = mem.insts[o]
      /\ IF Head(i) # inv.original
         THEN i \in DOMAIN e.insts /\ e.insts[i] = mem.insts[i]
         ELSE \E j \in ({i, New(i)} \cap DOMAIN e.insts) \ todo' :
                e.insts[j] = mem.insts[i]
  <2>1. CASE Head(i) # inv.original
    <3>1. e = mem
      BY <2>1 DEF Renamed
    <3> QED
      BY <1>4, <2>1, <3>1
  <2>2. CASE Head(i) = inv.original /\ New(i) \in DOMAIN mem.insts
    <3>1. e = mem
      BY <2>2 DEF Renamed, RenameInst, New
    <3> QED
      BY <1>3, <1>4, <2>2, <3>1
  <2>3. CASE Head(i) = inv.original /\ New(i) \notin DOMAIN mem.insts
    <3>1. e = RenameInst(mem, i, New(i))
      BY <2>3 DEF Renamed, New
    <3> HIDE DEF e
    <3>2. /\ IsDesign(e)
          /\ DOMAIN e.insts = (DOMAIN mem.insts \ {i}) \cup {New(i)}
          /\ \A o \in DOMAIN mem.insts \ {i} : e.insts[o] = mem.insts[o]
          /\ e.insts[New(i)] = mem.insts[i]
          /\ Cardinality(DOMAIN e.insts) = Cardinality(DOMAIN mem.insts)
      BY <1>4, <2>3, <3>1, RenameInstKeeps
    <3>3. New(i) \notin todo'
      BY <1>3, <1>4, <2>3
    <3> QED
      BY <2>3, <3>2, <3>3
  <2> QED
    BY <2>1, <2>2, <2>3
<1> HIDE DEF e
<1>8. BaseInv'
  BY <1>1, <1>3, <1>7, TurnStep DEF MainInv
<1>9. /\ todo' \subseteq DOMAIN e.insts
      /\ \A o \in todo' : e.insts[o] = read.insts[o]
  BY <1>3, <1>4, <1>7
<1>10. ASSUME NEW o \in DOMAIN read.insts \ todo'
       PROVE  IF Head(o) # inv.original
              THEN o \in DOMAIN e.insts /\ e.insts[o] = read.insts[o]
              ELSE \E j \in ({o, New(o)} \cap DOMAIN e.insts) \ todo' :
                     e.insts[j] = read.insts[o]
  <2>1. CASE o = i
    BY <1>4, <1>7, <2>1
  <2>2. CASE o # i
    <3>1. o \notin todo
      BY <1>3, <2>2
    <3>2. \A j \in DOMAIN mem.insts \ todo :
            j \in DOMAIN e.insts /\ e.insts[j] = mem.insts[j] /\ j \notin todo'
      BY <1>3, <1>7
    <3> QED
      BY <1>5, <3>1, <3>2
  <2> QED
    BY <2>1, <2>2
<1>11. RenameInv'
  BY <1>1, <1>3, <1>4, <1>6, <1>7, <1>9, <1>10 DEF RenameInv
<1> QED
  BY <1>1, <1>3, <1>8, <1>11, OtherLoops DEF MainInv, TodoInv, In

(* A turn adds one box for the obstruction whose turn it is, or the run is  *)
(* over.                                                                   *)
LEMMA ObstructionsStep ==
  ASSUME MainInv, AddObstructions
  PROVE  MainInv'
<1>1. pc = "loop" /\ inv.op = "add_obstructions" /\ IsDesign(mem) /\ IsDesign(read)
  BY DEF AddObstructions, In, MainInv, BaseInv
<1>2. BaseInv'
  BY ObstructionStep DEF MainInv
<1>3. PICK o \in todo :
        \/ \E b \in U!BoxesInDbu(o, mem.dbu) \cup O!BoxesInDbu(o, mem.dbu) :
             Turn(o, CreateObstruction(mem, b))
        \/ End("raised")
  BY DEF AddObstructions
<1>4. CASE End("raised")
  BY <1>2, <1>4 DEF End, MainInv, TodoInv, In, MergeInv, NetsInv, RenameInv, ObsInv, Running
<1>5. ASSUME NEW b \in U!BoxesInDbu(o, mem.dbu) \cup O!BoxesInDbu(o, mem.dbu),
             Turn(o, CreateObstruction(mem, b))
      PROVE  MainInv'
  <2>1. /\ todo \subseteq inv.obstructions
        /\ \A q \in inv.obstructions : IsBox(q)
        /\ mem.dbu = read.dbu
        /\ AddedFor(inv.obstructions \ todo, mem.obs, read.obs, read.dbu)
    BY <1>1 DEF MainInv, ObsInv, Running
  <2>2. /\ mem' = CreateObstruction(mem, b) /\ todo' = todo \ {o} /\ pc' = pc
        /\ inv' = inv /\ read' = read
    BY <1>5 DEF Turn, files, read
  <2>3. mem'.obs = mem.obs (+) SetToBag({b}) /\ mem'.dbu = mem.dbu
    BY <1>1, <2>2, CreateObstructionKeeps
  <2>4. Near(o, b, read.dbu)
    BY <1>1, <1>5, <2>1, BoxIsNear DEF IsDesign
  <2>5. IsABag(mem.obs) /\ IsABag(read.obs)
    BY <1>1 DEF IsDesign
  <2>6. IsFiniteSet(inv.obstructions \ todo)
    <3>1. IsFiniteSet(inv.obstructions)
      BY <1>1, InvocationsAssumption DEF MainInv, BaseInv
    <3> QED
      BY <3>1, FS_Difference
  <2>7. inv.obstructions \ todo' = (inv.obstructions \ todo) \cup {o}
    BY <2>1, <2>2
  <2>8. AddedFor((inv.obstructions \ todo) \cup {o}, mem'.obs, read.obs, read.dbu)
    BY <2>1, <2>3, <2>4, <2>5, <2>6, OneAdded
  <2>9. ObsInv'
    BY <2>1, <2>2, <2>3, <2>7, <2>8 DEF ObsInv
  <2> QED
    BY <1>1, <1>2, <2>2, <2>9, OtherLoops DEF MainInv, TodoInv, In
<1> QED
  BY <1>3, <1>4, <1>5

-----------------------------------------------------------------------------
(* The rest of a run.                                                      *)

(* Nothing has been done when the list is made.                            *)
LEMMA CallStep ==
  ASSUME MainInv, Call
  PROVE  MainInv'
<1>1. pc = "function" /\ disk = before /\ mem = read /\ IsDesign(mem) /\ inv \in Invocations
  BY DEF Call, MainInv, BaseInv, Working
<1>2. CASE \E code \in Failures : End(code)
  <2>1. BaseInv'
    BY <1>2, EndStep DEF MainInv
  <2>2. pc' = "idle"
    BY <1>2 DEF End
  <2> QED
    BY <2>1, <2>2 DEF MainInv, TodoInv, In, MergeInv, NetsInv, RenameInv, ObsInv, Running
<1>3. CASE /\ pc' = "loop" /\ todo' = Objects
           /\ UNCHANGED <<mem, inv, exit, files>>
  <2>1. BaseInv'
    BY <1>1, <1>3 DEF MainInv, BaseInv, files, Working, read
  <2>2. read' = read
    BY <1>3 DEF files, read
  <2>3. TodoInv'
    BY <1>3 DEF TodoInv, In, Objects
  <2>4. MergeInv'
    <3> SUFFICES ASSUME inv.op = "merge_components" PROVE MergeInv'
      BY <1>3 DEF MergeInv
    <3>1. todo' = DOMAIN before[inv.donor].insts
      BY <1>1, <1>3 DEF Objects
    <3> QED
      BY <1>1, <1>3, <2>2, <3>1 DEF MergeInv, files
  <2>5. NetsInv'
    <3> SUFFICES ASSUME inv.op = "remove_nets" PROVE NetsInv'
      BY <1>3 DEF NetsInv
    <3>1. todo' = DOMAIN mem.nets
      BY <1>3 DEF Objects
    <3>2. \A i \in DOMAIN mem.insts : mem.insts[i].net \in DOMAIN mem.nets \cup {NoNet}
      BY <1>1 DEF IsDesign, IsInst
    <3> QED
      BY <1>1, <1>3, <2>2, <3>1, <3>2 DEF NetsInv
  <2>6. RenameInv'
    <3> SUFFICES ASSUME inv.op = "replace_instance_prefixes" PROVE RenameInv'
      BY <1>3 DEF RenameInv
    <3>1. todo' = DOMAIN mem.insts
      BY <1>3 DEF Objects
    <3> QED
      BY <1>1, <1>3, <2>2, <3>1 DEF RenameInv
  <2>7. ObsInv'
    <3> SUFFICES ASSUME inv.op = "add_obstructions" PROVE ObsInv'
      BY <1>3 DEF ObsInv
    <3>1. todo' = inv.obstructions
      BY <1>3 DEF Objects
    <3>2. \A o \in inv.obstructions : IsBox(o)
      <4>1. ~Raises
        BY <1>3 DEF Call, End
      <4>2. \A o \in inv.obstructions : o.formatted
        BY <4>1 DEF Raises, O!AllFormatted, U!AllFormatted
      <4> QED
        BY <1>1, <4>2, InvocationsAssumption
    <3>3. AddedFor({}, mem.obs, mem.obs, mem.dbu)
      BY <1>1, NoneAdded DEF IsDesign
    <3> QED
      BY <1>1, <1>3, <2>2, <3>1, <3>2, <3>3 DEF ObsInv
  <2> QED
    BY <2>1, <2>3, <2>4, <2>5, <2>6, <2>7 DEF MainInv
<1> QED
  BY <1>2, <1>3 DEF Call, Failures

LEMMA CommandStep ==
  ASSUME MainInv, Command
  PROVE  MainInv'
<1>1. CASE Call
  BY <1>1, CallStep
<1>2. CASE Returns
  <2>1. BaseInv'
    BY <1>2 DEF Returns, MainInv, BaseInv, files, Working, read
  <2>2. /\ pc = "loop" /\ pc' = "returned" /\ todo = {} /\ todo' = {}
        /\ mem' = mem /\ inv' = inv /\ before' = before /\ read' = read
        /\ \A i : New(i)' = New(i)
    BY <1>2 DEF Returns, files, read, New, U!Replaced
  <2>3. TodoInv'
    BY <2>2 DEF TodoInv, In
  <2>4. MergeInv'
    BY <2>2 DEF MainInv, MergeInv, Running
  <2>5. NetsInv'
    BY <2>2 DEF MainInv, NetsInv, Running
  <2>6. RenameInv'
    BY <2>2 DEF MainInv, RenameInv, Running
  <2>7. ObsInv'
    BY <2>2 DEF MainInv, ObsInv, Running
  <2> QED
    BY <2>1, <2>3, <2>4, <2>5, <2>6, <2>7 DEF MainInv
<1>3. CASE MarkComponentFixed
  <2>1. BaseInv' /\ TodoInv'
    BY <1>3, MarkStep DEF MainInv
  <2>2. pc = "loop" /\ inv' = inv /\ inv.op = "mark_component_fixed"
    BY <1>3 DEF MarkComponentFixed, In, Turn
  <2> QED
    BY <2>1, <2>2, OtherLoops DEF MainInv
<1>4. CASE MergeComponents
  BY <1>4, MergeStep
<1>5. CASE RemoveComponents
  <2>1. BaseInv'
    BY <1>5, RemoveComponentStep DEF MainInv
  <2>2. /\ pc = "loop" /\ pc' = pc /\ inv' = inv /\ inv.op = "remove_components"
    BY <1>5 DEF RemoveComponents, In, Turn
  <2> QED
    BY <2>1, <2>2, OtherLoops DEF MainInv, TodoInv, In
<1>6. CASE RemoveNets
  BY <1>6, NetStep
<1>7. CASE RemovePins
  <2>1. BaseInv'
    BY <1>7, RemovePinStep DEF MainInv
  <2>2. /\ pc = "loop" /\ pc' = pc /\ inv' = inv /\ inv.op = "remove_pins"
    BY <1>7 DEF RemovePins, In, Turn
  <2> QED
    BY <2>1, <2>2, OtherLoops DEF MainInv, TodoInv, In
<1>8. CASE ReplaceInstancePrefixes
  BY <1>8, RenameStep
<1>9. CASE AddObstructions
  BY <1>9, ObstructionsStep
<1> QED
  BY <1>1, <1>2, <1>3, <1>4, <1>5, <1>6, <1>7, <1>8, <1>9 DEF Command

(* Outside the loop nothing is claimed of it.                              *)
LEMMA OffLoop ==
  ASSUME BaseInv', pc' \notin Running
  PROVE  MainInv'
BY DEF MainInv, TodoInv, In, MergeInv, NetsInv, RenameInv, ObsInv, Running

LEMMA MainStep == MainInv /\ [Next]_vars => MainInv'
<1> SUFFICES ASSUME MainInv, [Next]_vars PROVE MainInv'
  OBVIOUS
<1>0. BaseInv
  BY DEF MainInv
<1>1. ASSUME NEW i \in Invocations, Launch(i) PROVE MainInv'
  <2>1. BaseInv' /\ pc' = "open"
    BY <1>0, <1>1, MaxRunsAssumption DEF Launch, BaseInv, Working, Exits, Failures, Paths
  <2> QED
    BY <2>1, OffLoop DEF Running
<1>2. CASE OpenDb
  <2>1. CASE End("raised")
    BY <1>0, <2>1, EndStep, OffLoop DEF End, Running, Failures
  <2>2. CASE ~End("raised")
    <3>1. /\ disk[inv.input] # NoFile /\ inv.input \in Paths
          /\ mem' = disk[inv.input] /\ pc = "open" /\ pc' = "function"
          /\ UNCHANGED <<inv, exit, files>>
      BY <1>2, <2>2 DEF OpenDb, Paths
    <3>2. BaseInv'
      BY <1>0, <3>1 DEF BaseInv, Working, files, read
    <3> QED
      BY <3>1, <3>2, OffLoop DEF Running
  <2> QED
    BY <2>1, <2>2
<1>3. CASE RefuseDef
  BY <1>0, <1>3, EndStep, OffLoop DEF RefuseDef, End, Running, Failures
<1>4. CASE WriteDef
  <2>1. pc' = "def_written" /\ inv.outputDef \in Paths /\ pc = "returned"
    BY <1>0, <1>4, InvocationsAssumption DEF WriteDef, BaseInv, Paths
  <2>2. BaseInv'
    BY <1>0, <1>4, <2>1 DEF WriteDef, BaseInv, Working, files, read
  <2> QED
    BY <2>1, <2>2, OffLoop DEF Running
<1>5. CASE WriteDb
  <2>1. pc' = "idle" /\ inv.output \in Paths /\ pc = "def_written"
    BY <1>0, <1>5, InvocationsAssumption DEF WriteDb, BaseInv, Paths
  <2>2. BaseInv'
    BY <1>0, <1>5, <2>1 DEF WriteDb, BaseInv, Working, Exits, files, read
  <2> QED
    BY <2>1, <2>2, OffLoop DEF Running
<1>6. CASE Kill
  BY <1>0, <1>6, EndStep, OffLoop DEF Kill, End, Running
<1>7. CASE Command
  BY <1>7, CommandStep
<1>8. CASE UNCHANGED vars
  <2>1. BaseInv'
    BY <1>0, <1>8 DEF vars, clickVars, BaseInv, read
  <2>2. /\ mem' = mem /\ inv' = inv /\ before' = before /\ read' = read
        /\ pc' = pc /\ todo' = todo
        /\ \A i : New(i)' = New(i)
    BY <1>8 DEF vars, clickVars, read, New, U!Replaced
  <2>3. TodoInv' /\ MergeInv'
    BY <2>2 DEF MainInv, TodoInv, In, MergeInv
  <2>4. NetsInv'
    BY <2>2 DEF MainInv, NetsInv
  <2>5. RenameInv'
    BY <2>2 DEF MainInv, RenameInv
  <2>6. ObsInv'
    BY <2>2 DEF MainInv, ObsInv
  <2> QED
    BY <2>1, <2>3, <2>4, <2>5, <2>6 DEF MainInv
<1> QED
  BY <1>1, <1>2, <1>3, <1>4, <1>5, <1>6, <1>7, <1>8 DEF Next

LEMMA MainAlways == Spec => []MainInv
<1>1. Init => MainInv
  BY BaseInit DEF MainInv, Init, ClickInit, TodoInv, In, MergeInv, NetsInv, RenameInv, ObsInv,
               Running
<1> QED
  BY <1>1, MainStep, PTL DEF Spec

-----------------------------------------------------------------------------
(* The properties.                                                         *)

(* Every command leaves a design that hangs together, at every turn and in *)
(* every file, in either script and in any order of its loop.              *)
THEOREM TypeCorrect == Spec => []TypeOK
<1>1. MainInv => TypeOK
  BY DEF MainInv, BaseInv, TypeOK, ClickTypeOK, Working, Exits
<1> QED
  BY <1>1, MainAlways, PTL

(* remove_nets spares the pins of the chip and all it was not told to      *)
(* match.                                                                  *)
THEOREM NetRemovalSpares == Spec => []RemoveNetsSpares
<1>1. MainInv => RemoveNetsSpares
  BY DEF MainInv, TodoInv, NetsInv, Running, RemoveNetsSpares, Ended
<1> QED
  BY <1>1, MainAlways, PTL

(* merge_components adds what the recipient lacks and overwrites nothing.  *)
THEOREM MergeOverwritesNothing == Spec => []MergeKeepsExisting
<1>1. MainInv => MergeKeepsExisting
  BY DEF MainInv, TodoInv, MergeInv, Running, MergeKeepsExisting, Ended
<1> QED
  BY <1>1, MainAlways, PTL

(* replace_instance_prefixes loses no instance, whatever names collide.    *)
THEOREM RenamesLoseNothing == Spec => []RenameLosesNothing
<1>1. MainInv => RenameLosesNothing
  BY DEF MainInv, TodoInv, RenameInv, Running, RenameLosesNothing, Ended, New
<1> QED
  BY <1>1, MainAlways, PTL

(* add_obstructions adds one box for each that was asked for, at most one  *)
(* unit from its place, and no other, for any units and whichever way a    *)
(* product rounds.                                                         *)
THEOREM ObstructionsAlwaysAsAsked == Spec => []ObstructionsAsAsked
<1>1. MainInv => ObstructionsAsAsked
  <2> SUFFICES ASSUME MainInv, Ended("add_obstructions")
               PROVE  AddedFor(inv.obstructions, mem.obs, read.obs, read.dbu)
    BY DEF ObstructionsAsAsked
  <2>1. todo = {} /\ inv.obstructions \ todo = inv.obstructions
    BY DEF MainInv, TodoInv, Ended
  <2>2. AddedFor(inv.obstructions \ todo, mem.obs, read.obs, read.dbu)
    BY DEF MainInv, ObsInv, Running, Ended
  <2> QED
    BY <2>1, <2>2
<1> QED
  BY <1>1, MainAlways, PTL
=============================================================================
