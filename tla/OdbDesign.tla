------------------------------ MODULE OdbDesign ------------------------------
(***************************************************************************)
(* A chip in an OpenDB database, as far as the layout scripts use it, and  *)
(* the calls they make on it.  OpenDB is not part of the repository: each  *)
(* operator says what the scripts rely on.                                 *)
(*                                                                         *)
(*   insts    name -> [master, status, net]   one terminal per instance    *)
(*   nets     <<name, i>> -> [special, sig]   a name may occur twice       *)
(*   bterms   name -> [net, sig, boxes]       the pins of the chip         *)
(*   obs      bag of obstructions                                          *)
(*                                                                         *)
(* boxes is a bag: the same rectangle may be on a pin more than once.      *)
(***************************************************************************)
EXTENDS Integers, FiniteSets, Bags

CONSTANT NoNet    \* the terminal of an instance is not connected

(* f with the value v at k, which need not be in its domain.               *)
Put(f, k, v) == [x \in DOMAIN f \cup {k} |-> IF x = k THEN v ELSE f[x]]

Without(f, k) == [x \in DOMAIN f \ {k} |-> f[x]]

Corners(b) == {b.xMin, b.yMin, b.xMax, b.yMax}

(* What every design is made of, and that its pins and terminals refer to  *)
(* nets it has.                                                            *)
IsBox(b) == Corners(b) \subseteq Int

IsBTerm(d, t) ==
  /\ t = [net |-> t.net, sig |-> t.sig, boxes |-> t.boxes]
  /\ t.net \in DOMAIN d.nets
  /\ IsABag(t.boxes)
  /\ \A b \in DOMAIN t.boxes : IsBox(b)

IsInst(d, i) ==
  /\ i = [master |-> i.master, status |-> i.status, net |-> i.net]
  /\ i.status \in {"NONE", "PLACED", "FIRM"}
  /\ i.net \in DOMAIN d.nets \cup {NoNet}

IsDesign(d) ==
  /\ d = [grid |-> d.grid, dbu |-> d.dbu, layers |-> d.layers, die |-> d.die,
          insts |-> d.insts, nets |-> d.nets, bterms |-> d.bterms, obs |-> d.obs]
  /\ d.grid \in Nat /\ d.dbu \in Nat
  /\ IsABag(d.obs)
  /\ IsFiniteSet(DOMAIN d.nets) /\ NoNet \notin DOMAIN d.nets
  /\ IsFiniteSet(DOMAIN d.insts)
  /\ d.nets = [k \in DOMAIN d.nets |-> d.nets[k]]
  /\ d.bterms = [n \in DOMAIN d.bterms |-> d.bterms[n]]
  /\ d.insts = [i \in DOMAIN d.insts |-> d.insts[i]]
  /\ \A n \in DOMAIN d.bterms : IsBTerm(d, d.bterms[n])
  /\ \A i \in DOMAIN d.insts : IsInst(d, d.insts[i])

-----------------------------------------------------------------------------
(* Nets and pins.                                                          *)

(* The net that dbNet.create makes with the check for an existing net      *)
(* skipped: one more net of that name.                                     *)
NewNet(d, name) ==
  LET taken == DOMAIN d.nets \cup {NoNet}
  IN  <<name, CHOOSE i \in 1..(Cardinality(taken) + 1) : <<name, i>> \notin taken>>

CreateNet(d, key) ==
  [d EXCEPT !.nets = Put(@, key, [special |-> FALSE, sig |-> "SIGNAL"])]

(* dbBTerm.create returns nothing, and changes nothing, when the chip has  *)
(* a pin of that name.                                                     *)
CreateBTerm(d, key, name) ==
  IF name \in DOMAIN d.bterms
  THEN d
  ELSE [d EXCEPT !.bterms = Put(@, name, [net |-> key, sig |-> "SIGNAL",
                                          boxes |-> EmptyBag])]

(* dbBPin.create and dbBox.create.                                         *)
AddBox(d, name, b) == [d EXCEPT !.bterms[name].boxes = @ (+) SetToBag({b})]

(* setSigType on the pin and its net, setSpecial on the net.               *)
SetSpecial(d, name, sig) ==
  [d EXCEPT !.bterms[name].sig = sig,
            !.nets[d.bterms[name].net] = [special |-> TRUE, sig |-> sig]]

BTermsOf(d, key) == {n \in DOMAIN d.bterms : d.bterms[n].net = key}
ITermsOf(d, key) == {i \in DOMAIN d.insts : d.insts[i].net = key}

DisconnectNet(d, key) ==
  [d EXCEPT !.insts = [i \in DOMAIN @ |-> IF i \in ITermsOf(d, key)
                                          THEN [@[i] EXCEPT !.net = NoNet]
                                          ELSE @[i]]]

(* dbNet.destroy takes the pins of the net with it.                        *)
DestroyNet(d, key) ==
  [DisconnectNet(d, key) EXCEPT
     !.nets = Without(@, key),
     !.bterms = [n \in DOMAIN @ \ BTermsOf(d, key) |-> @[n]]]

DestroyBTerm(d, name) == [d EXCEPT !.bterms = Without(@, name)]

-----------------------------------------------------------------------------
(* Instances and obstructions.                                             *)

(* dbInst_create returns nothing when an instance has that name.           *)
CreateInst(d, master, name) ==
  IF name \in DOMAIN d.insts
  THEN d
  ELSE [d EXCEPT !.insts = Put(@, name, [master |-> master, status |-> "NONE",
                                         net |-> NoNet])]

DestroyInst(d, name) == [d EXCEPT !.insts = Without(@, name)]

(* dbInst.rename refuses, and says so by its result only, a name in use.   *)
RenameInst(d, old, new) ==
  IF new \in DOMAIN d.insts
  THEN d
  ELSE [d EXCEPT !.insts = Put(Without(@, old), new, @[old])]

SetStatus(d, name, s) == [d EXCEPT !.insts[name].status = s]

CreateObstruction(d, b) == [d EXCEPT !.obs = @ (+) SetToBag({b})]
=============================================================================
