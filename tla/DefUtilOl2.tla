----------------------------- MODULE DefUtilOl2 -----------------------------
(***************************************************************************)
(* The commands of defutil_ol2.py, a copy of defutil.py that takes a list  *)
(* of LEF files where the other takes one.  Conventions as in DefUtil; the *)
(* commands that never get past their binding have no body here.           *)
(***************************************************************************)
EXTENDS OdbDesign, Sequences

(* The name of the list is not one that click_odb supplies.                *)
Parameters(op) ==
  IF op \in {"merge_components", "relocate_pins"} THEN {"reader", "input_lefs"}
                                                  ELSE {"reader"}

MarkComponentFixed(d, i, cell) ==
  IF d.insts[i].master # cell THEN d ELSE SetStatus(d, i, "FIRM")

RemoveComponent(d, i, match) == IF i \notin match THEN d ELSE DestroyInst(d, i)

RemoveNet(d, k, match, emptyOnly) ==
  LET removes == k[1] \in match /\ (emptyOnly => ITermsOf(d, k) = {})
      haspin  == BTermsOf(d, k) # {}
  IN  CASE removes /\ haspin  -> DisconnectNet(d, k)
        [] removes /\ ~haspin -> DestroyNet(d, k)
        [] ~removes           -> d

RemovePin(d, n, match) == IF n \notin match THEN d ELSE DestroyBTerm(d, n)

ReplacePrefix(d, i, original, new) ==
  IF Head(i) # original
  THEN d
  ELSE RenameInst(d, i, [j \in DOMAIN i |-> IF i[j] = original THEN new ELSE i[j]])

(* int(x * dbu), short by one when a whole product comes out below it.     *)
InDbu(c, dbu) ==
  LET size == IF c < 0 THEN -c ELSE c
      sign == IF c < 0 THEN -1 ELSE 1
      q    == (size * dbu) \div 100
  IN  {sign * q} \cup
      (IF size > 0 /\ (size * dbu) % 100 = 0 THEN {sign * (q - 1)} ELSE {})

BoxesInDbu(o, dbu) ==
  [layer : {o.layer}, xMin : InDbu(o.xMin, dbu), yMin : InDbu(o.yMin, dbu),
   xMax : InDbu(o.xMax, dbu), yMax : InDbu(o.yMax, dbu)]

AllFormatted(obstructions) == {o \in obstructions : ~o.formatted} = {}
=============================================================================
