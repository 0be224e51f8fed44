------------------------------ MODULE DefUtil ------------------------------
(***************************************************************************)
(* The commands of defutil.py: what one turn of each command's loop does   *)
(* to the design d.  A regular expression is the set of names it matches;  *)
(* the name of an instance is a sequence of pieces, each of which ends     *)
(* where "<prefix>_" ends, so that a prefix is a piece.  Coordinates on    *)
(* the command line are in hundredths of a micron.                         *)
(***************************************************************************)
EXTENDS OdbDesign, Sequences

(* The parameters of a command beside its own options.                     *)
Parameters(op) ==
  IF op \in {"merge_components", "relocate_pins"} THEN {"reader", "input_lef"}
                                                  ELSE {"reader"}

(* relocate_pins_command hands three of its four arguments to              *)
(* relocate_pins: reader.db, input_lef and template_def.                   *)
RelocateArguments == {"db", "input_lef", "template_def"}
RelocateParameters == RelocateArguments \cup {"template_def_pins"}

-----------------------------------------------------------------------------
MarkComponentFixed(d, i, cell) ==
  IF d.insts[i].master = cell THEN SetStatus(d, i, "FIRM") ELSE d

Bug_MergeComponent(d, donor, i) ==   \* the donor's instance wins
  CreateInst(IF i \in DOMAIN d.insts THEN DestroyInst(d, i) ELSE d,
             donor.insts[i].master, i)

Bug_MergeConnected(d, donor, i) ==   \* with the donor's net
  IF i \in DOMAIN d.insts THEN d ELSE [d EXCEPT !.insts = Put(@, i, donor.insts[i])]

MergeComponent(d, donor, i) == CreateInst(d, donor.insts[i].master, i)

RemoveComponent(d, i, match) == IF i \in match THEN DestroyInst(d, i) ELSE d

Bug_RemoveNet(d, k, match, emptyOnly) ==   \* a net with a pin is not kept
  IF k[1] \notin match \/ (emptyOnly /\ ITermsOf(d, k) # {})
  THEN d
  ELSE DestroyNet(d, k)

(* A net that has a pin stays, without its instances.                      *)
RemoveNet(d, k, match, emptyOnly) ==
  IF k[1] \notin match \/ (emptyOnly /\ ITermsOf(d, k) # {})
  THEN d
  ELSE IF BTermsOf(d, k) # {} THEN DisconnectNet(d, k) ELSE DestroyNet(d, k)

RemovePin(d, n, match) == IF n \in match THEN DestroyBTerm(d, n) ELSE d

(* str.replace: every occurrence, not the first only.                      *)
Replaced(name, original, new) ==
  [j \in DOMAIN name |-> IF name[j] = original THEN new ELSE name[j]]

Bug_ReplacePrefix(d, i, original, new) ==   \* looks for it anywhere
  RenameInst(d, i, Replaced(i, original, new))

ReplacePrefix(d, i, original, new) ==
  IF Head(i) = original THEN RenameInst(d, i, Replaced(i, original, new)) ELSE d

-----------------------------------------------------------------------------
(* add_obstructions                                                        *)

(* int(): towards zero.                                                    *)
Trunc(x, y) == IF x >= 0 THEN x \div y ELSE -((-x) \div y)

(* int(x * dbu) with x a float read from decimal digits: a product that is *)
(* a whole number may come out just short of it.                           *)
InDbu(c, dbu) ==
  LET q == Trunc(c * dbu, 100)
  IN  IF c = 0 \/ (c * dbu) % 100 # 0 THEN {q}
      ELSE {q, IF c > 0 THEN q - 1 ELSE q + 1}

Bug_BoxesInDbu(o, dbu) ==   \* converts to an integer before it scales
  [layer : {o.layer}, xMin : {Trunc(o.xMin, 100) * dbu}, yMin : {Trunc(o.yMin, 100) * dbu},
   xMax : {Trunc(o.xMax, 100) * dbu}, yMax : {Trunc(o.yMax, 100) * dbu}]

BoxesInDbu(o, dbu) ==
  [layer : {o.layer}, xMin : InDbu(o.xMin, dbu), yMin : InDbu(o.yMin, dbu),
   xMax : InDbu(o.xMax, dbu), yMax : InDbu(o.yMax, dbu)]

(* Every obstruction is parsed before the first is made.                   *)
AllFormatted(obstructions) == \A o \in obstructions : o.formatted
=============================================================================
