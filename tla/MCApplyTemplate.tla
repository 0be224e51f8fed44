--------------------------- MODULE MCApplyTemplate ---------------------------
(* Two databases and a DEF.  The first database holds a design with a pin   *)
(* that the template also has (sig), a pin on the same net that it has with *)
(* another signal type (alt), a pin it does not have (own), and a net,      *)
(* without a pin, of the name of a requested power pin (pwr).  The          *)
(* templates: one on the grid with two boxes on pwr, one with a box off it, *)
(* one that names a layer the design lacks, one in other units.             *)
EXTENDS ApplyTemplate, TLC

Box(l, x) == [layer |-> l, xMin |-> x, yMin |-> 0, xMax |-> x + 2, yMax |-> 2]
Signal == [special |-> FALSE, sig |-> "SIGNAL"]

Design(grid) ==
  [grid |-> grid, dbu |-> 1, layers |-> {"met3"}, die |-> "small",
   insts |-> "buf" :> [master |-> "inv", status |-> "PLACED", net |-> <<"sig", 1>>],
   nets |-> [k \in {"sig", "own", "pwr"} \X {1} |-> Signal],
   bterms |-> [n \in {"sig", "alt", "own"} |->
                 [net |-> <<IF n = "alt" THEN "sig" ELSE n, 1>>, sig |-> "SIGNAL",
                  boxes |-> SetToBag({Box("met3", IF n = "own" THEN 1 ELSE 0)})]],
   obs |-> EmptyBag]

Template(grid, dbu, boxes) ==
  [grid |-> grid, dbu |-> dbu, die |-> "chip",
   terms |-> [n \in {"sig", "alt", "pwr", "bare"} |->
               [sig |-> IF n = "sig" THEN "SIGNAL" ELSE "POWER",
                boxes |-> CASE n \in {"sig", "alt"} -> {Box("met3", 4)}
                            [] n = "pwr" -> boxes
                            [] n = "bare" -> {}]]]

Templates == {Template(2, 1, {Box("met3", 6), Box("met3", 8)}),
              Template(2, 1, {Box("met3", 3), Box("met3", 8)}),
              Template(2, 1, {Box("met5", 6)}),
              Template(2, 2, {Box("met3", 6)}),
              Template(0, 1, {Box("met3", 6)})}

MCOdbPaths == {"a.odb", "b.odb"}
MCDefPaths == {"a.def"}

MCDisks == {("a.odb" :> Design(g)) @@ [p \in {"b.odb", "a.def"} |-> NoFile] : g \in {0, 2}}

PinLists == {NoPins, <<>>, <<"pwr">>, <<"sig", "pwr", "alt">>, <<"pwr", "bare", "lost", "pwr">>}

MCConfigs ==
  [pins : PinLists, template : Templates, input : {"a.odb"}, output : {"a.odb", "b.odb"},
   outputDef : {"a.def"}]
  \cup
  [pins : {<<"pwr">>}, template : Templates, input : {"a.def", "b.odb"},
   output : {"b.odb"}, outputDef : {"a.def"}]
=============================================================================
