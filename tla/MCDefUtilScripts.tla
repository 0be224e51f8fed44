-------------------------- MODULE MCDefUtilScripts --------------------------
(* A design with three instances, whose names collide when u_ is replaced   *)
(* by w_ everywhere, one net with a pin and an instance, one with an        *)
(* instance only, one with neither; and a donor DEF that shares one         *)
(* instance with it.  Two runs, so that a command meets what another    *)
(* one left.                                                                *)
EXTENDS DefUtilScripts, TLC

Inst(m, k) == [master |-> m, status |-> "PLACED", net |-> k]

Chip ==
  [grid |-> 5, dbu |-> 20, layers |-> {"met3"}, die |-> "chip",
   insts |-> (<<"u_", "u_", "a">> :> Inst("inv", <<"n1", 1>>))
          @@ (<<"u_", "w_", "a">> :> Inst("buf", <<"n2", 1>>))
          @@ (<<"v_", "u_", "a">> :> Inst("dff", NoNet)),
   nets |-> [k \in {"n1", "n2", "n3"} \X {1} |-> [special |-> FALSE, sig |-> "SIGNAL"]],
   bterms |-> [n \in {"n1"} |-> [net |-> <<n, 1>>, sig |-> "SIGNAL", boxes |-> EmptyBag]],
   obs |-> EmptyBag]

Donor ==
  [Chip EXCEPT !.insts = (<<"u_", "w_", "a">> :> Inst("nor", NoNet))
                      @@ (<<"w_", "w_", "a">> :> Inst("buf", <<"n9", 1>>)),
               !.nets = @ @@ (<<"n9", 1>> :> [special |-> FALSE, sig |-> "SIGNAL"])]

MCOdbPaths == {"a.odb", "b.odb"}
MCDefPaths == {"a.def", "donor.def", "lost.def"}

MCDisks == {("a.odb" :> Chip) @@ ("donor.def" :> Donor) @@ [p \in Paths |-> NoFile]}

Obs(l, x) == [layer |-> l, xMin |-> x, yMin |-> -x, xMax |-> x + 25, yMax |-> 0,
              formatted |-> l # "garbled"]

Arguments ==
  {[op |-> "mark_component_fixed", cell |-> c] : c \in {"inv"}} \cup
  {[op |-> "merge_components", donor |-> p] : p \in {"donor.def", "lost.def"}} \cup
  {[op |-> "relocate_pins"]} \cup
  {[op |-> "remove_components", match |-> m] :
     m \in {DOMAIN Chip.insts, {<<"u_", "w_", "a">>}}} \cup
  {[op |-> "remove_nets", match |-> m, empty_only |-> e] :
     m \in {{"n1", "n2", "n3"}, {"n2"}}, e \in BOOLEAN} \cup
  {[op |-> "remove_pins", match |-> m] : m \in {{"n1"}}} \cup
  {[op |-> "replace_instance_prefixes", original |-> "u_", new |-> "w_"]} \cup
  {[op |-> "add_obstructions", obstructions |-> s] :
     s \in {{Obs("met3", 12), Obs("met3", -5)}, {Obs("met3", 12), Obs("met9", 5)},
            {Obs("garbled", 1)}}}

MCInvocations ==
  {[script |-> s, input |-> "a.odb", output |-> "a.odb", outputDef |-> "a.def"] @@ a :
     s \in {"defutil", "defutil_ol2"}, a \in Arguments}
  \cup {[script |-> "defutil", input |-> "a.def", output |-> "b.odb", outputDef |-> "a.def",
         op |-> "remove_pins", match |-> {"n1"}]}
=============================================================================
