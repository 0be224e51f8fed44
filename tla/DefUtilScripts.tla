--------------------------- MODULE DefUtilScripts ---------------------------
(***************************************************************************)
(* Runs of the commands of defutil.py and of defutil_ol2.py under          *)
(* click_odb.  A command takes a list of the objects it goes over when it  *)
(* starts and handles them one by one, here in any order; names that it    *)
(* creates or frees on the way matter to the turns that follow.            *)
(***************************************************************************)
EXTENDS ClickOdb, Sequences

CONSTANT Invocations   \* command lines: [script, op, arguments, paths]

ASSUME InvocationsAssumption ==
  /\ Invocations # {}
  /\ \A i \in Invocations : /\ i.output \in OdbPaths /\ i.outputDef \in DefPaths
                            /\ i.op = "merge_components" => i.donor \in Paths
                            /\ i.op = "remove_nets" => i.empty_only \in BOOLEAN
                            /\ i.op = "add_obstructions" =>
                                 /\ IsFiniteSet(i.obstructions)
                                 /\ \A o \in i.obstructions : o.formatted => IsBox(o)

VARIABLE todo          \* objects the command has still to handle

vars == <<clickVars, todo>>

U == INSTANCE DefUtil
O == INSTANCE DefUtilOl2

Ol2 == inv.script = "defutil_ol2"

Init == ClickInit(CHOOSE i \in Invocations : TRUE) /\ todo = {}

-----------------------------------------------------------------------------
(* The call.                                                               *)

(* What click_odb passes beside the options of the command: always the     *)
(* reader, the rest when the function asks for it by that name.            *)
Supplied(parameters) ==
  {"reader"} \cup ({"input_db", "input_lef", "output"} \cap parameters)

Parameters == IF Ol2 THEN O!Parameters(inv.op) ELSE U!Parameters(inv.op)

TypeErrors ==
  \/ ~(Parameters \subseteq Supplied(Parameters))
  \/ inv.op = "relocate_pins" /\ U!RelocateArguments # U!RelocateParameters

Raises ==
  \/ inv.op = "merge_components" /\ disk[inv.donor] = NoFile
  \/ inv.op = "add_obstructions"
       /\ ~(IF Ol2 THEN O!AllFormatted(inv.obstructions) ELSE U!AllFormatted(inv.obstructions))

Objects ==
  CASE inv.op = "merge_components" -> DOMAIN disk[inv.donor].insts
    [] inv.op = "remove_nets"      -> DOMAIN mem.nets
    [] inv.op = "remove_pins"      -> DOMAIN mem.bterms
    [] inv.op = "add_obstructions" -> inv.obstructions
    [] OTHER                       -> DOMAIN mem.insts

Call ==
  /\ pc = "function"
  /\ CASE TypeErrors -> End("typeerror") /\ UNCHANGED todo
       [] ~TypeErrors /\ Raises -> End("raised") /\ UNCHANGED todo
       [] ~TypeErrors /\ ~Raises ->
            /\ pc' = "loop"
            /\ todo' = Objects
            /\ UNCHANGED <<mem, inv, exit, files>>

-----------------------------------------------------------------------------
(* One turn of the loop.                                                   *)

Turn(x, design) ==
  /\ mem' = design
  /\ todo' = todo \ {x}
  /\ UNCHANGED <<pc, inv, exit, files>>

In(op) == pc = "loop" /\ inv.op = op

MarkComponentFixed ==
  /\ In("mark_component_fixed")
  /\ \E i \in todo : Turn(i, IF Ol2 THEN O!MarkComponentFixed(mem, i, inv.cell)
                                    ELSE U!MarkComponentFixed(mem, i, inv.cell))

MergeComponents ==
  /\ In("merge_components")
  /\ \E i \in todo : Turn(i, U!MergeComponent(mem, disk[inv.donor], i))

RemoveComponents ==
  /\ In("remove_components")
  /\ \E i \in todo : Turn(i, IF Ol2 THEN O!RemoveComponent(mem, i, inv.match)
                                    ELSE U!RemoveComponent(mem, i, inv.match))

RemoveNets ==
  /\ In("remove_nets")
  /\ \E k \in todo : Turn(k, IF Ol2 THEN O!RemoveNet(mem, k, inv.match, inv.empty_only)
                                    ELSE U!RemoveNet(mem, k, inv.match, inv.empty_only))

RemovePins ==
  /\ In("remove_pins")
  /\ \E n \in todo : Turn(n, IF Ol2 THEN O!RemovePin(mem, n, inv.match)
                                    ELSE U!RemovePin(mem, n, inv.match))

ReplaceInstancePrefixes ==
  /\ In("replace_instance_prefixes")
  /\ \E i \in todo : Turn(i, IF Ol2 THEN O!ReplacePrefix(mem, i, inv.original, inv.new)
                                    ELSE U!ReplacePrefix(mem, i, inv.original, inv.new))

(* A layer that does not exist is found out after the obstructions before  *)
(* it were made.                                                           *)
AddObstructions ==
  /\ In("add_obstructions")
  /\ \E o \in todo :
       IF o.layer \in mem.layers
       THEN \E b \in IF Ol2 THEN O!BoxesInDbu(o, mem.dbu) ELSE U!BoxesInDbu(o, mem.dbu) :
              Turn(o, CreateObstruction(mem, b))
       ELSE End("raised") /\ UNCHANGED todo

Returns ==
  /\ pc = "loop"
  /\ todo = {}
  /\ pc' = "returned"
  /\ UNCHANGED <<mem, inv, exit, files, todo>>

-----------------------------------------------------------------------------
Command ==
  \/ Call \/ Returns
  \/ MarkComponentFixed \/ MergeComponents \/ RemoveComponents
  \/ RemoveNets \/ RemovePins \/ ReplaceInstancePrefixes \/ AddObstructions

Next ==
  \/ (\E i \in Invocations : Launch(i)) /\ UNCHANGED todo
  \/ (OpenDb \/ RefuseDef \/ WriteDef \/ WriteDb \/ Kill) /\ UNCHANGED todo
  \/ Command

Spec == Init /\ [][Next]_vars

-----------------------------------------------------------------------------
(* Properties.                                                             *)

(* Designs hang together at every turn: no pin and no terminal refers to a *)
(* net that is gone.                                                       *)
TypeOK ==
  /\ ClickTypeOK
  /\ pc \in {"idle", "open", "function", "loop", "returned", "def_written"}
  /\ inv \in Invocations

read == before[inv.input]
Ended(op) == pc = "returned" /\ inv.op = op

(* remove_nets keeps every pin of the chip and the net under it, cuts no   *)
(* instance off a net that it was not told to match or, with --empty-only, *)
(* off any net, and leaves no matched net without pins that it should have *)
(* removed.                                                                *)
RemoveNetsSpares ==
  Ended("remove_nets") =>
    /\ mem.bterms = read.bterms
    /\ \A i \in DOMAIN read.insts :
         LET k == read.insts[i].net
         IN  IF k = NoNet \/ inv.empty_only \/ k[1] \notin inv.match
             THEN mem.insts[i] = read.insts[i]
             ELSE mem.insts[i].net = NoNet
    /\ \A k \in DOMAIN read.nets :
         k \in DOMAIN mem.nets <=>
           \/ k[1] \notin inv.match
           \/ BTermsOf(read, k) # {}
           \/ inv.empty_only /\ ITermsOf(read, k) # {}

(* merge_components adds every instance that the recipient lacks and       *)
(* overwrites none that it has ("Existing components with the same name    *)
(* will *not* be overwritten").                                            *)
MergeKeepsExisting ==
  Ended("merge_components") =>
    LET donor == before[inv.donor]
    IN  /\ DOMAIN mem.insts = DOMAIN read.insts \cup DOMAIN donor.insts
        /\ \A i \in DOMAIN read.insts : mem.insts[i] = read.insts[i]
        /\ \A i \in DOMAIN donor.insts \ DOMAIN read.insts :
             mem.insts[i].master = donor.insts[i].master

(* replace_instance_prefixes loses no instance, also when two of them come *)
(* to the same new name, in any order of the renames: instances without    *)
(* the prefix stay as they are, and every one with it is found, with its   *)
(* master and its net, under its new name or its old one.                  *)
RenameLosesNothing ==
  Ended("replace_instance_prefixes") =>
    /\ Cardinality(DOMAIN mem.insts) = Cardinality(DOMAIN read.insts)
    /\ \A i \in DOMAIN read.insts :
         IF Head(i) # inv.original
         THEN i \in DOMAIN mem.insts /\ mem.insts[i] = read.insts[i]
         ELSE \E j \in {i, U!Replaced(i, inv.original, inv.new)} \cap DOMAIN mem.insts :
                mem.insts[j] = read.insts[i]

(* A design with obstructions has one for each that was asked for, at most *)
(* one unit from the place given in microns, beside those it had, and no   *)
(* other one: in any order of the loop, from any rounding of the products. *)
(* That one unit is the code's own: a whole product may lose it (InDbu).   *)
Near(o, b, dbu) ==
  LET Off(x, y) == 100 * x - dbu * y
  IN  /\ o.layer = b.layer
      /\ \A e \in {Off(b.xMin, o.xMin), Off(b.yMin, o.yMin),
                   Off(b.xMax, o.xMax), Off(b.yMax, o.yMax)} : e \in -100..100

Copies(b, bag) == IF b \in DOMAIN bag THEN bag[b] ELSE 0

AddedFor(obstructions, bag, old, dbu) ==
  \E box \in [obstructions -> DOMAIN bag] :
    /\ \A o \in obstructions : Near(o, box[o], dbu)
    /\ \A b \in DOMAIN bag \cup DOMAIN old :
         Copies(b, bag) = Copies(b, old) + Cardinality({o \in obstructions : box[o] = b})

ObstructionsAsAsked ==
  Ended("add_obstructions") => AddedFor(inv.obstructions, mem.obs, read.obs, read.dbu)
=============================================================================
