---------------------------- MODULE ApplyTemplate ----------------------------
(***************************************************************************)
(* The DEF template step: the flow step builds the command line from the   *)
(* configuration (__init__.py), the script forces the requested pins of    *)
(* the template into the design and takes over its die area                *)
(* (apply_def_template.py: relocate_pins and move_diearea of defutil.py).  *)
(*                                                                         *)
(* A template is [grid, dbu, die, terms], terms: name -> [sig, boxes]; its *)
(* grid and units come from the LEF named on the command line.  The loops  *)
(* of relocate_pins are one step per element; the order in which boxes are *)
(* placed is left open.                                                    *)
(***************************************************************************)
EXTENDS ClickOdb, Sequences, Functions

CONSTANTS
  NoPins,           \* FP_TEMPLATE_PINS is not set
  Configs           \* configurations: [pins, template] and the three paths

IsTemplate(t) == \A n \in DOMAIN t.terms : \A b \in t.terms[n].boxes : IsBox(b)

ASSUME ConfigsAssumption ==
  /\ Configs # {}
  /\ \A c \in Configs : /\ c.output \in OdbPaths /\ c.outputDef \in DefPaths
                        /\ c.pins = NoPins \/ c.pins \in Seq(Range(c.pins))
                        /\ IsTemplate(c.template)

VARIABLES
  todo,             \* pins still to create
  locs,             \* the template's locations: name -> [sig, boxes]
  left,             \* <<name, box>> pairs still to place
  grid_errors       \* a placed box lies off the manufacturing grid

localVars == <<todo, locs, left, grid_errors>>
vars == <<clickVars, localVars>>

NoLocs == [n \in {} |-> {}]

Init ==
  /\ ClickInit(CHOOSE c \in Configs : TRUE)
  /\ todo = <<>>
  /\ locs = NoLocs
  /\ left = {}
  /\ grid_errors = FALSE

-----------------------------------------------------------------------------
(* The command line.                                                       *)

(* A configuration without FP_TEMPLATE_PINS makes get_command raise, an    *)
(* empty list makes the command line lack its required -t: neither starts  *)
(* the script.                                                             *)
CommandFails(c) ==
  /\ pc = "idle"
  /\ runs < MaxRuns
  /\ c.pins \in {NoPins, <<>>}
  /\ exit' = IF c.pins = NoPins THEN "typeerror" ELSE "usage"
  /\ inv' = c
  /\ runs' = runs + 1
  /\ before' = disk
  /\ UNCHANGED <<disk, pc, mem, localVars>>

GetCommand(c) ==
  /\ c.pins \notin {NoPins, <<>>}
  /\ Launch(c)
  /\ todo' = <<>>
  /\ locs' = NoLocs
  /\ left' = {}
  /\ grid_errors' = FALSE

-----------------------------------------------------------------------------
(* relocate_pins and move_diearea.                                         *)

Requested == Range(inv.pins)

(* Both asserts: the template is drawn on the grid and in the units of the *)
(* design.                                                                 *)
SameTechnology == mem.grid = inv.template.grid /\ mem.dbu = inv.template.dbu

(* name -> locations, for the template's pins that have a box.             *)
TemplateLocations(t) ==
  Restrict(t.terms, {n \in DOMAIN t.terms : t.terms[n].boxes # {}})

ReadTemplate ==
  /\ pc = "function"
  /\ IF SameTechnology
     THEN /\ pc' = "create"
          /\ locs' = TemplateLocations(inv.template)
          /\ todo' = inv.pins
          /\ UNCHANGED <<mem, inv, exit, files, left, grid_errors>>
     ELSE End("raised") /\ UNCHANGED localVars

Bug_WithPin(d, name) == CreateBTerm(d, NewNet(d, name), name)   \* no net made

(* A net is made for every requested pin, a pin only where there is none.  *)
WithPin(d, name) ==
  LET key == NewNet(d, name)
  IN  CreateBTerm(CreateNet(d, key), key, name)

CreatePin ==
  /\ pc = "create"
  /\ todo # <<>>
  /\ mem' = WithPin(mem, Head(todo))
  /\ todo' = Tail(todo)
  /\ UNCHANGED <<pc, inv, exit, files, locs, left, grid_errors>>

Bug_Placements ==   \* every pin the template has, requested or not
  UNION {{n} \X locs[n].boxes : n \in DOMAIN mem.bterms \cap DOMAIN locs}

(* What the placement loop will do: the pins of the design, old and new,   *)
(* that are requested and that the template has.                           *)
Placements ==
  UNION {{n} \X locs[n].boxes : n \in DOMAIN mem.bterms \cap DOMAIN locs \cap Requested}

PinsCreated ==
  /\ pc = "create"
  /\ todo = <<>>
  /\ pc' = "place"
  /\ left' = Placements
  /\ UNCHANGED <<mem, inv, exit, files, todo, locs, grid_errors>>

check_pin_grid(grid, coordinate) == coordinate % grid # 0

OffGrid(b) == \E x \in Corners(b) : check_pin_grid(mem.grid, x)

Bug_GridErrors(b) == OffGrid(b)   \* forgets the boxes before

GridErrors(b) == OffGrid(b) \/ grid_errors

Placed(n, b) == SetSpecial(AddBox(mem, n, b), n, locs[n].sig)

(* A layer the design does not have is found missing, and a grid of zero   *)
(* divided by, only after the pin was made.                                *)
PlaceBox ==
  /\ pc = "place"
  /\ \E p \in left :
       LET n == p[1]
           b == p[2]
       IN  IF b.layer \in mem.layers /\ mem.grid # 0
           THEN /\ mem' = Placed(n, b)
                /\ grid_errors' = GridErrors(b)
                /\ left' = left \ {p}
                /\ UNCHANGED <<pc, inv, exit, files, todo, locs>>
           ELSE End("raised") /\ UNCHANGED localVars

PinsPlaced ==
  /\ pc = "place"
  /\ left = {}
  /\ IF grid_errors
     THEN End("dataerr")
     ELSE pc' = "diearea" /\ UNCHANGED <<mem, inv, exit, files>>
  /\ UNCHANGED localVars

MoveDieArea ==
  /\ pc = "diearea"
  /\ IF SameTechnology
     THEN /\ mem' = [mem EXCEPT !.die = inv.template.die]
          /\ pc' = "returned"
          /\ UNCHANGED <<inv, exit, files>>
     ELSE End("raised")
  /\ UNCHANGED localVars

-----------------------------------------------------------------------------
Relocate == ReadTemplate \/ CreatePin \/ PinsCreated \/ PlaceBox \/ PinsPlaced

ScriptStep ==
  \/ (OpenDb \/ RefuseDef \/ WriteDef \/ WriteDb) /\ UNCHANGED localVars
  \/ Relocate
  \/ MoveDieArea

Next ==
  \/ \E c \in Configs : CommandFails(c) \/ GetCommand(c)
  \/ ScriptStep
  \/ Kill /\ UNCHANGED localVars

Spec == Init /\ [][Next]_vars

-----------------------------------------------------------------------------
(* Properties.                                                             *)

(* Every design, in the files and in memory at every step of the loops,    *)
(* hangs together, and the loops handle what the command line and the      *)
(* template name.                                                          *)
TypeOK ==
  /\ ClickTypeOK
  /\ pc \in {"idle", "open", "function", "create", "place", "diearea",
             "returned", "def_written"}
  /\ inv \in Configs
  /\ grid_errors \in BOOLEAN
  /\ pc = "create" => /\ Range(todo) \subseteq Requested
                      /\ Requested \ Range(todo) \subseteq DOMAIN mem.bterms
  /\ pc = "place" => left \subseteq Placements

read == before[inv.input]

BoxesBefore(n) == IF n \in DOMAIN read.bterms THEN read.bterms[n].boxes ELSE EmptyBag

Applied == Requested \cap DOMAIN TemplateLocations(inv.template)

NetSetBy(k, n) == mem.nets[k] = [special |-> TRUE, sig |-> inv.template.terms[n].sig]

(* A pin that is placed has each location of the template, beside all,     *)
(* some or none of the boxes it had and no other, and the template's       *)
(* signal type; its net is special, with the type of one of its pins.      *)
PlacedAsDrawn(n) ==
  LET drawn == SetToBag(inv.template.terms[n].boxes)
  IN  /\ drawn \sqsubseteq mem.bterms[n].boxes
      /\ mem.bterms[n].boxes \sqsubseteq BoxesBefore(n) (+) drawn
      /\ mem.bterms[n].sig = inv.template.terms[n].sig
      /\ \E o \in Applied : /\ mem.bterms[o].net = mem.bterms[n].net
                            /\ NetSetBy(mem.bterms[n].net, o)

PowerPins(d) == {n \in DOMAIN d.bterms : d.bterms[n].sig \in {"POWER", "GROUND"}}

AsRead(n) == mem.bterms[n] = read.bterms[n]

Written == pc \in {"returned", "def_written"}

(* What the loops of relocate_pins and move_diearea add up to, whatever    *)
(* the order: the requested pins exist; those the template has are placed  *)
(* as it draws them; every other pin, net and instance is as it was read;  *)
(* the die area is the template's.  Code and texts disagree on two points, *)
(* and this takes no side in either: a pin that is "moved" (defutil.py:316)*)
(* may lose its old boxes or keep them (the code keeps them), and a power  *)
(* or ground pin of the design may be placed or left alone, as the warning *)
(* says (PowerPinsIgnored; the code places it).                            *)
WrittenIsApplied ==
  Written =>
    /\ DOMAIN mem.bterms = DOMAIN read.bterms \cup Requested
    /\ \A n \in Applied : PlacedAsDrawn(n) \/ (n \in PowerPins(read) /\ AsRead(n))
    /\ \A n \in Requested \ DOMAIN read.bterms : mem.bterms[n].net[1] = n
    /\ \A n \in DOMAIN read.bterms \ Applied : AsRead(n)
    /\ \A k \in DOMAIN read.nets :
         (\A n \in Applied : mem.bterms[n].net # k) => mem.nets[k] = read.nets[k]
    /\ mem.insts = read.insts
    /\ mem.die = inv.template.die

(* What relocate_pins tells the user of each power or ground pin that the  *)
(* design already has: it "will be ignored".  The code leaves it out of a  *)
(* set of names that is only counted, and places it like any other.        *)
PowerPinsIgnored == Written => \A n \in PowerPins(read) : AsRead(n)

(* No box off the manufacturing grid reaches a file unless the design that *)
(* was read had it on that pin: one bad coordinate among all the boxes of  *)
(* all the pins is remembered until the loop ends, and stops the run.      *)
OffGridBoxes(d) ==
  {p \in UNION {{n} \X DOMAIN d.bterms[n].boxes : n \in DOMAIN d.bterms} :
     d.grid # 0 /\ \E x \in Corners(p[2]) : x % d.grid # 0}

NoNewOffGrid ==
  \A p \in Paths :
    disk[p] # before[p] => OffGridBoxes(disk[p]) \subseteq OffGridBoxes(read)
=============================================================================
