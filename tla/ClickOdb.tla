------------------------------ MODULE ClickOdb ------------------------------
(***************************************************************************)
(* One run of a layout script (reader.py): OdbReader opens the input       *)
(* database, click_odb calls the command on the design in memory, then     *)
(* writes the DEF and, last, the database.  A command may raise or exit,   *)
(* and the process may be killed at any point.  Runs follow each other on  *)
(* the same files, and a run may write the database it read.               *)
(*                                                                         *)
(* A script extends this module with the actions of its command, which     *)
(* take pc from "function" to "returned".                                  *)
(***************************************************************************)
EXTENDS OdbDesign

CONSTANTS
  OdbPaths, DefPaths,   \* names of database files and of DEF files
  NoFile,               \* what is at a path where nothing is
  NoDesign,             \* no design in memory
  Disks,                \* what may be on disk at first: path -> design or NoFile
  MaxRuns               \* bound: runs in a behaviour

ASSUME PathsAssumption == OdbPaths \cap DefPaths = {}
ASSUME MaxRunsAssumption == MaxRuns \in Nat

Paths == OdbPaths \cup DefPaths

ASSUME DisksAssumption ==
  \A d \in Disks : /\ DOMAIN d = Paths
                   /\ \A p \in Paths : d[p] = NoFile \/ IsDesign(d[p])

VARIABLES
  disk,     \* path -> design, or NoFile
  pc,       \* where the run is; "idle" between runs
  inv,      \* the command line: input, output, outputDef and the rest
  mem,      \* the design in memory
  exit,     \* how the run ended, "none" while it is under way
  runs,     \* runs so far
  before    \* history: the files when the run began

files == <<disk, before, runs>>
clickVars == <<disk, pc, inv, mem, exit, runs, before>>

Failures == {"raised", "typeerror", "usage", "dataerr"}

ClickInit(command) ==
  /\ disk \in Disks
  /\ before = disk
  /\ pc = "idle"
  /\ inv = command
  /\ mem = NoDesign
  /\ exit = "none"
  /\ runs = 0

Launch(i) ==
  /\ pc = "idle"
  /\ runs < MaxRuns
  /\ pc' = "open"
  /\ inv' = i
  /\ mem' = NoDesign
  /\ exit' = "none"
  /\ runs' = runs + 1
  /\ before' = disk
  /\ UNCHANGED disk

(* The process ends and its memory is gone.                                *)
End(code) ==
  /\ pc' = "idle"
  /\ exit' = code
  /\ mem' = NoDesign
  /\ UNCHANGED <<inv, files>>

(* OdbReader(input_db)                                                     *)
OpenDb ==
  /\ pc = "open"
  /\ inv.input \in OdbPaths
  /\ IF disk[inv.input] = NoFile
     THEN End("raised")
     ELSE /\ mem' = disk[inv.input]
          /\ pc' = "function"
          /\ UNCHANGED <<inv, exit, files>>

(* A path that ends in .def is refused, but only once the reader has tried *)
(* to read it as a database.                                               *)
RefuseDef ==
  /\ pc = "open"
  /\ inv.input \in DefPaths
  /\ \E code \in {"raised", "usage"} : End(code)

Bug_WriteDef ==   \* the database goes first
  /\ pc = "returned"
  /\ disk' = [disk EXCEPT ![inv.output] = mem]
  /\ pc' = "def_written"
  /\ UNCHANGED <<inv, mem, exit, runs, before>>

WriteDef ==
  /\ pc = "returned"
  /\ disk' = [disk EXCEPT ![inv.outputDef] = mem]
  /\ pc' = "def_written"
  /\ UNCHANGED <<inv, mem, exit, runs, before>>

WriteDb ==
  /\ pc = "def_written"
  /\ disk' = [disk EXCEPT ![inv.output] = mem]
  /\ pc' = "idle"
  /\ exit' = "ok"
  /\ mem' = NoDesign
  /\ UNCHANGED <<inv, runs, before>>

Kill == pc # "idle" /\ End("killed")

-----------------------------------------------------------------------------
(* The files and the memory hold designs that hang together.               *)
ClickTypeOK ==
  /\ runs \in 0..MaxRuns
  /\ exit \in Failures \cup {"none", "ok", "killed"}
  /\ DOMAIN disk = Paths /\ DOMAIN before = Paths
  /\ \A p \in Paths : /\ disk[p] = NoFile \/ IsDesign(disk[p])
                      /\ before[p] = NoFile \/ IsDesign(before[p])
  /\ IF pc \in {"idle", "open"} THEN mem = NoDesign ELSE IsDesign(mem)

(* A command that raises or exits, however much of the design it has       *)
(* changed by then, leaves every file as it was: click_odb writes after    *)
(* the command has returned, and not otherwise.                            *)
FailedRunWritesNothing == exit \in Failures => disk = before

(* The database is written last and only once the DEF is: a run that did   *)
(* not reach its end, killed between the two writes included, leaves every *)
(* database as it was, so that the same command can be given again even    *)
(* when it writes the database it reads; one that raised or exited leaves  *)
(* the DEF alone as well; a run that did reach its end leaves the same     *)
(* design in both files and touches no other.                              *)
DatabaseLast ==
  /\ FailedRunWritesNothing
  /\ exit # "ok" => \A p \in Paths \ {inv.outputDef} : disk[p] = before[p]
  /\ exit = "ok" => /\ disk[inv.output] = disk[inv.outputDef]
                    /\ \A p \in Paths \ {inv.output, inv.outputDef} :
                         disk[p] = before[p]
=============================================================================
