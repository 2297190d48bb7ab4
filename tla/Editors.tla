------------------------------ MODULE Editors -------------------------------
(***************************************************************************)
(* Two more forms of the terminal interface, each a program of its own:    *)
(* the editor of a VM's configuration (`vee config`) and the wizard that   *)
(* sets up a passthrough VM.                                               *)
(*                                                                         *)
(* The editor turns every field into text when it starts and back when it  *)
(* saves; one field stands for all of its kind, and plain text, which      *)
(* needs no conversion, is left out.  Its list of disks is changed in      *)
(* place, in the configuration that a save in another goroutine is about   *)
(* to write.                                                               *)
(***************************************************************************)
EXTENDS Integers, Sequences, FiniteSets, SequencesExt

CONSTANTS
  EditLoads,   \* configurations that are edited
  EditDevs,    \* sequence of unmounted devices
  MaxEdits,    \* bound: changes made in the editor
  MaxSaves,    \* bound: saves under way
  WizardGPUs,  \* numbers of GPUs and of NVMe devices that may be found
  WizardNVMes

VARIABLES
  ed,      \* editModel
  loaded,  \* the configuration as it was read
  file,    \* the configuration in the VM's directory
  wz       \* configModel

editorVars == <<ed, loaded, file>>

-----------------------------------------------------------------------------
(* The editor's fields and their texts.                                     *)

EditOrder == <<"CPUs", "Headless", "SPICEPort">>
EditFields == {EditOrder[i] : i \in DOMAIN EditOrder}
nilSPICE == -1

Itoa(n) == CASE n = 0 -> "0" [] n = 4 -> "4" [] n = 5900 -> "5900"
atoi(t) == CASE t = "4" -> 4 [] t = "5900" -> 5900 [] OTHER -> 0
boolStr(b) == IF b THEN "true" ELSE "false"

cfgToInputValues(c) ==
  [f \in EditFields |->
     CASE f = "Headless"  -> boolStr(c.Headless)
       [] f = "SPICEPort" -> IF c.SPICEPort = nilSPICE THEN "" ELSE Itoa(c.SPICEPort)
       [] f = "CPUs"      -> Itoa(c.CPUs)]

inputsToCfg(inp, disks) ==
  [CPUs      |-> atoi(inp["CPUs"]),
   Headless  |-> inp["Headless"] = "true",
   SPICEPort |-> IF atoi(inp["SPICEPort"]) > 0 THEN atoi(inp["SPICEPort"]) ELSE nilSPICE,
   disks     |-> disks]

(* What keys leave in a field: a number, or text that is none.  A field     *)
(* with fixed choices cycles through them; other text counts as false.      *)
typed(f) == IF f = "Headless" THEN {"true", "false"} ELSE {"4", "junk"}

newEditModel(c) ==
  [at |-> 1, df |-> "none", idx |-> 1, mode |-> "new", size |-> TRUE, dev |-> 1,
   inp |-> cfgToInputValues(c), disks |-> c.disks, saves |-> {}, st |-> "open",
   touched |-> {}, deleted |-> {}, n |-> 0]

EditInit ==
  \E c \in EditLoads : loaded = c /\ file = c /\ ed = newEditModel(c)

inFields(at) == [ed EXCEPT !.df = "none", !.at = at]
lastField == Len(EditOrder)

(* On from the choice of what to add: to its size or its device, or, with   *)
(* nothing to add, back to the fields.                                      *)
addStep(back) ==
  CASE ed.mode = "new"         -> [ed EXCEPT !.df = "size"]
    [] ed.mode = "passthrough" -> [ed EXCEPT !.df = "dev"]
    [] ed.mode = "none"        -> inFields(back)

focusNext ==
  CASE ed.df = "none" /\ ed.at < lastField -> [ed EXCEPT !.at = @ + 1]
    [] ed.df = "none" /\ ed.at = lastField ->
         IF ed.disks # <<>> THEN [ed EXCEPT !.df = "disk", !.idx = 1] ELSE [ed EXCEPT !.df = "mode"]
    [] ed.df = "disk" -> IF ed.idx < Len(ed.disks) THEN [ed EXCEPT !.idx = @ + 1]
                         ELSE [ed EXCEPT !.df = "mode"]
    [] ed.df = "mode" -> addStep(1)
    [] ed.df \in {"size", "dev"} -> inFields(1)

focusPrev ==
  CASE ed.df = "none" -> IF ed.at > 1 THEN [ed EXCEPT !.at = @ - 1] ELSE [ed EXCEPT !.df = "mode"]
    [] ed.df = "disk" -> IF ed.idx > 1 THEN [ed EXCEPT !.idx = @ - 1] ELSE inFields(lastField)
    [] ed.df = "mode" -> IF ed.disks # <<>> THEN [ed EXCEPT !.df = "disk", !.idx = Len(ed.disks)]
                         ELSE inFields(lastField)
    [] ed.df \in {"size", "dev"} -> [ed EXCEPT !.df = "mode"]

(* Mutant: the cursor stays where the last row was.                         *)
deleteDiskLoose ==
  LET rest == RemoveAt(ed.disks, ed.idx) IN
  [ed EXCEPT !.disks = rest, !.deleted = @ \cup {ed.disks[ed.idx]}, !.n = @ + 1,
             !.df = IF rest = <<>> THEN "mode" ELSE @]

(* The disk of the row the cursor is on goes.                               *)
deleteDisk ==
  LET rest == RemoveAt(ed.disks, ed.idx) IN
  [ed EXCEPT !.disks = rest, !.deleted = @ \cup {ed.disks[ed.idx]}, !.n = @ + 1,
             !.idx = IF @ > Len(rest) /\ @ > 1 THEN @ - 1 ELSE @,
             !.df = IF rest = <<>> THEN "mode" ELSE @]

commitAddDisk ==
  LET new == CASE ed.mode = "new"         -> IF ed.size THEN <<<<"new", ed.n>>>> ELSE <<>>
               [] ed.mode = "passthrough" -> IF EditDevs # <<>> THEN <<<<EditDevs[ed.dev], ed.n>>>>
                                             ELSE <<>>
  IN [ed EXCEPT !.disks = @ \o new, !.size = TRUE, !.dev = 1, !.df = "mode", !.n = @ + 1]

room == ed.n < MaxEdits

editMove == ed' \in {focusNext, focusPrev}

editArrow ==
  \/ ed.df = "mode" /\ \E m \in {"new", "passthrough", "none"} : ed' = [ed EXCEPT !.mode = m]
  \/ ed.df = "dev" /\ \E d \in DOMAIN EditDevs : ed' = [ed EXCEPT !.dev = d]

editType ==
  /\ room
  /\ \/ /\ ed.df = "none"
        /\ \E t \in typed(EditOrder[ed.at]) :
             ed' = [ed EXCEPT !.inp[EditOrder[ed.at]] = t, !.n = @ + 1,
                              !.touched = @ \cup {EditOrder[ed.at]}]
     \/ ed.df = "size" /\ \E b \in BOOLEAN : ed' = [ed EXCEPT !.size = b]
     \/ ed.df = "disk" /\ ed.disks # <<>> /\ ed' = deleteDisk

(* enter: saves from the fields, elsewhere moves on or adds the disk.       *)
editEnter ==
  CASE ed.df = "none" -> Cardinality(ed.saves) < MaxSaves /\ ed' = [ed EXCEPT !.saves = @ \cup {ed.inp}]
    [] ed.df = "disk" -> ed' = [ed EXCEPT !.df = "mode"]
    [] ed.df = "mode" -> ed' = addStep(lastField)
    [] ed.df \in {"size", "dev"} -> room /\ ed' = commitAddDisk

editKey ==
  /\ ed.st = "open"
  /\ editMove \/ editArrow \/ editType \/ editEnter \/ ed' = [ed EXCEPT !.st = "left"]
  /\ UNCHANGED <<loaded, file>>

(* The save runs by itself, with the texts of its own time and the disks of *)
(* this one; its answer ends the program, whether it failed or not.  A save *)
(* may still run after esc, while the program ends.                         *)
doSave ==
  /\ ed.st \in {"open", "left"}
  /\ \E inp \in ed.saves :
       \/ file' = inputsToCfg(inp, ed.disks) /\ ed' = [ed EXCEPT !.st = "saved"]
       \/ UNCHANGED file /\ ed' = [ed EXCEPT !.st = "failed"]
  /\ UNCHANGED loaded

EditNext == editKey \/ doSave

-----------------------------------------------------------------------------
(* The wizard.  Devices are looked up in the background, once.              *)

StepOrder == <<"Name", "GPU", "NVMe", "OVMF", "Virtiofs", "MAC", "Confirm">>

WizardInit ==
  \E named, auto \in BOOLEAN :
    wz = [step |-> IF named THEN 2 ELSE 1, name |-> named, auto |-> auto, loaded |-> FALSE,
          gpus |-> 0, nvmes |-> 0, gpu |-> 0, nvme |-> 0, sent |-> FALSE, made |-> FALSE,
          got |-> <<0, 0>>, st |-> "open"]

loadDevices ==
  /\ wz.st = "open" /\ ~wz.loaded
  /\ \E g \in WizardGPUs \cup {0}, v \in WizardNVMes \cup {0} :
       wz' = [wz EXCEPT !.loaded = TRUE, !.gpus = g, !.nvmes = v]

wizardStep == StepOrder[wz.step]

(* No device is chosen until there are some.                                *)
selectedGPU  == IF wz.gpus = 0 THEN 0 ELSE wz.gpu + 1
selectedNVMe == IF wz.nvmes = 0 THEN 0 ELSE wz.nvme + 1

wizardChoose ==
  \/ wizardStep = "GPU" /\ wz.gpu > 0 /\ wz' = [wz EXCEPT !.gpu = @ - 1]
  \/ wizardStep = "GPU" /\ wz.gpu < wz.gpus - 1 /\ wz' = [wz EXCEPT !.gpu = @ + 1]
  \/ wizardStep = "NVMe" /\ wz.nvme > 0 /\ wz' = [wz EXCEPT !.nvme = @ - 1]
  \/ wizardStep = "NVMe" /\ wz.nvme < wz.nvmes - 1 /\ wz' = [wz EXCEPT !.nvme = @ + 1]
  \/ wizardStep = "Name" /\ \E b \in BOOLEAN : wz' = [wz EXCEPT !.name = b]

wizardEnter ==
  IF wizardStep = "Confirm" THEN wz' = [wz EXCEPT !.sent = TRUE, !.got = <<selectedGPU, selectedNVMe>>]
  ELSE /\ wizardStep = "Name" => wz.name
       /\ wz' = [wz EXCEPT !.step = @ + 1]

wizardEsc ==
  IF wizardStep = "Name" THEN wz' = [wz EXCEPT !.st = "left"] ELSE wz' = [wz EXCEPT !.step = @ - 1]

wizardQuit == wizardStep \in {"Name", "Confirm"} /\ wz' = [wz EXCEPT !.st = "left"]

wizardKey ==
  wz.st = "open" /\ ~wz.sent /\ (wizardChoose \/ wizardEnter \/ wizardEsc \/ wizardQuit)

(* Create, then Start; a VM whose start failed is there, and creating it    *)
(* again is refused.                                                        *)
wizardSubmit ==
  /\ wz.st = "open" /\ wz.sent
  /\ \/ ~wz.made /\ wz' = [wz EXCEPT !.made = TRUE, !.st = "done"]
     \/ ~wz.made /\ wz.auto /\ wz' = [wz EXCEPT !.made = TRUE, !.sent = FALSE]
     \/ wz' = [wz EXCEPT !.sent = FALSE]

WizardNext == loadDevices \/ wizardKey \/ wizardSubmit

-----------------------------------------------------------------------------
(* Properties.                                                              *)

(* A row of disks is focused only while it is there, so that d deletes the  *)
(* disk it is on.                                                           *)
DiskRowExists == ed.df = "disk" => ed.idx \in DOMAIN ed.disks

(* A save writes a field the user left alone as it was read (a SPICE entry  *)
(* without a port is dropped), and keeps, in order and first, every disk    *)
(* that the user did not delete.                                            *)
EditKeepsRest ==
  ed.st = "saved" =>
    /\ \A f \in EditFields \ ed.touched :
         file[f] = loaded[f] \/ (f = "SPICEPort" /\ loaded[f] = 0 /\ file[f] = nilSPICE)
    /\ IsPrefix(SelectSeq(loaded.disks, LAMBDA d : d \notin ed.deleted), file.disks)

(* The wizard's VM has a name, and its devices are among those found,       *)
(* whenever the lists arrive.                                               *)
WizardInRange ==
  /\ wz.step > 1 => wz.name
  /\ wz.gpus > 0 => wz.gpu < wz.gpus
  /\ wz.nvmes > 0 => wz.nvme < wz.nvmes

=============================================================================
