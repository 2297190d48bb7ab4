------------------------------- MODULE Disks --------------------------------
(***************************************************************************)
(* A VM's record and its boot disk: Create, Delete, MoveBootDisk and       *)
(* ResizeBootDisk of the manager, the disk's own Create, the commands      *)
(* around them (vee move, resize, delete), cloud-init's seed, and the      *)
(* opening of the database.                                                *)
(*                                                                         *)
(* Facts.  row: the VM's row in the database; cfg.x: its config points at  *)
(* place x, where x is a (the name the disk was created with), b and c     *)
(* (the names two resizes give it) or m (where a move takes it).  fixed:   *)
(* the config's path names the file; without it the name is generated from *)
(* the size.  file.x: a file is there; data.x: and it is the guest's disk, *)
(* whole.  boot.x: the guest runs on it.  gen: the file has a generated    *)
(* name; exdev: the move's target is another file system.  yaml.v: the     *)
(* files of VM v of an older vee; row.v: its row; ver: the schema's        *)
(* version.  had.disk: the guest is installed and nobody asked to delete   *)
(* it (history).                                                           *)
(***************************************************************************)
EXTENDS StepMachine, TLC

Places == {"a", "b", "c", "m"}
cfgs == {"cfg." \o x : x \in Places}
boots == {"boot." \o x : x \in Places}
datas == {"data." \o x : x \in Places}
Has(x) == {"file." \o x, "data." \o x}

(* migrateFromYAML: a VM whose vm.yaml cannot be read or parsed is passed   *)
(* over (passed.v).                                                         *)
migrateVM(v) == << Part({"passed." \o v}, [Best({}) EXCEPT !.look = {<<"yaml." \o v, "got." \o v>>}]),
                   When({"got." \o v}, Check) >>
migrateFromYAML == << Clear({"passed.v", "passed.w"}), Check >> \o migrateVM("v") \o migrateVM("w")

(* initSchema: the schema, the rows and the version, in one transaction.    *)
initSchema ==
  << Check >> \o migrateFromYAML
  \o << When({"got.v", "got.w"}, Try({"row.v", "row.w", "ver"})),
        When({"got.v"}, Unless({"got.w"}, Try({"row.v", "ver"}))),
        When({"got.w"}, Unless({"got.v"}, Try({"row.w", "ver"}))),
        Unless({"got.v", "got.w"}, Try({"ver"})) >>

runMigrations == << Try({"ver", "ver.old"}) >>

(* Open.                                                                    *)
Open == << Check, Check, Check >> \o UnlessAll({"ver", "ver.old"}, initSchema)
        \o UnlessAll({"ver"}, WhenAll({"ver.old"}, runMigrations))

dbSaveConfig(x) == TrySwap(cfgs, {"row", "cfg." \o x})
saveFixed(x) == TrySwap(cfgs, {"row", "cfg." \o x, "fixed"})
dbDeleteVM == Part({"stuck"}, BestClear({"row", "fixed"} \cup cfgs))

(* loadConfig: which place the config names is remembered as tag.x.         *)
loadConfig(tag) == << [Check EXCEPT !.look = {<<"cfg." \o x, tag \o x>> : x \in Places}], Require("row") >>
alive == "guest.runs"

-----------------------------------------------------------------------------
(* diskCreate: an existing file is kept; else qemu-img makes an empty one,  *)
(* or an overlay of the distribution's image.                               *)
detectImageFormat == Check
diskCreate(x) ==
  WhenAll({"in." \o x}, UnlessAll({"file." \o x}, << Check, detectImageFormat, Try({"file." \o x}) >>))

(* What Start does with the disk, and the guest installed on it.            *)
startOn(x) == When({"in." \o x}, Do({"boot." \o x, alive}))
install(x) == When({"boot." \o x}, Unless(datas, Do({"data." \o x, "had.disk"})))
Start == << Refuse({alive}) >> \o loadConfig("in.")
         \o diskCreate("a") \o diskCreate("b") \o diskCreate("c") \o diskCreate("m")
         \o << startOn("a"), startOn("b"), startOn("c"), startOn("m"), install("a"), install("m") >>
Stop_ == << TryClear({alive} \cup boots) >>

(* A disk that exists under the name the config gives is reported, a name   *)
(* generated later is not looked at; the user goes on, or not.              *)
checkBlockDevice == Best({})
checkImageFile == Best({})
CheckDisksForData ==
  << checkBlockDevice, checkImageFile, Unless({"gen"}, Look("file.a", "existing")),
     When({"existing"}, Pick({"goon"})), Unless({"goon"}, Refuse({"existing"})) >>

(* Generate writes user-data and meta-data, and packs them with the first   *)
(* tool there is: xorriso, genisoimage, hdiutil, or vee's own writer.       *)
mkisofsTool == Pick({"tool"})
runISOTool == Check
buildISOHdiutil == << Undo({"seeddir"}, Try({"seeddir"})), Check, runISOTool, Clear({"seeddir"}) >>
buildISO == << mkisofsTool, When({"tool"}, runISOTool) >>
            \o UnlessAll({"tool"}, WhenAll({"darwin"}, buildISOHdiutil)) \o << Part({"seed.part"}, Try({"seed"})) >>
Generate == << Check, Check, Check >> \o buildISO
GenerateSeed == << Check, Check >> \o buildISO

(* Create refuses what no backend can run before it touches the disk, and   *)
(* saves the config last.                                                   *)
validateCreate == << Check >>
copyVars == << Check, Part({"vars.part"}, Try({"vars"})) >>
Create ==
  validateCreate \o << Try({"vmdir"}) >> \o CheckDisksForData
  \o copyVars \o Generate \o WhenAll({"seedfiles"}, GenerateSeed) \o << Check, dbSaveConfig("a") >>

-----------------------------------------------------------------------------
(* moveFile: a rename, or a copy and a removal; a file that is copied but   *)
(* cannot be removed stays at both places.                                  *)
rename(x, y) == << When({"data." \o x}, TrySwap(Has(x), Has(y))),
                   Unless({"data." \o x, "data." \o y}, TrySwap(Has(x), {"file." \o y})) >>
copyOver(x, y) ==
  Attempt("uncopied", << Undo(Has(y), Try({"file." \o y})), When({"data." \o x}, Try({"data." \o y})) >>)
  \o << Refuse({"uncopied"}), Part({"copy.left"}, TryClear(Has(x))) >>
moveFile(x, y) == UnlessAll({"exdev"}, rename(x, y)) \o WhenAll({"exdev"}, copyOver(x, y))

(* MoveBootDisk of a disk at x to y: the new path is fixed in the config.   *)
(* When it cannot be saved the file is moved back, if it can be (strayed:   *)
(* it cannot).                                                              *)
moveTo(x, y) ==
  WhenAll({"at." \o x}, << Refuse({"file." \o y}), Check >>
    \o moveFile(x, y) \o Attempt("unsaved", << saveFixed(y) >>)
    \o WhenAll({"unsaved"}, Attempt("lost", moveFile(y, x)) \o << When({"lost"}, Do({"strayed"})), Refuse({}) >>))

bootDisk == << Check, Refuse({alive}) >> \o loadConfig("at.")
            \o [i \in 1..4 |-> LET x == <<"a", "b", "c", "m">>[i] IN
                                When({"at." \o x}, Require("file." \o x))]
MoveBootDisk == bootDisk \o << Check, Refuse({"at.m"}) >> \o moveTo("a", "m") \o moveTo("b", "m")
MoveBack     == bootDisk \o << Check, Refuse({"at.a"}) >> \o moveTo("m", "a")

(* Mutant: a resized disk keeps the new name when the config is not saved.  *)
renameAndSaveLeaves(x, y) ==
  << Look("fixed", "explicit"), When({"explicit"}, dbSaveConfig(x)) >>
  \o UnlessAll({"explicit"},
       Attempt("pinned", << Refuse({"file." \o y}) >> \o rename(x, y))
       \o << Unless({"pinned"}, dbSaveConfig(y)), When({"pinned"}, saveFixed(x)) >>)

(* The name holds the size: a generated one is renamed, or else pinned, and *)
(* the config saved; the rename is undone if it cannot be.  A path that is  *)
(* fixed stays.                                                             *)
renameAndSave(x, y) ==
  << Look("fixed", "explicit"), When({"explicit"}, dbSaveConfig(x)) >>
  \o UnlessAll({"explicit"},
       Attempt("pinned", << Refuse({"file." \o y}) >> \o rename(x, y))
       \o Attempt("unsaved", << Unless({"pinned"}, dbSaveConfig(y)), When({"pinned"}, saveFixed(x)) >>)
       \o WhenAll({"unsaved"}, UnlessAll({"pinned"},
            Attempt("lost", rename(y, x)) \o << When({"lost"}, Do({"strayed"})) >>) \o << Refuse({}) >>))

(* ResizeBootDisk grows the image where it is, then renames it; no scenario *)
(* resizes a disk more than twice.  A moved one has its path fixed.         *)
imageVirtualSize == Check
ResizeBootDisk ==
  bootDisk \o << Check, imageVirtualSize, Pick({"smaller"}), Refuse({"smaller"}), Check >>
  \o WhenAll({"at.a"}, renameAndSave("a", "b")) \o WhenAll({"at.b"}, renameAndSave("b", "c"))
  \o << When({"at.m"}, dbSaveConfig("m")) >>

(* The commands stop a VM that runs and start it again.                     *)
around(steps) ==
  << Check, Look(alive, "was.running"), When({"was.running"}, Pick({"agreed"})) >>
  \o << When({"was.running"}, Unless({"agreed"}, Refuse({}))) >>
  \o WhenAll({"was.running"}, Stop_) \o steps
  \o << StopUnless("was.running"), Pick({"again"}), StopUnless("again") >> \o Start
moveCmd == around(MoveBootDisk)
moveBackCmd == around(MoveBack)
resizeCmd == around(ResizeBootDisk)

-----------------------------------------------------------------------------
(* A moved disk with a generated name is vee's to delete.                   *)
relocatedBootDisk == WhenAll({"gen"}, << Look("cfg.m", "relocated") >>)
inVMDir == Has("a") \cup Has("b") \cup Has("c")
deleteVMDir == << Check, TryClear(inVMDir \cup {"vars", "seed"}), TryClear({"vmdir"}) >>

(* Delete: a state that cannot be read does not stop it.                    *)
Delete_ ==
  Attempt("unreadable", << Check >>) \o << Unless({"unreadable"}, Refuse({alive})) >>
  \o Attempt("noconfig", << Part({"stuck"}, Check) >> \o relocatedBootDisk)
  \o << Clear({"had.disk"}), dbDeleteVM, When({"relocated"}, Part({"stuck"}, BestClear(Has("m")))), Best({}) >> \o deleteVMDir

-----------------------------------------------------------------------------
DiskTable ==
  "vm.open" :> Open @@ "vm.create" :> Create @@ "vm.start" :> Start @@ "vm.stop" :> Stop_
  @@ "vm.move" :> moveCmd @@ "vm.back" :> moveBackCmd @@ "vm.resize" :> resizeCmd @@ "vm.delete" :> Delete_

installed == {"row", "cfg.a", "file.a", "data.a", "had.disk", "vmdir"}
generated == installed \cup {"gen"}
explicit  == installed \cup {"fixed"}
running == {"boot.a", alive}
one(js, w) == [jobs |-> [p1 |-> js, p2 |-> <<>>], world |-> w]

DiskScenarios ==
  {one(<<"vm.move", "vm.start", "vm.stop", "vm.delete">>, w) : w \in
     {generated, generated \cup {"exdev"}, explicit \cup running \cup {"exdev"}}}
  \cup {one(<<"vm.resize", "vm.resize", "vm.start">>, w) : w \in
          {generated, generated \cup running, generated \cup {"file.b"}, explicit}}
  \cup {one(<<"vm.resize", "vm.move", "vm.resize", "vm.start">>, generated),
        one(<<"vm.move", "vm.resize", "vm.back", "vm.resize", "vm.start">>, generated),
        one(<<"vm.move", "vm.back", "vm.move", "vm.start">>, generated \cup {"exdev"}),
        one(<<"vm.resize", "vm.start", "vm.stop", "vm.move", "vm.resize", "vm.delete">>, generated),
        one(<<"vm.create", "vm.start">>, {"file.a"}), one(<<"vm.create", "vm.start">>, {"darwin", "gen", "seedfiles"}),
        one(<<"vm.open", "vm.open">>, {"yaml.v", "yaml.w"}), one(<<"vm.open">>, {"ver.old"}),
        [jobs |-> [p1 |-> <<"vm.move">>, p2 |-> <<"vm.start">>], world |-> explicit]}

-----------------------------------------------------------------------------
(* A guest that has a disk boots from it, after moves there and back and    *)
(* resizes, and after any call of them that fails: the config names the     *)
(* file, so Start never makes an empty disk in its stead.  Only a death     *)
(* between the rename and the save, a way back that fails too, or a start   *)
(* during the move can part them (MoveBootDisk, ResizeBootDisk).            *)
BootsFromItsDisk ==
  \A x \in Places :
    "boot." \o x \in world /\ datas \cap world # {}
      => \/ "data." \o x \in world
         \/ "strayed" \in world \/ Overlap \/ died("vm.move") \/ died("vm.back") \/ died("vm.resize")

(* Whatever fails or dies, and also when the guest was started on an empty  *)
(* disk in between, the guest's disk is whole at some place until the VM is *)
(* deleted: no move and no resize goes over it or removes its only copy.    *)
DiskSurvives == "had.disk" \in world => datas \cap world # {}

(* A guest finds its disk, or the user can.                                 *)
GuestFindsItsDisk == BootsFromItsDisk /\ DiskSurvives

(* A VM that was deleted leaves no disk that vee made, also when the disk   *)
(* had been moved elsewhere under its generated name, and no row (Delete,   *)
(* relocatedBootDisk).  A move that died, that could not be taken back or   *)
(* that could not remove a copy, the half or the whole one, may leave a     *)
(* file no config names.                                                    *)
DeleteLeavesNothing ==
  \A p \in Procs : Ends(p, "vm.delete", "ok") /\ "stuck" \notin world' =>
     /\ (inVMDir \cup {"row"}) \cap world' = {}
     /\ "gen" \in world' => \/ "file.m" \notin world' \/ died("vm.move") \/ untidy("vm.move")
                            \/ {"strayed", "copy.left"} \cap world' # {}

(* VMs of an older vee are taken over: once the database has its version,   *)
(* every VM whose file could be read has its row, however often the first   *)
(* opening failed or was cut off (initSchema, migrateFromYAML).             *)
MigrationIsWhole ==
  \A v \in {"v", "w"} :
    {"ver", "yaml." \o v} \subseteq world => {"row." \o v, "passed." \o v} \cap world # {}
=============================================================================
