----------------------------- MODULE MCCommands -----------------------------
(***************************************************************************)
(* What needs no fairness.  A behaviour runs one part, chosen at the       *)
(* start: the procedures of vee's commands and of its guests' first boots, *)
(* run by two processes in every scenario of every family ("steps"); a VM  *)
(* from the request to its starts ("machine"); the shared SSH client of a  *)
(* tunnel ("client"); the programs of the terminal interface ("screens",   *)
(* "form", "editor", "wizard", "picker", "browser").                       *)
(***************************************************************************)
EXTENDS MacGuest, Images, Installs, Backups, Runners, Disks, HostSetup,
        KillSwitch, Provisioning, Machines, SSHClients, Screens, Forms, Editors, Pickers

VARIABLE chosen

terminalVars == <<screenVars, formVars, editorVars, wz, pickerVars, hp>>
commandVars == <<chosen, stepVars, machineVars, clientVars, terminalVars>>

TwoProcs == {"p1", "p2"}

Table ==
  [p \in TwoProcs |->
     MacTable(p) @@ ImageTable(p) @@ InstallTable(p) @@ BackupTable
     @@ RunnerTable(p) @@ DiskTable @@ HostTable @@ SwitchTable @@ ProvisionTable]

TheCode == Table

(* Two failures or deaths, or one in the long boots with a kill switch.     *)
spending(n, scenarios) == {[jobs |-> s.jobs, world |-> s.world, spent |-> n] : s \in scenarios}

TheScenarios ==
  spending(0, MacScenarios \cup ImageScenarios \cup InstallScenarios \cup BackupScenarios
                \cup RunnerScenarios \cup DiskScenarios \cup HostScenarios \cup ProvisionScenarios)
  \cup spending(1, SwitchScenarios)

-----------------------------------------------------------------------------
(* Hosts and requests.                                                      *)
TheHosts ==
  {[os |-> "linux", arch |-> "x86_64", gl |-> TRUE, cpu |-> "host"],
   [os |-> "darwin", arch |-> "aarch64", gl |-> FALSE, cpu |-> "x86 model"],
   [os |-> "linux", arch |-> "aarch64", gl |-> TRUE, cpu |-> "host"]}

ask0 ==
  [template |-> "server", distro |-> "", emulate |-> FALSE, gpu |-> "", gl |-> FALSE,
   venus |-> "", hostmem |-> FALSE, headless |-> "", spice |-> FALSE, disk |-> FALSE,
   data |-> <<>>, boot |-> "", path |-> FALSE, noauto |-> FALSE, share |-> FALSE,
   tag |-> FALSE, ro |-> FALSE, lib |-> "", prompts |-> TRUE, qbin |-> FALSE, bootvga |-> FALSE,
   uefi |-> ""]

DisplayAsks ==
  {[ask0 EXCEPT !.template = t, !.emulate = e, !.gpu = g, !.gl = l, !.venus = v,
                !.hostmem = m, !.headless = hl, !.spice = s] :
     t \in {"desktop", "gaming-bazzite", "server"}, e \in BOOLEAN,
     g \in {"", "virtio", "passthrough"}, l \in BOOLEAN, v \in {"", "T"},
     m \in BOOLEAN, hl \in {"", "F"}, s \in BOOLEAN}

WindowsAsks ==
  {[ask0 EXCEPT !.template = "windows", !.gpu = g, !.qbin = q, !.bootvga = b,
                !.spice = s, !.hostmem = m, !.disk = d] :
     g \in {"", "helios"}, q \in BOOLEAN, b \in BOOLEAN, s \in BOOLEAN,
     m \in BOOLEAN, d \in BOOLEAN}

DiskAsks ==
  {[ask0 EXCEPT !.template = t, !.emulate = TRUE, !.disk = d, !.data = dd,
                !.boot = b, !.path = p, !.noauto = n] :
     t \in {"", "omarchy", "truenas", "windows", "ubuntu-server", "passthrough",
            "devbox", "gaming-arch"},
     d \in BOOLEAN, dd \in {<<>>, <<"qcow">>, <<"qcow", "qcow">>, <<"dev", "dev2">>, <<"dev", "dir">>},
     b \in {"", "qcow", "dev"}, p \in BOOLEAN, n \in BOOLEAN}

CloudTemplates ==
  {"torrent", "devbox", "desktop", "server", "docker", "jellyfin", "dns-sink", "bitmagnet",
   "github-runner"}

CloudAsks ==
  {[ask0 EXCEPT !.template = t, !.distro = ds, !.emulate = e, !.prompts = pr] :
     t \in CloudTemplates, ds \in {"", "arch", "alpine", "omarchy"}, e \in BOOLEAN, pr \in BOOLEAN}
  \cup
  {[ask0 EXCEPT !.template = t, !.prompts = pr, !.share = s, !.lib = l, !.ro = s, !.tag = s] :
     t \in CloudTemplates, pr \in BOOLEAN, s \in BOOLEAN, l \in {"", "dir", "lib"}}

ShareAsks ==
  {[ask0 EXCEPT !.template = t, !.gpu = g, !.share = TRUE, !.tag = tg, !.emulate = TRUE, !.ro = r] :
     t \in {"gaming-arch", "gaming-bazzite", "passthrough"}, g \in {"", "passthrough"},
     tg \in BOOLEAN, r \in BOOLEAN}

FirmwareAsks ==
  {[ask0 EXCEPT !.template = t, !.uefi = u, !.emulate = e] :
     t \in {"server", "desktop", "docker", "windows", "gaming-arch"}, u \in {"T", "F"}, e \in BOOLEAN}

TheAsks == FirmwareAsks \cup DisplayAsks \cup WindowsAsks \cup DiskAsks \cup CloudAsks \cup ShareAsks

-----------------------------------------------------------------------------
(* The terminal: two VMs; templates with and without a distribution; two    *)
(* hosts; a configuration with two disks and a SPICE entry without a port;  *)
(* a guest's directories in the order of their tree and out of it.          *)
TheTermOrder == <<"a", "b">>
TheFormTemplates == <<"ubuntu-server", "devbox", "torrent", "macos">>
TheFormDistros == <<"ubuntu", "arch">>
TheFormVersions == ("ubuntu" :> <<"24.04", "22.04">> @@ "arch" :> <<"latest">>)
TheFormHosts == {[devs |-> <<"sda", "sdb">>, arm |-> TRUE, mac |-> TRUE],
                 [devs |-> <<>>, arm |-> FALSE, mac |-> FALSE]}
TheEditLoads == {[CPUs |-> 4, Headless |-> TRUE, SPICEPort |-> 0,
                  disks |-> <<<<"disk", 1>>, <<"disk", 2>>>>]}
TheEditDevs == <<"sda">>
dir(depth, up, dot, hit) == [depth |-> depth, up |-> up, dot |-> dot, hit |-> hit]
ThePickTrees ==
  {<<dir(1, 0, TRUE, FALSE), dir(2, 1, FALSE, FALSE), dir(3, 2, FALSE, TRUE),
     dir(4, 3, FALSE, FALSE)>>,
   <<dir(1, 0, FALSE, FALSE), dir(2, 1, FALSE, FALSE), dir(3, 2, FALSE, TRUE),
     dir(2, 1, FALSE, FALSE)>>,
   <<dir(1, 0, FALSE, FALSE), dir(1, 0, FALSE, FALSE), dir(2, 1, FALSE, TRUE)>>}
TheHostDirs == ("r" :> <<"a", ".b">> @@ "a" :> <<>> @@ ".b" :> <<"c">> @@ "c" :> <<>>)
TheHostUp == ("r" :> "r" @@ "a" :> "r" @@ ".b" :> "r" @@ "c" :> ".b")

-----------------------------------------------------------------------------
(* A program of the terminal that does not run has no state.                *)
idle == "idle"
IdleScreens == trec = idle /\ scr = idle /\ lst = idle /\ frm = idle /\ mon = idle /\ fly = idle /\ polls = idle
IdleForm == fhost = idle /\ given = idle /\ form = idle /\ edits = idle
IdleEditor == ed = idle /\ loaded = idle /\ file = idle

TerminalInit ==
  /\ IF chosen = "screens" THEN ScreensInit ELSE IdleScreens
  /\ IF chosen = "form" THEN FormsInit ELSE IdleForm
  /\ IF chosen = "editor" THEN EditInit ELSE IdleEditor
  /\ IF chosen = "wizard" THEN WizardInit ELSE wz = idle
  /\ IF chosen = "picker" THEN PickersInit ELSE pk = idle /\ cache = idle
  /\ IF chosen = "browser" THEN BrowseInit ELSE hp = idle

Init ==
  /\ chosen \in {"steps", "machine", "client", "screens", "form", "editor", "wizard", "picker", "browser"}
  /\ IF chosen = "steps" THEN StepsInit
     ELSE world = {} /\ ps = [p \in Procs |-> Fresh(<<>>, <<"", "">>)] /\ ended = {} /\ faulty = 0
  /\ chosen # "machine" => ask = ask0 /\ host = [os |-> "linux", arch |-> "x86_64", gl |-> TRUE, cpu |-> "host"]
  /\ MachinesInit /\ ClientInit /\ TerminalInit

TerminalNext ==
  \/ chosen = "screens" /\ ScreensNext /\ UNCHANGED <<formVars, editorVars, wz, pickerVars, hp>>
  \/ chosen = "form" /\ FormsNext /\ UNCHANGED <<screenVars, editorVars, wz, pickerVars, hp>>
  \/ chosen = "editor" /\ EditNext /\ UNCHANGED <<screenVars, formVars, wz, pickerVars, hp>>
  \/ chosen = "wizard" /\ WizardNext /\ UNCHANGED <<screenVars, formVars, editorVars, pickerVars, hp>>
  \/ chosen = "picker" /\ PickersNext /\ UNCHANGED <<screenVars, formVars, editorVars, wz, hp>>
  \/ chosen = "browser" /\ browseKey /\ UNCHANGED <<screenVars, formVars, editorVars, wz, pickerVars>>

Next ==
  \/ chosen = "steps" /\ StepsNext /\ UNCHANGED <<chosen, machineVars, clientVars, terminalVars>>
  \/ chosen = "machine" /\ MachinesNext /\ UNCHANGED <<chosen, stepVars, clientVars, terminalVars>>
  \/ chosen = "client" /\ ClientNext /\ UNCHANGED <<chosen, stepVars, machineVars, terminalVars>>
  \/ TerminalNext /\ UNCHANGED <<chosen, stepVars, machineVars, clientVars>>

Spec == Init /\ [][Next]_commandVars

-----------------------------------------------------------------------------
(* What a later command finds under a name, a marker, a row or an entry is  *)
(* whole, wherever the procedure that made it failed or died: images,       *)
(* installs, the built virtiofsd, keys, backups, the migrated database, the *)
(* mirror.                                                                  *)
NamedIsWhole ==
  /\ RenamedIsWhole /\ MarkerMeansWhole /\ FetchedIsWhole /\ NoHalfKey
  /\ DoneIsComplete /\ MigrationIsWhole /\ MirrorIsWhole /\ BuildVMGone

(* The host stays usable: its initramfs can be built, no GPU without power  *)
(* is handed to QEMU, one daemon runs and one process signs.                *)
HostKept == HookHasFiles /\ NoColdHandover /\ OneDaemon /\ OneSigner

(* A guest's services run on what belongs to them, SSH stays open, and an   *)
(* installation counts as done only when it is; cut off anywhere.           *)
GuestsComeUpWhole ==
  /\ ShareBeforeService /\ ServiceHasItsData /\ SSHNotLockedOut
  /\ InstallIsWhole /\ RerunNotBlocked /\ FirstbootMarkerIsTrue /\ RestartsBounded

(* The result a procedure ends with is true of the world it leaves: an      *)
(* image is verified, media boot, a deleted VM is gone, a failed backup is  *)
(* offered again, a device is bound, a hook is baked, the daemon is the new *)
(* one, services are up, the address is pinned.                             *)
ResultsAreTrue ==
  [][/\ JobEnds =>
          /\ SuccessIsVerified /\ NoBlindDownload /\ BadTarballGoes
          /\ DeleteLeavesNothing /\ FailureIsOffered /\ BindIsTrue
          /\ InstalledIsBaked /\ DaemonIsCurrent /\ RefreshRepins
          /\ EverythingComesUp /\ PassingCheckIsWhole
     /\ MediaBoots /\ GCTakesOrphans]_stepVars

(* The screens keep up with the program they are part of, in whatever order *)
(* its commands and messages arrive: the list goes on being refreshed, and  *)
(* leaving the monitor by esc closes the connection it has by then.         *)
TerminalKeepsUp == chosen = "screens" => ScreensKeepUp

(* The forms and pickers do what they show: the create form submits what is *)
(* drawn, the editor keeps what was not edited, the wizard's devices exist, *)
(* and keys act on the row under the cursor.                                *)
FormsHold ==
  CASE chosen = "form"    -> FormSubmitsShown
    [] chosen = "editor"  -> DiskRowExists /\ EditKeepsRest
    [] chosen = "wizard"  -> WizardInRange
    [] chosen = "picker"  -> FoldsAgree /\ CursorOnRow
    [] chosen = "browser" -> BrowserOnRow
    [] OTHER              -> TRUE
=============================================================================
