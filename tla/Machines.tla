------------------------------ MODULE Machines ------------------------------
(***************************************************************************)
(* From a request to a running QEMU: build.Build turns the options and a  *)
(* template into a configuration, Manager.Create completes and stores it, *)
(* Manager.Start brings the install state forward and renders the command *)
(* line, again and again over the life of the VM.                         *)
(***************************************************************************)
EXTENDS Templates, FiniteSets, SequencesExt

CONSTANTS
  Hosts,    \* hosts: operating system, architecture, whether QEMU has GL, and
            \* the CPU model of the settings
  Asks      \* requests: what the user may ask `vee create` for

VARIABLES
  host,     \* the host the VM lives on
  ask,      \* the options of its creation
  mphase,   \* asked, built, off, running, stale (record says running), refused
  mcfg,     \* the stored configuration
  inst,     \* the stored install state
  argv,     \* the command line of the last start
  gone,     \* the cached ISOs have been deleted
  settled   \* history: a start found the installation finished

machineVars == <<host, ask, mphase, mcfg, inst, argv, gone, settled>>

(* Building the configuration ----------------------------------------- *)

isDisk(d) == d.media = "disk"

only(disks, Keep(_)) == SelectSeq(disks, Keep)

\* Scalars: firmware, GPU mode, binary and acceleration as asked; SPICE
\* appears when a port is asked for.
overrideScalars(c, o) ==
  [c EXCEPT !.uefi = IF o.uefi = "" THEN @ ELSE o.uefi = "T", !.gpu = IF o.gpu = "" THEN @ ELSE o.gpu,
            !.qbin = @ \/ o.qbin, !.gl = @ \/ o.gl,
            !.venus = IF o.venus = "" THEN @ ELSE o.venus = "T",
            !.hostmem = @ \/ o.hostmem, !.spice = @ \/ o.spice]

\* --virtiofs-dir: a directory the template already shares keeps its
\* entry, with the tag and read-only flag asked for; a new one is appended.
overrideShare(c, o) ==
  LET mine == {i \in DOMAIN c.mounts : c.mounts[i].dir = "dir"}
      i    == CHOOSE i \in mine : \A j \in mine : i <= j
  IN  CASE ~o.share  -> c
        [] mine = {} -> [c EXCEPT !.mounts =
                           Append(@, mount("dir", IF o.tag THEN "mine" ELSE "share", o.ro))]
        [] OTHER     -> [c EXCEPT !.mounts[i].tag = IF o.tag THEN "mine" ELSE @,
                                  !.mounts[i].ro = o.ro]

overrideDiskFirst(c, o) ==
  IF o.disk
  THEN [c EXCEPT !.disks = <<[osDisk("virtio", "empty") EXCEPT !.id = "extra"]>> \o @]
  ELSE c

\* --disk: an empty disk, behind everything the template attached.
overrideDisk(c, o) ==
  IF o.disk
  THEN [c EXCEPT !.disks = Append(@, [osDisk("virtio", "empty") EXCEPT !.id = "extra"])]
  ELSE c

\* --no-auto-install --boot-disk: the user's disk is the system disk, the
\* qcow2 disks present so far go.
dropTemplateDisks(c, o) ==
  IF o.noauto /\ o.boot # ""
  THEN [c EXCEPT !.disks = only(@, LAMBDA d : d.own = "user" \/ d.fmt # "qcow2")]
  ELSE c

\* What a path given as --data-disk or --boot-disk is: block devices are
\* attached raw, image files with the format qemu-img reports, anything
\* else is refused.
classifyDisk(path) ==
  CASE path \in {"dev", "dev2"} -> {rawDevice(path)}
    [] path = "qcow"            -> {[rawDevice(path) EXCEPT !.fmt = "qcow2"]}
    [] OTHER                    -> {}

\* The data disks and the boot disk, each path once.
userDisks(o) ==
  IF o.boot = "" \/ o.boot \in Range(o.data) THEN o.data ELSE Append(o.data, o.boot)

\* Appends the user's disks; the boot disk is marked.
overrideUserDisks(c, o) ==
  LET all   == userDisks(o)
      entry(p) == [(CHOOSE d \in classifyDisk(p) : TRUE)
                     EXCEPT !.boot = IF p = o.boot THEN 1 ELSE 0]
  IN  IF c.template = "truenas" THEN {c}
      ELSE IF \E i \in DOMAIN all : classifyDisk(all[i]) = {} THEN {}
      ELSE {[c EXCEPT !.disks = @ \o [i \in DOMAIN all |-> entry(all[i])]]}

\* --boot-disk-path moves the first disk vee creates.
moveBootDisk(c, o) ==
  LET mine == {i \in DOMAIN c.disks : /\ c.disks[i].own = "vee"
                                      /\ isDisk(c.disks[i])
                                      /\ c.disks[i].fmt = "qcow2"}
      i    == CHOOSE i \in mine : \A j \in mine : i <= j
  IN  IF ~o.path \/ mine = {} THEN c ELSE [c EXCEPT !.disks[i].moved = TRUE]

\* Headless as asked; nothing to install when told so, or when the user
\* only brought a boot disk.
overrideRest(c, o) ==
  [c EXCEPT !.headless = IF o.headless = "" THEN @ ELSE o.headless = "T",
            !.skip = o.noauto \/ (o.template = "" /\ o.boot # "")]

\* Helios is a driver of the windows template, on VNC.
validateHelios(c, o) ==
  /\ c.gpu = "helios"
  /\ c.template = "windows"
  /\ ~c.headless
  /\ ~c.spice
  /\ ~o.gl /\ o.venus = ""
  /\ c.qbin

\* Some virtio-GPU acceleration was asked for.
asksAccel(o) == o.gl \/ o.venus = "T" \/ o.hostmem

\* Acceleration settings that would be ignored are refused: they need the
\* virtio GPU, a window, and no SPICE; hostmem needs Venus.
validateGPUAccel(c, o) ==
  IF c.gpu = "helios" \/ o.bootvga THEN validateHelios(c, o)
  ELSE IF c.gpu # "virtio" THEN ~asksAccel(o)
  ELSE /\ asksAccel(o) => ~c.headless /\ ~c.spice
       /\ o.hostmem => c.venus

applyOverrides(c, o) ==
  LET disks == dropTemplateDisks(overrideDisk(overrideShare(overrideScalars(c, o), o), o), o)
  IN  {d \in {overrideRest(moveBootDisk(u, o), o) : u \in overrideUserDisks(disks, o)} :
         validateGPUAccel(d, o)}

\* virtiofsd exists on Linux only.
validateVirtiofsRequest(o, h) == o.share => h.os = "linux"

\* The configurations `vee create` can arrive at: none is a refusal.  An
\* architecture nobody asked to emulate never passes.
Build(o, h) ==
  IF (o.template = "" /\ o.boot = "" /\ o.data = <<>>) \/ ~validateVirtiofsRequest(o, h)
  THEN {}
  ELSE UNION {applyOverrides(c, o) :
                c \in {t \in configFromTemplate(o, h) :
                         t.arch \in {"", h.arch} \/ o.emulate}}

build ==
  /\ mphase = "asked"
  /\ \/ \E c \in Build(ask, host) : mphase' = "built" /\ mcfg' = c
     \/ mphase' = "refused" /\ UNCHANGED mcfg      \* refused, or a download failed
  /\ UNCHANGED <<host, ask, inst, argv, gone, settled>>

(* Creating the VM ---------------------------------------------------- *)

\* The aarch64 board has no BIOS: UEFI on every VM of such a host.
uefiForced(c, h) == [c EXCEPT !.uefi = @ \/ h.arch = "aarch64"]

createVarsHost(c, h) == IF c.uefi /\ c.vars = "" THEN [c EXCEPT !.vars = h.arch] ELSE c

\* The VM's own copy of the firmware variables: the user's, or the
\* template of the guest's architecture.
createVars(c, h) ==
  IF c.uefi /\ c.vars = ""
  THEN [c EXCEPT !.vars = IF c.arch \in {"", h.arch} THEN h.arch ELSE c.arch]
  ELSE c

\* The cloud-init or installer seed, as one more ISO of the VM's own.
attachSeed(c, h) ==
  IF c.seed = "" THEN c
  ELSE [c EXCEPT !.disks =
          Append(@, [iso("seed", IF h.arch = "aarch64" THEN "virtio" ELSE "ide", "seed")
                       EXCEPT !.own = "vee"])]

createVM ==
  /\ mphase = "built"
  /\ \/ /\ mphase' = "off"
        /\ mcfg' = attachSeed(createVars(uefiForced(mcfg, host), host), host)
     \/ mphase' = "refused" /\ UNCHANGED mcfg      \* the data warning, a failed copy
  /\ UNCHANGED <<host, ask, inst, argv, gone, settled>>

(* The command line --------------------------------------------------- *)

guestArch(c, h) == IF c.arch = "" THEN h.arch ELSE c.arch

emulated(c, h) == guestArch(c, h) # h.arch

\* The QEMU that runs the guest: the other architecture's, the VM's own, or
\* the default one; Helios never runs on the default.
binary(c, h) ==
  IF emulated(c, h) THEN {guestArch(c, h)}
  ELSE IF c.qbin THEN {"own"}
  ELSE IF c.gpu = "helios" THEN {} ELSE {h.arch}

boardFor(arch) == IF arch = "aarch64" THEN "virt" ELSE "q35"

\* The board: the template's, the guest architecture's for an emulated
\* guest, or the provider's, which is the host's.
machineType(c, h) ==
  CASE c.board # ""   -> c.board
    [] emulated(c, h) -> boardFor(guestArch(c, h))
    [] OTHER          -> boardFor(h.arch)

\* The CPU model: x86 models do not exist on aarch64, and the host's own
\* needs a hardware accelerator.
cpuModel(c, h) ==
  LET m == IF guestArch(c, h) = "aarch64" /\ c.cpu \notin {"host", "max"} THEN "host" ELSE c.cpu
  IN  IF emulated(c, h) /\ m \in {"", "host"} THEN "max" ELSE m

\* The firmware code: pinned by the template, or of the guest's
\* architecture; empty is the BIOS.
firmware(c, h) ==
  CASE ~c.uefi     -> ""
    [] c.code # "" -> c.code
    [] OTHER       -> guestArch(c, h)

\* An installer whose file is gone is left out.
attached(c, lost) ==
  only(c.disks, LAMBDA d : ~(d.media = "cdrom" /\ d.own = "cache" /\ lost))

\* Headless, SPICE and emulated guests take the plain adapter.
virtioAdapter(c, h) ==
  IF c.headless \/ c.spice \/ emulated(c, h) \/ c.nogl THEN "2d" ELSE "gl"

\* The display adapter of each GPU mode, empty where the host refuses it.
adapter(c, h) ==
  CASE c.gpu = "virtio"      -> {virtioAdapter(c, h)}
    [] c.gpu = "passthrough" -> IF h.os = "linux" THEN {"vfio"} ELSE {}
    [] c.gpu = "helios"      -> IF h.os = "linux" /\ guestArch(c, h) = "x86_64"
                                   /\ ~emulated(c, h)
                                THEN {"helios"} ELSE {}
    [] OTHER                 -> {"none"}

\* Shares are served on Linux, elsewhere they are skipped.
served(c, h) == IF h.os = "linux" THEN c.mounts ELSE <<>>

\* The command line of a start, or none: no disk left, no binary, a GPU
\* mode the host cannot give.
buildMachine(c, h, i, lost) ==
  {[bin |-> b, arch |-> guestArch(c, h), board |-> machineType(c, h),
    accel |-> IF emulated(c, h) THEN "tcg" ELSE "hw",
    cpu |-> cpuModel(c, h),
    code |-> firmware(c, h), vars |-> IF c.uefi THEN c.vars ELSE "",
    disks |-> attached(c, lost), adapter |-> a,
    venus |-> a = "gl" /\ c.venus, hostmem |-> c.hostmem /\ (a = "helios" \/ (a = "gl" /\ c.venus)),
    mounts |-> served(c, h), memfd |-> c.gpu = "passthrough" \/ served(c, h) # <<>>,
    bootc |-> i = "ready", bootvga |-> c.bootvga, glqemu |-> h.gl] :
     b \in IF attached(c, lost) = <<>> THEN {} ELSE binary(c, h), a \in adapter(c, h)}

(* Starting ----------------------------------------------------------- *)

\* Installers, the scratch disk and the install-only devices go.
strip(c) ==
  [c EXCEPT !.disks = only(@, LAMBDA d : ~IsScratch(d) /\ ~IsInstallISO(d)),
            !.bootvga = FALSE]

\* The install state a start goes on with: nothing to install, a first
\* boot with an installer, or what was stored.
stateAtStart(c, i) ==
  CASE i = "" /\ c.skip -> "ready"
    [] i = "" /\ ~c.skip /\ \E d \in Range(c.disks) : IsInstallISO(d) -> "pending"
    [] OTHER -> i

\* The stored configuration after the install switch.
cfgAtStart(c, i) == IF stateAtStart(c, i) = "ready" THEN strip(c) ELSE c

\* A QEMU without GL dies at once on a GL display; the relaunch takes the
\* plain adapter, in a copy of the configuration.
retryStartWithoutGL(c, h) ==
  IF h.os = "darwin" /\ c.gpu = "virtio" /\ ~c.headless /\ ~c.spice
     /\ virtioAdapter(c, h) = "gl" /\ ~h.gl
  THEN [c EXCEPT !.nogl = TRUE] ELSE c

\* What Start stores: the stripped configuration, without the retry.
storedAtStart(c, h, i) == cfgAtStart(c, i)

\* A record that says running with no process behind it is started from a
\* blank state: the install state is forgotten.
startMachine ==
  LET before == IF mphase = "stale" THEN "" ELSE inst
      now    == stateAtStart(mcfg, before)
      c      == cfgAtStart(mcfg, before)
  IN  /\ mphase \in {"off", "stale"}
      /\ inst' = now
      /\ mcfg' = storedAtStart(mcfg, host, before)
      /\ \/ \E a \in buildMachine(retryStartWithoutGL(c, host), host, now, gone) :
              argv' = a /\ mphase' = "running"
         \/ mphase' = "off" /\ UNCHANGED argv
      /\ settled' = (settled \/ now = "ready")
      /\ UNCHANGED <<host, ask, gone>>

\* The guest reports the installation finished.
markInstalled ==
  /\ mphase = "running" /\ inst = "pending"
  /\ inst' = "ready"
  /\ UNCHANGED <<host, ask, mphase, mcfg, argv, gone, settled>>

\* The VM is stopped, or found dead and cleaned up, keeping the state; or
\* it dies unnoticed.
stopMachine ==
  /\ \/ mphase = "running" /\ mphase' \in {"off", "stale"}
     \/ mphase = "stale" /\ mphase' = "off"
  /\ UNCHANGED <<host, ask, mcfg, inst, argv, gone, settled>>

\* The user clears the ISO cache, or installs a QEMU with GL.
hostChanges ==
  /\ mphase = "off"
  /\ \/ ~gone /\ gone' = TRUE /\ UNCHANGED host
     \/ ~host.gl /\ host' = [host EXCEPT !.gl = TRUE] /\ UNCHANGED gone
  /\ UNCHANGED <<ask, mphase, mcfg, inst, argv, settled>>

NoConfig == [template |-> "none yet"]

MachinesInit ==
  /\ host \in Hosts /\ ask \in Asks
  /\ mphase = "asked" /\ mcfg = NoConfig /\ inst = "" /\ argv = NoConfig
  /\ gone = FALSE /\ settled = FALSE

MachinesNext == build \/ createVM \/ startMachine \/ markInstalled \/ stopMachine \/ hostChanges

(* Properties --------------------------------------------------------- *)

\* The architecture of the image the guest boots: the first disk that came
\* from one.
imageArchOf(disks, h) ==
  LET of == {disks[i].of : i \in DOMAIN disks} \ {"user", "empty", "seed"}
  IN  {ImageArch(d, h) : d \in of}

(* Every machine fits its guest.  Binary, board, firmware code and         *)
(* variables are of the architecture of the image behind the disks, and    *)
(* a foreign architecture runs only when --emulate was given, on TCG and   *)
(* never on the host's CPU model, an aarch64 guest never on an x86 model:  *)
(* six decisions of five functions, taken at different times, agree.       *)
MachineFitsGuest ==
  mphase = "running" =>
    /\ imageArchOf(argv.disks, host) \subseteq {argv.arch}
    /\ argv.bin \in {argv.arch, "own"}
    /\ argv.board = boardFor(argv.arch)
    /\ argv.code \in {"", argv.arch}
    /\ argv.vars \in {"", "user", argv.arch}
    /\ argv.code # "" => argv.vars # ""
    /\ argv.arch # host.arch => ask.emulate /\ argv.accel = "tcg" /\ argv.cpu \notin {"", "host"}
    /\ argv.arch = "aarch64" => argv.cpu \in {"host", "max"}

(* Acceleration that `vee create` accepted reaches QEMU: a guest with GL,  *)
(* Venus or host memory asked for gets the GL adapter (Helios, its own)    *)
(* with them on every start, while QEMU itself has GL.  An emulated guest  *)
(* does not: validateGPUAccel lets the request pass, and buildMachine      *)
(* gives every emulated guest the plain adapter.                           *)
AccelerationArrives ==
  mphase = "running" /\ asksAccel(ask) =>
    \/ argv.adapter = "gl" /\ argv.venus = (ask.venus = "T") /\ argv.hostmem = ask.hostmem
    \/ argv.adapter = "helios" /\ argv.hostmem
    \/ argv.adapter = "2d" /\ (argv.arch # host.arch \/ ~argv.glqemu)

\* The format a user's disk really has.
realFormat(id) == IF id = "qcow" THEN "qcow2" ELSE "raw"

\* How often a path was given.
times(p) == Cardinality({i \in DOMAIN ask.data : ask.data[i] = p})

(* Each disk the user brought is attached on every start, in its real      *)
(* format, and the one to boot from carries the boot index: through the    *)
(* override passes, the removal of the template's disks and the stripping  *)
(* of install media.  It is attached once, whether it was given as data    *)
(* disk, boot disk or both; a data disk given twice is attached twice.     *)
(* (The truenas template takes its own route.)                             *)
UserDisksKept ==
  mphase = "running" /\ ask.template # "truenas" =>
    \A p \in Range(ask.data) \cup ({ask.boot} \ {""}) :
      LET here == {i \in DOMAIN argv.disks : argv.disks[i].id = p} IN
      /\ Cardinality(here) = IF times(p) = 0 THEN 1 ELSE times(p)
      /\ \A i \in here : argv.disks[i].fmt = realFormat(p) /\ argv.disks[i].boot = IF p = ask.boot THEN 1 ELSE 0

(* The disk asked for with --disk is attached on every start, once.  With  *)
(* --no-auto-install --boot-disk it is not: the removal of the template's  *)
(* qcow2 disks takes it too.                                               *)
ExtraDiskKept ==
  mphase = "running" /\ ask.disk =>
    \/ Cardinality({i \in DOMAIN argv.disks : argv.disks[i].id = "extra"}) = 1
    \/ ask.noauto /\ ask.boot # ""

(* Windows Setup formats the last disk of the machine: while it is         *)
(* attached, that is the scratch disk.  A disk asked for besides (--disk,  *)
(* --data-disk, --boot-disk) comes behind it.                              *)
ScratchIsLast ==
  mphase = "running" /\ ask.template = "windows" /\ (\E d \in Range(argv.disks) : d.id = "iso") =>
    \/ IsScratch(Last(only(argv.disks, isDisk)))
    \/ ask.disk \/ ask.data # <<>> \/ ask.boot # ""

(* The first writable disk of a machine is its system disk: a disk asked   *)
(* for with --disk or --data-disk never slides in front of the disk the    *)
(* template installs or boots, and --boot-disk-path moves that one.        *)
SystemDiskFirst ==
  mphase = "running" /\ ask.boot = "" /\ ask.template # "" =>
    LET hard == only(argv.disks, isDisk) IN
    /\ hard # <<>>
    /\ hard[1].id \in {"os", "nvme"}
    /\ ask.path /\ hard[1].own = "vee" => hard[1].moved
    /\ \A i \in 2..Len(hard) : ~(hard[1].own = "vee" /\ hard[i].moved)

(* Install media are for the installation only.  Once a start has found    *)
(* the installation finished, no later start attaches an installer, a      *)
(* scratch disk or an install-only adapter, even when a crash makes the    *)
(* install state forgotten: the stripped configuration was stored.         *)
InstallMediaOneShot ==
  settled /\ mphase = "running" =>
    /\ \A d \in Range(argv.disks) : ~IsInstallISO(d) /\ ~IsScratch(d)
    /\ ~argv.bootvga

(* One virtiofsd per directory: a share asked for that the template        *)
(* already has is not served twice, and a machine with shares has the      *)
(* shareable memory they need.                                             *)
OneServerPerDir ==
  mphase = "running" =>
    /\ \A i, j \in DOMAIN argv.mounts : argv.mounts[i].dir = argv.mounts[j].dir => i = j
    /\ argv.mounts # <<>> => argv.memfd
    /\ ask.share => \E i \in DOMAIN argv.mounts :
                      argv.mounts[i].dir = "dir" /\ argv.mounts[i].ro = ask.ro

(* The sentence of the Alpine templates: their image is a BIOS image,      *)
(* which under UEFI firmware finds no bootable device, so their machines   *)
(* have none.  Create turns UEFI on for every VM of an aarch64 host, the   *)
(* emulated x86_64 ones included.                                          *)
BIOSImageHasBIOS ==
  mphase = "running" /\ (\E d \in Range(argv.disks) : d.id = "os" /\ d.of = "alpine")
    => argv.code = ""

(* What was asked for reaches every start, once and in order, and nothing   *)
(* of the installation outlives it (build, Create, Start).                  *)
RequestReachesGuest ==
  /\ AccelerationArrives /\ UserDisksKept /\ ExtraDiskKept /\ SystemDiskFirst /\ ScratchIsLast
  /\ InstallMediaOneShot /\ OneServerPerDir
=============================================================================
