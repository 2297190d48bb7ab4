----------------------------- MODULE HostSetup ------------------------------
(***************************************************************************)
(* What vee changes on the host itself: the driver a passthrough GPU is    *)
(* bound to and its power state (internal/gpu, vee gpu), the boot-time BAR *)
(* resize (vee gpu rebar), the system service (vee daemon install), and    *)
(* the package mirror (internal/mirror).  None of it is transactional: a   *)
(* command that fails or dies half way leaves the host half changed.       *)
(*                                                                         *)
(* Facts.  drv.d: the driver the GPU is bound to; ovr.d: driver_override.  *)
(* cold: it is in D3cold; wakes, resets: writing power/control, reset      *)
(* brings it back.  bar.a, bar.b: entries of rebar.conf, baked.x: as of    *)
(* the last initramfs.  hook, inst: the hook's two files; named: HOOKS     *)
(* names it.  x.half: file x was cut short.  unit.v: version of the unit   *)
(* or plist on disk, load.v: the one loaded, run.v: the daemon was started *)
(* from it; run.user: the user's own old unit runs.  stuck: a step whose   *)
(* failure is only a warning has failed.                                   *)
(***************************************************************************)
EXTENDS StepMachine, TLC

drivers   == {"drv.vfio", "drv.native"}
overrides == {"ovr.vfio", "ovr.native"}

(* Writing driver_override, then drivers_probe: the kernel binds an unbound *)
(* device to the overriding driver, or leaves it unbound.                   *)
setOverride(d) == TrySwap(overrides, {"ovr." \o d})
probe(d) ==
  << [Check EXCEPT !.pick = {"unbindable"}],
     Unless(drivers \cup {"unbindable"}, When({"ovr." \o d}, Do({"drv." \o d}))) >>

(* unbind, through the driver the device is bound to.                       *)
unbindFrom(d) == When({"drv." \o d}, TryClear({"drv." \o d}))

(* CurrentDriver.                                                           *)
CurrentDriver == Look("drv.native", "to.native")

BindVFIO ==
  << Require("root"), Check, Check, unbindFrom("native"), setOverride("vfio") >> \o probe("vfio")
  \o << Require("drv.vfio") >>

(* UnbindVFIO: binding to a named driver fails on a bound device.           *)
UnbindVFIO ==
  << Require("root"), unbindFrom("vfio"), TryClear(overrides),
     StopUnless("to.native"), Refuse({"drv.native"}), Refuse({"drv.vfio"}), Try({"drv.native"}) >>

gpuBindCmd == BindVFIO

(* vee gpu unbind: without --driver, the driver now bound, if not vfio-pci. *)
gpuUnbindCmd ==
  << Look("flag.driver", "to.native"), Unless({"flag.driver"}, CurrentDriver) >> \o UnbindVFIO

(* RebindReset: through the native driver and back.  An override is cleared *)
(* only when the first probe's write fails.                                 *)
RebindReset ==
  << unbindFrom("vfio"), unbindFrom("native"), setOverride("native") >>
  \o Attempt("noprobe", << Check >>)
  \o << When({"noprobe"}, BestClear(overrides)), Refuse({"noprobe"}) >>
  \o << [Step EXCEPT !.pick = {"unbindable"}],
        Unless(drivers \cup {"unbindable"}, When({"ovr.native"}, Do({"drv.native"}))) >>
  \o << Require("drv.native"), unbindFrom("native"), setOverride("vfio") >>
  \o << Check, [Step EXCEPT !.pick = {"unbindable.again"}],
        Unless(drivers \cup {"unbindable.again"}, When({"ovr.vfio"}, Do({"drv.vfio"}))),
        Require("drv.vfio") >>

-----------------------------------------------------------------------------
(* WakeDevice and Reset write one sysfs file and poll for ten seconds.      *)
WakeDevice == << Check, When({"wakes"}, Clear({"cold"})), Refuse({"cold"}) >>
Reset == << Check, When({"resets"}, Clear({"cold"})), Refuse({"cold"}) >>

(* ReadDeviceState and NeedsReset: only D3cold keeps VFIO from the device.   *)
powerState == Look("cold", "was.cold")

(* EnsureReady: nothing for a device with power; else a wake, then a reset. *)
EnsureReady ==
  << powerState >>
  \o WhenAll({"was.cold"}, Attempt("asleep", WakeDevice))
  \o << When({"asleep"}, Look("resettable", "can.reset")),
        When({"asleep", "cold"}, Require("can.reset")) >>
  \o WhenAll({"asleep", "cold"}, Reset)

(* PreflightCheck only looks; what it finds is logged, or shown by status.  *)
PreflightCheck ==
  << [Step EXCEPT !.look = {<<"cold", "bad">>, <<"drv.native", "bad">>}],
     Unless(drivers, Look("root", "bad")) >>
gpuStatusCmd == PreflightCheck \o << Refuse({"bad"}) >>

(* The passthrough part of buildMachine: a device still without power ends  *)
(* the start, a failed rebind does not; then QEMU is given the device.      *)
vfioOpts ==
  PreflightCheck \o Attempt("notready", EnsureReady)
  \o << Refuse({"notready", "cold"}) >>
  \o Attempt("noreset", WhenAll({"rebind"}, RebindReset))
  \o << When({"noreset"}, Do({"warned"})), Do({"handed"}) >>

-----------------------------------------------------------------------------
(* sudoWriteCmd: tee truncates the file and writes it in place.             *)
sudoWriteCmd(dels, adds, half) == Part({half}, TrySwap(dels \cup {half}, adds))
sudoWrite(dels, adds, half) == sudoWriteCmd(dels, adds, half)

(* readRebarConf: the entries as they are; a malformed line is an error.    *)
bars == {"a", "b"}
readRebarConf ==
  << Refuse({"conf.half"}),
     [Check EXCEPT !.look = {<<"bar." \o x, "had." \o x>> : x \in bars}] >>

other(x) == CHOOSE y \in bars : y # x

(* RenderRebarConf of the entries read, with MergeRebarEntry or             *)
(* RemoveRebarEntry applied, replaces the file.                             *)
writeConf(x, mine) ==
  LET all == {"bar." \o y : y \in bars} IN
  << When({"had." \o other(x)}, sudoWrite(all, {"bar." \o other(x)} \cup mine, "conf.half")),
     Unless({"had." \o other(x)}, sudoWrite(all, mine, "conf.half")) >>

MergeRebarEntry(x) == writeConf(x, {"bar." \o x})
RemoveRebarEntry(x) == writeConf(x, {})

(* regenInitramfs: mkinitcpio runs the named hooks, which must be there,    *)
(* and copies rebar.conf.                                                   *)
regenInitramfs ==
  << When({"named"}, Require("hook")), When({"named"}, Require("inst")), Refuse({"hooks.half"}),
     Part({"image.half"}, TryClear({"baked." \o y : y \in bars} \cup {"image.half"})) >>
  \o [i \in 1..2 |-> LET y == IF i = 1 THEN "a" ELSE "b" IN
                     When({"named", "bar." \o y}, Do({"baked." \o y}))]

(* ensureMkinitcpioHook rewrites HOOKS unless it already is as wanted.      *)
ensureMkinitcpioHook(want) ==
  << Refuse({"hooks.half"}), Check,
     IF want THEN Unless({"named"}, sudoWrite({}, {"named"}, "hooks.half"))
             ELSE When({"named"}, sudoWrite({"named"}, {}, "hooks.half")) >>

(* rebarInstall: three files in the order a Go map happens to yield, two of *)
(* the orders standing for all; then HOOKS; then a new initramfs.           *)
hookFiles == << sudoWrite({}, {"hook"}, "hook.half"), sudoWrite({}, {"inst"}, "inst.half") >>

(* Mutant: HOOKS names the hook before its files are written.               *)
rebarInstallNamesFirst(x) ==
  << Check, Check, Check >> \o readRebarConf \o << Check >>
  \o ensureMkinitcpioHook(TRUE) \o MergeRebarEntry(x) \o hookFiles \o regenInitramfs

rebarInstall(x) ==
  << Check, Check, Check >> \o readRebarConf
  \o << Check, Pick({"conf.last"}) >>
  \o UnlessAll({"conf.last"}, MergeRebarEntry(x)) \o hookFiles
  \o WhenAll({"conf.last"}, MergeRebarEntry(x))
  \o ensureMkinitcpioHook(TRUE) \o regenInitramfs

(* rebarUninstall: the last entry takes the files and the hook with it.     *)
rebarUninstall(x) ==
  readRebarConf \o << Require("had." \o x) >>
  \o WhenAll({"had." \o other(x)}, RemoveRebarEntry(x))
  \o UnlessAll({"had." \o other(x)},
       << TryClear({"bar." \o y : y \in bars} \cup {"hook", "inst"}) >> \o ensureMkinitcpioHook(FALSE))
  \o regenInitramfs

-----------------------------------------------------------------------------
(* installVFIOModprobeConf and uninstallLegacyUserUnit: their errors are    *)
(* warnings of daemonInstall.                                               *)
installVFIOModprobeConf ==
  << Look("modprobe", "same"), Stop({"same"}),
     sudoWriteCmd({}, {"modprobe"}, "modprobe.half"), Best({"initramfs"}) >>

uninstallLegacyUserUnit ==
  << Part({"stuck"}, Check), StopUnless("unit.user"), Part({"stuck"}, BestClear({"run.user"})),
     Part({"stuck"}, TryClear({"unit.user"})), Best({}) >>

installPolkitRule == << sudoWriteCmd({}, {"polkit"}, "polkit.half") >>
installUdevRule == << Check, Check, sudoWriteCmd({}, {"udev"}, "udev.half"), Best({"udev.on"}), Best({}) >>

units == {"unit.old", "unit.new"}
runs  == {"run.old", "run.new"}

(* systemctl: daemon-reload reads the unit files, restart runs the daemon   *)
(* from what was read.                                                      *)
daemonReload ==
  << [Check EXCEPT !.look = {<<"unit.old", "re.old">>, <<"unit.new", "re.new">>}],
     When({"re.new"}, Swap({"load.old"}, {"load.new"})),
     When({"re.old"}, Unless({"re.new"}, Swap({"load.new"}, {"load.old"}))),
     Unless({"re.old", "re.new"}, Clear({"load.old", "load.new"})) >>
restart == << When({"load.new"}, TrySwap(runs, {"run.new"})), Unless({"load.new"}, TrySwap(runs, {"run.old"})) >>

installSystemdUnit ==
  << Check, Check, Check, sudoWriteCmd(units, {"unit.new"}, "unit.half") >>
  \o installPolkitRule \o installUdevRule \o daemonReload \o << Try({"enabled"}) >> \o restart

daemonInstall ==
  Attempt("nomod", installVFIOModprobeConf) \o Attempt("legacy", uninstallLegacyUserUnit)
  \o installSystemdUnit

uninstallSystemdUnit ==
  << Part({"stuck"}, BestClear({"enabled"} \cup runs)),
     TryClear(units \cup {"polkit", "udev"}), BestClear({"udev.on"}) >>
  \o daemonReload

(* The launchd job: bootstrap refuses a loaded one.                         *)
bootout == << When({"load.old"}, Part({"stuck"}, BestClear({"load.old"} \cup runs))),
              When({"load.new"}, Part({"stuck"}, BestClear({"load.new"} \cup runs))) >>
bootstrap == << Refuse({"load.old"}), Refuse({"load.new"}), Try({"load.new", "run.new"}) >>

(* launchdJobLoaded, and the plist compared byte by byte.                   *)
alreadyInstalled == << Stop({"unit.new", "load.new"}) >>

launchdInstall ==
  << Check, Check, Check, Best({"logdir"}) >> \o alreadyInstalled
  \o << sudoWriteCmd(units, {"unit.new"}, "unit.half") >>
  \o bootout \o bootstrap \o << Try({"enabled"}) >>

launchdUninstall == bootout \o << TryClear(units) >>

-----------------------------------------------------------------------------
(* The mirror's binary, extracted in place, is taken as installed if there  *)
(* is a file of its name.                                                   *)
downloadTarball == Part({"tar.half"}, TrySwap({"tar.half"}, {"tar"}))
extractPacolocoBinary == << Check, Part({"paco", "cut"}, Try({"paco", "paco.whole"})) >>

EnsureBinary ==
  << Stop({"paco"}), Check, Check, downloadTarball, Undo({"tar"}, Step) >> \o extractPacolocoBinary
  \o << Try({}), Clear({"tar"}) >>

mirrorInstall ==
  << Check, Try({"dirs"}) >> \o Attempt("nobin", EnsureBinary) \o << Refuse({"nobin"}) >>
  \o << Part({"pconf.half"}, TrySwap({"pconf.half"}, {"pconf"})), Part({"punit.half"}, TrySwap({"punit.half"}, {"punit"})), Check >>
mirrorStart == mirrorInstall \o << Try({"paco.on"}) >>
mirrorStop  == << BestClear({"paco.on"}) >>
Purge == << Check, TryClear({"cache"}) >>

-----------------------------------------------------------------------------
HostTable ==
  "gpu.bind" :> gpuBindCmd @@ "gpu.unbind" :> gpuUnbindCmd @@ "gpu.status" :> gpuStatusCmd
  @@ "gpu.start" :> vfioOpts
  @@ "rebar.a" :> rebarInstall("a") @@ "rebar.b" :> rebarInstall("b")
  @@ "unrebar.a" :> rebarUninstall("a") @@ "unrebar.b" :> rebarUninstall("b")
  @@ "svc.install" :> daemonInstall @@ "svc.uninstall" :> uninstallSystemdUnit
  @@ "job.install" :> launchdInstall @@ "job.uninstall" :> launchdUninstall
  @@ "mirror.start" :> mirrorStart @@ "mirror.stop" :> mirrorStop @@ "mirror.purge" :> Purge

HostScenarios ==
  {[jobs |-> [p1 |-> <<"gpu.bind", "gpu.start">>, p2 |-> <<"gpu.status", "gpu.unbind">>],
    world |-> {"root", "drv.native", "flag.driver"}],
   [jobs |-> [p1 |-> <<"gpu.start", "gpu.bind">>, p2 |-> <<>>], world |-> {"root", "drv.vfio", "ovr.vfio", "cold", "wakes", "rebind"}],
   [jobs |-> [p1 |-> <<"gpu.start", "gpu.unbind">>, p2 |-> <<>>], world |-> {"drv.vfio", "ovr.vfio", "cold", "resettable", "resets"}],
   [jobs |-> [p1 |-> <<"gpu.start">>, p2 |-> <<>>], world |-> {"drv.vfio", "ovr.vfio", "cold", "resettable"}],
   [jobs |-> [p1 |-> <<"rebar.a", "unrebar.a", "rebar.a">>, p2 |-> <<>>], world |-> {}],
   [jobs |-> [p1 |-> <<"rebar.a", "rebar.b", "unrebar.a">>, p2 |-> <<>>], world |-> {}],
   [jobs |-> [p1 |-> <<"unrebar.b", "rebar.a">>, p2 |-> <<>>],
    world |-> {"bar.a", "bar.b", "hook", "inst", "named", "baked.a", "baked.b"}],
   [jobs |-> [p1 |-> <<"svc.install", "svc.uninstall">>, p2 |-> <<>>], world |-> {"unit.user", "run.user"}],
   [jobs |-> [p1 |-> <<"svc.install", "svc.install">>, p2 |-> <<>>], world |-> {"unit.old", "load.old", "run.old", "enabled", "modprobe"}],
   [jobs |-> [p1 |-> <<"job.install", "job.install", "job.uninstall">>, p2 |-> <<>>], world |-> {"unit.old", "load.old", "run.old"}],
   [jobs |-> [p1 |-> <<"mirror.start", "mirror.stop", "mirror.start">>, p2 |-> <<"mirror.purge">>], world |-> {"cache"}]}

-----------------------------------------------------------------------------
(* QEMU is never handed a GPU without power, on which it aborts: a start    *)
(* whose wake and reset did not help is refused.                            *)
NoColdHandover == "handed" \in world => "cold" \notin world

(* A bind that succeeded has bound the device, even when the kernel's probe *)
(* silently did nothing; only another command may have changed it since.    *)
BindIsTrue ==
  \A p \in Procs : Ends(p, "gpu.bind", "ok") /\ ~Overlap => "drv.vfio" \in world'

(* HOOKS names the resize hook only while the hook's files are there, or    *)
(* every later initramfs build on the host fails.  Only a removal that      *)
(* failed or died between deleting the files and rewriting HOOKS breaks     *)
(* this, or two commands at once; a second removal cannot repair it,        *)
(* because the entry is gone.                                               *)
HookHasFiles ==
  AtRest /\ ~Overlap /\ "named" \in world /\ ~{"hook", "inst"} \subseteq world
    => \E x \in bars, r \in {"err", "died"} : <<"unrebar." \o x, r>> \in ended

(* A resize reported as installed is in the initramfs the host boots next,  *)
(* with every entry installed before it, whatever an earlier command left.  *)
InstalledIsBaked ==
  \A p \in Procs, x \in bars :
    Ends(p, "rebar." \o x, "ok") =>
      \A y \in bars : y = x \/ "bar." \o y \in world => {"bar." \o y, "baked." \o y} \subseteq world'

(* The service's daemon and one started by an old unit of the user never    *)
(* run together, unless removing the old unit failed.                       *)
OneDaemon == {"run.user", "run.new"} \subseteq world => "stuck" \in world

(* After a successful install the daemon that runs was started from the     *)
(* unit or plist just written.                                              *)
DaemonIsCurrent ==
  \A p \in Procs : Ends(p, "svc.install", "ok") \/ Ends(p, "job.install", "ok")
    => {"unit.new", "load.new", "run.new"} \subseteq world' /\ "run.old" \notin world'

(* The mirror is started on a whole binary, unless an extraction was cut    *)
(* short before, whose remains every later start takes for the binary.      *)
MirrorIsWhole == "paco.on" \in world => "paco.whole" \in world \/ "cut" \in world
=============================================================================
