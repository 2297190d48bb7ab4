---------------------------- MODULE Provisioning ----------------------------
(***************************************************************************)
(* What the other templates have their guests run (internal/templates):    *)
(* the commands of the first boot of a cloud image, which are run once and *)
(* whose failures are passed over; the install script of the Arch gaming   *)
(* guest, its first-boot service and its health check; the runner's        *)
(* registration and disk clean-up; the Helios watch on Windows.  A guest   *)
(* may be cut off anywhere.                                                *)
(*                                                                         *)
(* Facts.  file.x, pkg.x: x was written, installed; on.x: service x runs;  *)
(* fw: the firewall is on, ssh: it lets SSH in; net: the guest has an      *)
(* address.  Facts of the gaming guest begin with g., of the runner with   *)
(* r., of Helios with h.                                                   *)
(***************************************************************************)
EXTENDS StepMachine, TLC

files(xs) == {"file." \o x : x \in xs}
pkgs(xs)  == {"pkg." \o x : x \in xs}

(* cloud-init: write_files, then packages, then runcmd.                     *)
cloudConfig(fs, ps_) == << cmd(files(fs)), cmd(pkgs(ps_)) >>

(* A service starts only if what it needs is there.                         *)
start(x, needs) == When(needs, cmd({"on." \o x}))
agent == start("agent", {"file.agent", "pkg.socat"})

(* PackagesFor: the packages cloud-init installs, as far as a service here  *)
(* needs one.                                                               *)
PackagesFor(distro, category) ==
  CASE category = "server" -> IF distro = "arch" THEN {"ufw"} ELSE {"fw", "fail2ban"}
    [] category = "devbox" -> {"zsh"}
    [] OTHER -> {}

serverRunCmds(distro) ==
  CASE distro = "ubuntu" -> << cmd({"ssh"}), cmd({"fw"}), start("fail2ban", {"pkg.fail2ban"}), cmd({"pkg.socat"}), agent >>
    [] distro = "arch"   -> << cmd({"upgraded"}), cmd(pkgs({"fw", "socat"})), cmd({"on.sshd"}), cmd({"ssh"}), cmd({"fw"}), agent >>
    [] distro = "fedora" -> << cmd(pkgs({"socat", "fail2ban"})), cmd({"on.sshd"}), cmd({"fw.perm"}),
                               When({"fw.perm"}, cmd({"ssh", "fw"})), start("fail2ban", {"pkg.fail2ban"}), agent >>

inDockerGroup == << When({"pkg.docker"}, cmd({"group"})), When({"pkg.zsh"}, cmd({"shell"})) >>
devboxRunCmds(distro) ==
  CASE distro = "ubuntu" -> << cmd({"pkg.docker", "on.docker"}) >> \o inDockerGroup \o << cmd({"pkg.socat"}), agent >>
    [] distro = "arch"   -> << cmd({"installed"}), cmd({"upgraded"}), cmd(pkgs({"docker", "zsh", "socat"})),
                               start("docker", {"pkg.docker"}) >> \o inDockerGroup \o << agent >>
    [] distro = "fedora" -> << cmd({"pkg.dnf-plugins"}), When({"pkg.dnf-plugins"}, cmd({"repo"})),
                               When({"repo"}, cmd(pkgs({"docker", "zsh", "socat"}))), start("docker", {"pkg.docker"}) >>
                            \o inDockerGroup \o << agent >>

(* ubuntu: the install of the desktop takes the address away.               *)
desktopRunCmds(distro) ==
  CASE distro = "fedora" ->
         << cmd({"banner"}), cmd({"pkg.gdm"}), cmd({"pkg.socat"}), cmd({"dconf"}), cmd({"graphical"}),
            When({"pkg.gdm"}, cmd({"rc.gdm"})), agent, uncmd({"file.issue"}), start("gdm", {"rc.gdm", "graphical"}) >>
    [] distro = "ubuntu" ->
         << cmd({"banner"}), cmd({"updated"}), When({"updated"}, [cmd({"pkg.gdm", "pkg.socat"}) EXCEPT !.del = {"net"}]),
            cmd({"dconf"}), cmd({"graphical"}), When({"pkg.gdm"}, cmd({"rc.gdm"})), agent, cmd({"net"}),
            uncmd({"file.issue"}), start("gdm", {"rc.gdm", "graphical"}) >>

dockerRunCmds ==
  << cmd({"repo"}), When({"repo"}, cmd({"updated"})), When({"updated"}, cmd({"pkg.docker"})), cmd({"docker.dir"}),
     When({"docker.dir"}, cmd({"docker.tcp"})), When({"pkg.docker"}, cmd({"group"})),
     cmd({"rc.docker"}), start("docker", {"pkg.docker"}) >>

(* The waits for a lease and a mirror come before anything is fetched.      *)
aptLease == << cmd({}), cmd({"repo"}), When({"repo"}, cmd({"updated"})) >>
adguardHome ==
  << When({"pkg.curl"}, cmd({"tar"})), When({"tar"}, cmd({"unpacked"})), When({"unpacked"}, cmd({"bin.adguard"})),
     uncmd({"tar", "unpacked"}), cmd({"resolv"}), When({"file.initd"}, cmd({"initd.x"})),
     cmd({"rc.adguard"}), start("adguard", {"bin.adguard", "initd.x", "file.yaml"}) >>
dnsSinkRunCmds ==
  aptLease \o << When({"updated"}, cmd(pkgs({"curl", "avahi", "qga"}))) >> \o adguardHome
  \o << cmd({"on.dbus"}), start("avahi", {"pkg.avahi", "on.dbus"}), start("qga", {"pkg.qga"}),
        cmd({"fw"}), cmd({}), cmd({"ssh"}), cmd({"dns"}), cmd({"ui"}), cmd({"s.fw"}), cmd({"rc.fw"}) >>

(* Media mounts, then the server, then the firewall, then mDNS.             *)
mediaCmds == << cmd({"mounted.media"}) >>
jellyfinSetup ==
  << cmd({"keyrings"}), When({"keyrings", "pkg.curl"}, cmd({"key"})), When({"key"}, cmd({"repo"})),
     When({"repo"}, cmd({"updated"})), When({"updated"}, cmd({"pkg.jellyfin"})),
     start("jellyfin", {"pkg.jellyfin"}), start("qga", {"pkg.qga"}) >>
jellyfinFirewall == << cmd({"ssh"}), cmd({"jellyfin.in"}), cmd({"mdns.in"}), When({"pkg.ufw"}, cmd({"fw"})) >>

jellyfinRunCmds == mediaCmds \o jellyfinSetup \o jellyfinFirewall \o << start("avahi", {"pkg.avahi"}) >>

wgServerRunCmds ==
  << cmd({"forward"}), cmd({"forward.conf"}), start("wg", {"pkg.wireguard", "file.wg0"}),
     cmd({"ssh"}), cmd({"wg.in"}), When({"pkg.ufw"}, cmd({"fw"})) >>

-----------------------------------------------------------------------------
(* The Arch gaming guest.  install.sh runs in the live system under set -e; *)
(* the trap of an error unmounts the disk.  g.mirrors is the live system's  *)
(* mirror list, gDisk what the installed system is made of.                 *)
gDisk == {"g.part", "g.fs", "g.base", "g.fstab", "g.locale", "g.multilib", "g.user", "g.keys", "g.yay",
          "g.tuned", "g.unit", "g.script", "g.enabled", "g.grub", "g.grubcfg", "g.check", "g.sha"}

onErr == << Undo({"g.mnt"}, Do({})) >>

(* parted refuses a disk that is in use, and starts from nothing.           *)
partition ==
  << Refuse({"g.mnt"}), TryClear(gDisk), Try({"g.part"}), Try({"g.fs"}), Try({"g.mnt"}), Check >>
reflector ==
  << Check, Try({"g.iso"}) >>
  \o Attempt("unranked", << Part({"g.new"}, Try({"g.new"})), Check, TrySwap({"g.new"}, {"g.mirrors"}) >>)
  \o << When({"unranked"}, Clear({"g.new"})), When({"unranked"}, Try({"g.mirrors"})), Try({"g.live.multilib"}) >>
pacstrap == << Require("g.mirrors"), Check, Try({"g.base"}) >>
configure == << Try({"g.fstab"}), Try({"g.locale"}), Try({"g.multilib"}), Try({"g.user"}), Try({"g.keys"}) >>
yay == << Try({"g.yay"}) >>
firstbootFiles == << Try({"g.tuned"}), Try({"g.unit"}), Try({"g.script"}) >>
services == << Try({"g.enabled"}) >>
grub == << Try({"g.grub"}), Try({"g.grubcfg"}), Best({}) >>
checkFiles == << Try({"g.check"}), Try({"g.sha"}) >>

installScript ==
  << Stop({"g.off"}) >> \o onErr \o << Best({}) >> \o partition \o reflector \o pacstrap
  \o configure \o yay \o firstbootFiles \o services \o grub \o checkFiles \o << TryClear({"g.mnt"}), Do({"g.off"}) >>

(* A new start of the live system: nothing is mounted, its own mirror list. *)
liveBoot == << Swap({"g.mnt", "g.new", "g.iso", "g.live.multilib"}, {"g.mirrors"}) >>

(* vee-firstboot.sh, under set -e.  Its files for the virtio render node go *)
(* below /mnt, as in the install script, and not to /etc.                   *)
gDone == {"g.journal", "g.sunshine", "g.conf", "g.limits", "g.linger", "g.sunshine.on"}
firstbootScript ==
  << Pick({"gateway"}), When({"gateway"}, Try({"g.veehost"})), Try({"g.journal"}), Check, Try({"g.sunshine"}),
     Try({"g.conf"}), Try({"g.mnt.rule"}), Try({"g.limits"}), Try({"g.linger"}), Try({"g.sunshine.on"}), Best({}) >>

(* vee-firstboot.service: skipped once the marker exists; the marker only   *)
(* after the script has succeeded.                                          *)
firstbootService ==
  << When({"g.enabled"}, Unless({"g.done"}, Do({"g.running"}))) >>
  \o WhenAll({"g.running"}, Attempt("fb.failed", firstbootScript))
  \o << When({"g.running"}, Unless({"fb.failed"}, Try({"g.done"}))), Clear({"g.running"}) >>

bootInstalled == << StopUnless("g.off"), Clear({"g.running"}), StopUnless("g.grubcfg") >> \o firstbootService

(* vee-check: every check must hold for a pass.  The bare check stands for  *)
(* the render node, Vulkan and the SPICE port.                              *)
checkContents ==
  << Require("g.user"), Require("g.base"), Require("g.yay"), Require("g.sunshine"), Require("g.tuned"),
     Require("g.conf"), Check, Require("g.multilib"), Require("g.fstab") >>

veeCheck ==
  << StopUnless("g.off"), Require("g.sha"), Require("g.enabled"), Require("g.done"), Require("g.veehost") >>
  \o checkContents \o << Require("g.sunshine.on"), Do({}) >>

-----------------------------------------------------------------------------
(* The GitHub runner.  restored: the identity of an earlier runner is put   *)
(* back in place of a registration.                                         *)
githubRunnerSSHSetup ==
  WhenAll({"r.asked.key"}, << cmd({"r.ssh.dir"}), When({"r.ssh.dir"}, cmd({"r.key"})), cmd({}),
                              When({"r.key"}, cmd({"r.key.owned"})) >>)
registerCmds ==
  << When({"r.restored"}, cmd({"r.creds"})), When({"r.restored", "r.creds"}, cmd({"r.owned"})),
     When({"r.user", "r.runner", "r.env"}, Unless({"r.restored"}, cmd({"r.creds", "r.owned"}))) >>
rootlessStack ==
  << cmd({"r.tar"}), When({"r.tar"}, cmd({"r.nerdctl"})), uncmd({"r.tar"}), cmd({"r.sysctl"}),
     When({"file.apparmor"}, cmd({"r.apparmor"})), When({"r.user"}, cmd({"r.linger"})), cmd({}),
     start("containerd", {"r.nerdctl", "r.linger", "r.apparmor", "r.subids", "pkg.uidmap"}),
     start("buildkit", {"on.containerd"}), When({"on.buildkit"}, cmd({"rc.rootless"})) >>
runnerUser == << cmd({"r.user"}), When({"r.user"}, cmd({"r.env"})), cmd({"r.dir"}), When({"r.user"}, cmd({"r.subids"})) >>
runnerRelease ==
  << cmd({"r.version"}), When({"r.version"}, cmd({"r.tar"})), When({"r.tar", "r.dir"}, cmd({"r.runner"})),
     uncmd({"r.tar"}), cmd({}), When({"r.runner"}, cmd({"r.deps"})) >>
runnerServices ==
  << start("runner", {"r.runner", "file.units"}), cmd({"on.sshd"}), cmd({"ssh"}), When({"pkg.fw"}, cmd({"fw"})),
     agent, start("qga", {"pkg.qga"}), start("gc", {"file.units"}), cmd({"r.journald"}) >>

githubRunnerCloudInit ==
  runnerUser \o rootlessStack \o runnerRelease \o githubRunnerSSHSetup \o registerCmds \o runnerServices

(* vee-runner-gc.sh: containers past the age ceiling, what is stopped, cold *)
(* cache entries, the journal, and every job's temporary directory.         *)
runnerGC ==
  << When({"r.orphan"}, uncmd({"r.orphan"})), uncmd({"r.stopped"}), Best({}),
     uncmd({"r.cold"}), Best({}), uncmd({"r.temp"}) >>

(* A job; when it is cancelled or crashes, what it started stays up, and is *)
(* an orphan once it is past the ceiling.                                   *)
ciJob == << [Step EXCEPT !.hold = {"r.job"}], Do({"r.temp"}), Do({"r.young"}), Swap({"r.young"}, {"r.stopped"}) >>

-----------------------------------------------------------------------------
(* Helios: the installer leaves a status; its own task moves the status on  *)
(* at a boot; the watch restarts the guest once per new status that asks    *)
(* for it, at most four times, and counts before it restarts.  h.c.i: the   *)
(* count file, h.rb.i: restarts so far.                                     *)
Digit == <<"1", "2", "3", "4", "5">>
setStatus(x) == << When({"next." \o x}, Swap({"h.s.a", "h.s.b", "h.s.finished"}, {"h.s." \o x})) >>
resume == << Pick({"next.a", "next.b", "next.finished"}) >> \o setStatus("a") \o setStatus("b") \o setStatus("finished")

(* One more, kept as the set of all numbers up to the count.                *)
raise(pre) ==
  [j \in 1..5 |-> LET i == 6 - j IN
     When(IF i = 1 THEN {} ELSE {pre \o Digit[i - 1]}, Unless({pre \o Digit[i]}, cmd({pre \o Digit[i]})))]

heliosSetupPS1 ==
  << Best({"h.logon"}), Best({"h.task"}), Best({}) >> \o resume
  \o << [Step EXCEPT !.look = {<<"h.s.a", "s.a">>, <<"h.s.b", "s.b">>}],
        When({"s.a"}, Best({"h.handled.a"})), When({"s.b"}, Best({"h.handled.b"})) >>

(* A new status that asks for a restart; the handled one is kept in a file. *)
newStatus(n, x) ==
  << [Step EXCEPT !.when = {n \o x}, !.unless = {"h.handled." \o x}, !.look = {<<"h.task", "go." \o n \o x>>}],
     When({"go." \o n \o x, "h.c.4"}, Clear({"h.task"})), Stop({"go." \o n \o x, "h.c.4"}) >>
markHandled(n, x) == << When({"go." \o n \o x}, [cmd({"h.handled." \o x}) EXCEPT !.del = {"h.handled.a", "h.handled.b"}]) >>

restartOnce(n, x) ==
  newStatus(n, x) \o markHandled(n, x) \o WhenAll({"go." \o n \o x}, raise("h.c.") \o raise("h.rb."))
  \o << Stop({"go." \o n \o x}) >>

poll(n) ==
  << [Step EXCEPT !.look = {<<"h.s." \o x, n \o x>> : x \in {"a", "b", "finished"}}],
     When({n \o "finished"}, Clear({"h.task"})), Stop({n \o "finished"}) >>
  \o restartOnce(n, "a") \o restartOnce(n, "b")
heliosWatchPS1 == << StopUnless("h.task") >> \o poll("1.") \o resume \o poll("2.")

-----------------------------------------------------------------------------
ProvisionTable ==
  [j \in {"sv.ubuntu", "sv.arch", "sv.fedora"} |->
     LET d == CASE j = "sv.ubuntu" -> "ubuntu" [] j = "sv.arch" -> "arch" [] OTHER -> "fedora" IN
     cloudConfig({"agent"}, PackagesFor(d, "server")) \o serverRunCmds(d)]
  @@ [j \in {"dv.ubuntu", "dv.arch", "dv.fedora"} |->
     LET d == CASE j = "dv.ubuntu" -> "ubuntu" [] j = "dv.arch" -> "arch" [] OTHER -> "fedora" IN
     cloudConfig({"agent"}, PackagesFor(d, "devbox")) \o devboxRunCmds(d)]
  @@ "dt.ubuntu" :> cloudConfig({"agent", "issue"}, {}) \o desktopRunCmds("ubuntu")
  @@ "dt.fedora" :> cloudConfig({"agent", "issue"}, {}) \o desktopRunCmds("fedora")
  @@ "docker" :> dockerRunCmds
  @@ "dns" :> cloudConfig({"yaml", "initd"}, {}) \o dnsSinkRunCmds
  @@ "jellyfin" :> cloudConfig({}, {"curl", "ufw", "qga", "avahi"}) \o jellyfinRunCmds
  @@ "wg" :> cloudConfig({"wg0"}, {"wireguard", "ufw"}) \o wgServerRunCmds
  @@ "rn.boot" :> cloudConfig({"units", "agent", "apparmor"}, {"fw", "qga", "socat", "uidmap"}) \o githubRunnerCloudInit
  @@ "rn.gc" :> runnerGC @@ "rn.job" :> ciJob
  @@ "gm.install" :> installScript @@ "gm.live" :> liveBoot @@ "gm.boot" :> bootInstalled @@ "gm.check" :> veeCheck
  @@ "hl.setup" :> heliosSetupPS1 @@ "hl.boot" :> heliosWatchPS1

cloudGuests == {"sv.ubuntu", "sv.arch", "sv.fedora", "dv.ubuntu", "dv.arch", "dv.fedora", "dt.ubuntu",
                "dt.fedora", "docker", "dns", "jellyfin", "wg", "rn.boot"}

ProvisionScenarios ==
  {[jobs |-> [p1 |-> <<g>>, p2 |-> <<>>], world |-> {"net"}] : g \in cloudGuests}
  \cup {[jobs |-> [p1 |-> <<"rn.boot">>, p2 |-> <<>>], world |-> {"net", "r.restored", "r.asked.key"}],
        [jobs |-> [p1 |-> <<"rn.gc", "rn.gc">>, p2 |-> <<"rn.job", "rn.job">>], world |-> {"r.cold", "r.orphan"}],
        [jobs |-> [p1 |-> <<"gm.install", "gm.install", "gm.boot", "gm.boot">>, p2 |-> <<>>], world |-> {"g.mirrors"}],
        [jobs |-> [p1 |-> <<"gm.install", "gm.live", "gm.install", "gm.boot">>, p2 |-> <<>>], world |-> {"g.mirrors"}],
        [jobs |-> [p1 |-> <<"gm.boot", "gm.boot">>, p2 |-> <<"gm.check", "gm.check">>], world |-> gDisk \cup {"g.off"}],
        [jobs |-> [p1 |-> <<"hl.setup", "hl.boot", "hl.boot", "hl.boot", "hl.boot", "hl.boot", "hl.boot">>, p2 |-> <<>>],
         world |-> {}]}

(* What the template is for.                                                *)
wantedServices(g) ==
  CASE g \in {"sv.ubuntu", "sv.fedora"} -> {"on.agent", "on.fail2ban", "fw"}
    [] g = "sv.arch" -> {"on.agent", "on.sshd", "fw"}
    [] g \in {"dv.ubuntu", "dv.arch", "dv.fedora"} -> {"on.agent", "on.docker", "group", "shell"}
    [] g \in {"dt.ubuntu", "dt.fedora"} -> {"on.agent", "on.gdm"}
    [] g = "docker" -> {"on.docker", "docker.tcp"}
    [] g = "dns" -> {"on.adguard", "on.avahi", "on.qga", "s.fw"}
    [] g = "jellyfin" -> {"on.jellyfin", "on.avahi", "on.qga", "fw"}
    [] g = "wg" -> {"on.wg", "fw"}
    [] g = "rn.boot" -> {"on.runner", "on.buildkit", "on.gc", "on.agent", "on.qga", "fw"}

(* A first boot in which no command fails brings up every service of its    *)
(* template and leaves the guest on the network: the order of the commands  *)
(* gives each service its packages, files and users first.                  *)
EverythingComesUp ==
  \A p \in Procs, g \in cloudGuests :
    Ends(p, g, "ok") /\ faulty' = 0 => wantedServices(g) \cup {"net"} \subseteq world'

(* A firewall that is on lets SSH in, the only way into most of these       *)
(* guests: also if the guest was cut off in its first boot, where the       *)
(* firewall is ufw and its rules are written before it is enabled.          *)
SSHNotLockedOut ==
  "fw" \in world /\ "stuck" \notin world /\ (AtRest \/ "on.adguard" \notin world)
    => "ssh" \in world \/ died("dns")

(* Jellyfin is started when its libraries are mounted, the runner when its  *)
(* identity is in place and its own.                                        *)
ServiceHasItsData ==
  "stuck" \notin world =>
    /\ "on.jellyfin" \in world => "mounted.media" \in world
    /\ "on.runner" \in world => {"r.creds", "r.owned"} \subseteq world

(* The installer powers the guest off, which starts it from its disk the    *)
(* next time, only when the whole system is there, whatever failed before.  *)
InstallIsWhole == "g.off" \in world => gDisk \subseteq world

(* A failed install does not keep the next one from partitioning the disk:  *)
(* nothing stays mounted, unless the unmount failed too.                    *)
RerunNotBlocked ==
  AtRest /\ "g.mnt" \in world => untidy("gm.install") \/ died("gm.install")

(* The first-boot service is never skipped before it has done all its work. *)
FirstbootMarkerIsTrue == "g.done" \in world => gDone \subseteq world

(* A health check that passes, at any moment of a first boot, means that    *)
(* install and first boot are complete.                                     *)
PassingCheckIsWhole ==
  \A p \in Procs : Ends(p, "gm.check", "ok") /\ "g.off" \in world => gDisk \cup gDone \subseteq world'

(* The clean-up takes the containers a cancelled job left, also while       *)
(* another job runs, and never a young one.                                 *)
GCTakesOrphans ==
  \A p \in Procs :
    /\ Ends(p, "rn.gc", "ok") /\ "stuck" \notin world' => "r.orphan" \notin world'
    /\ Busy(p) /\ Head(ps[p].jobs) = "rn.gc" /\ ps'[p] # ps[p] /\ "r.young" \in world => "r.young" \in world'

(* The watch restarts Windows at most four times, whatever the installer    *)
(* reports and wherever the guest is cut off, unless its count was lost.    *)
RestartsBounded == "h.rb.5" \in world => "stuck" \in world
=============================================================================
