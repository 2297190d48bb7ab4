----------------------------- MODULE Templates -----------------------------
(***************************************************************************)
(* The template constructors of internal/templates, seen as what they     *)
(* decide about the machine: architecture, firmware, display, disks and   *)
(* their order, shares.  A constructor maps a request `o` and a host `h`  *)
(* to the set of configurations it can return; the empty set is a         *)
(* refusal.  What the guest is told to run is in Provisioning and         *)
(* KillSwitch, how images arrive in Images.                               *)
(***************************************************************************)
EXTENDS Naturals, Sequences

(* Disks -------------------------------------------------------------- *)

\* A DiskConfig: `of` names the image behind it, `own` who the file or
\* device belongs to, `moved` that --boot-disk-path chose its directory.
diskOf(id, media, fmt, iface, own, of) ==
  [id |-> id, media |-> media, fmt |-> fmt, iface |-> iface, own |-> own,
   of |-> of, scratch |-> FALSE, boot |-> 0, moved |-> FALSE]

\* A disk vee creates for the guest.
osDisk(iface, of) == diskOf("os", "disk", "qcow2", iface, "vee", of)

\* An ISO attached for the installation.
iso(id, iface, of) == diskOf(id, "cdrom", "", iface, "cache", of)

\* A device or file of the user, passed through raw.
rawDevice(id) == diskOf(id, "disk", "raw", "virtio", "user", "user")

\* Every cdrom counts as install media, flagged or not.
IsInstallISO(d) == d.media = "cdrom"

IsScratch(d) == d.scratch

(* Architectures ------------------------------------------------------ *)

\* Distributions published for the host's architecture; the others are
\* x86_64 only.
ImageArch(distro, h) ==
  IF distro \in {"ubuntu", "fedora", "windows"} THEN h.arch ELSE "x86_64"

\* The value of VMConfig.Arch: empty for a native image, the image's
\* architecture when emulation was asked for, a refusal otherwise.
guestArchOn(hostArch, imageArch, emulate) ==
  IF imageArch = hostArch THEN {""} ELSE IF emulate THEN {imageArch} ELSE {}

guestArchFor(distro, o, h) == guestArchOn(h.arch, ImageArch(distro, h), o.emulate)

(* Cloud images ------------------------------------------------------- *)

\* What every constructor starts from.
plain(o, h) ==
  [template |-> o.template, arch |-> "", gpu |-> "none", gl |-> FALSE,
   venus |-> FALSE, hostmem |-> FALSE, headless |-> FALSE, spice |-> FALSE,
   uefi |-> FALSE, code |-> "", vars |-> "", disks |-> <<>>, seed |-> "",
   bootvga |-> FALSE, mounts |-> <<>>, nic |-> "user", qbin |-> FALSE,
   skip |-> FALSE, nogl |-> FALSE, board |-> "", cpu |-> h.cpu]

\* The shape the cloud-image templates share: an overlay on the image as
\* first disk, a cloud-init seed, no firmware, no display.
cloudImage(o, h, distro, arch) ==
  [plain(o, h) EXCEPT !.arch = arch, !.headless = TRUE, !.seed = "cidata",
                   !.disks = <<osDisk("virtio", distro)>>]

mount(dir, tag, ro) == [dir |-> dir, tag |-> tag, ro |-> ro]

\* The directories the prompts of a template collected.
promptMounts(o) == IF o.lib = "" THEN <<>> ELSE <<mount(o.lib, "media", FALSE)>>

\* The distribution a template uses when none was named.
distroOr(o, default) == IF o.distro = "" THEN default ELSE o.distro

NewOmarchyConfig(o, h) ==
  {[plain(o, h) EXCEPT !.template = "omarchy", !.arch = a, !.gpu = "virtio",
                    !.uefi = TRUE, !.seed = "seed",
                    !.disks = <<osDisk("virtio", "omarchy"),
                                iso("iso", "ide", "omarchy")>>] :
     a \in guestArchFor("omarchy", o, h)}

NewServerConfig(o, h) ==
  LET d == distroOr(o, "ubuntu") IN
  IF d \notin {"ubuntu", "arch", "fedora"} THEN {}
  ELSE {cloudImage(o, h, d, a) : a \in guestArchFor(d, o, h)}

NewDevboxConfig(o, h) ==
  LET d == distroOr(o, "ubuntu") IN
  IF d = "omarchy" THEN NewOmarchyConfig(o, h)
  ELSE IF d \notin {"ubuntu", "arch", "fedora"} THEN {}
  ELSE {cloudImage(o, h, d, a) : a \in guestArchFor(d, o, h)}

\* The desktop is a cloud image with a window: virtio GPU and UEFI.
NewDesktopConfig(o, h) ==
  LET d == distroOr(o, "fedora") IN
  IF d = "omarchy" THEN NewOmarchyConfig(o, h)
  ELSE IF d \notin {"ubuntu", "fedora"} THEN {}
  ELSE {[cloudImage(o, h, d, a) EXCEPT !.headless = FALSE, !.gpu = "virtio",
                                    !.uefi = TRUE] :
          a \in guestArchFor(d, o, h)}

NewDockerConfig(o, h) ==
  {cloudImage(o, h, "alpine", a) : a \in guestArchFor("alpine", o, h)}

NewDNSSinkConfig(o, h) ==
  {[cloudImage(o, h, "alpine", a) EXCEPT !.nic = "bridge"] :
     a \in guestArchFor("alpine", o, h)}

\* Needs the answers of its prompts; the database may live on a share.
NewBitmagnetConfig(o, h) ==
  IF ~o.prompts THEN {}
  ELSE {[cloudImage(o, h, "alpine", a) EXCEPT !.mounts = promptMounts(o)] :
          a \in guestArchFor("alpine", o, h)}

NewTorrentAlpineConfig(o, h) ==
  {[cloudImage(o, h, "alpine", a) EXCEPT !.mounts = promptMounts(o)] :
     a \in guestArchFor("alpine", o, h)}

\* Ubuntu with a SPICE display, or the Alpine variant.
NewTorrentConfig(o, h) ==
  LET d == distroOr(o, "ubuntu") IN
  CASE ~o.prompts -> {}
    [] d = "alpine" -> NewTorrentAlpineConfig(o, h)
    [] d = "ubuntu" -> {[cloudImage(o, h, d, "") EXCEPT !.headless = FALSE,
                           !.spice = TRUE, !.mounts = promptMounts(o)]}
    [] OTHER -> {}

NewJellyfinConfig(o, h) ==
  {[cloudImage(o, h, "ubuntu", "") EXCEPT !.nic = "bridge",
                                       !.mounts = promptMounts(o)]}

NewGitHubRunnerConfig(o, h) ==
  IF o.prompts THEN {cloudImage(o, h, "ubuntu", "")} ELSE {}

(* Installers --------------------------------------------------------- *)

\* The games directory of the gaming templates.
games(o) == IF o.share THEN <<mount("dir", "Games", o.ro)>> ELSE <<>>

\* Virtio with a relative pointer, or the passed-through card beside a
\* plain virtio adapter for SPICE.
gamingGPU(o) == IF o.gpu = "passthrough" THEN "passthrough" ELSE "virtio"

\* Disk first, installer ISO second; SPICE is always the display.
NewGamingArchConfig(o, h) ==
  {[plain(o, h) EXCEPT !.arch = a, !.gpu = gamingGPU(o), !.spice = TRUE,
                    !.headless = o.headless = "T", !.uefi = TRUE,
                    !.seed = "cidata", !.nic = "bridge", !.mounts = games(o),
                    !.disks = <<osDisk("virtio", "arch"),
                                iso("iso", "ide", "arch")>>] :
     a \in guestArchFor("arch", o, h)}

\* The same without cloud-init, SPICE only beside a passed-through card.
NewGamingBazziteConfig(o, h) ==
  {[plain(o, h) EXCEPT !.arch = a, !.gpu = gamingGPU(o),
                    !.spice = o.gpu = "passthrough", !.uefi = TRUE,
                    !.nic = "bridge", !.mounts = games(o),
                    !.disks = <<osDisk("virtio", "bazzite"),
                                iso("iso", "ide", "bazzite")>>] :
     a \in guestArchFor("bazzite", o, h)}

\* Installer first, then the pool's boot disk, then the data disks as raw
\* host devices.
NewTruenasConfig(o, h) ==
  {[plain(o, h) EXCEPT !.arch = a, !.spice = TRUE, !.uefi = TRUE,
                    !.nic = "bridge",
                    !.disks = <<iso("iso", "none", "truenas"),
                                osDisk("ahci", "truenas")>>
                              \o [i \in 1..Len(o.data) |-> rawDevice(o.data[i])]] :
     a \in guestArchFor("truenas", o, h)}

\* The firmware code is pinned to the host's.
ubuntuServer(o, h, disks) ==
  [plain(o, h) EXCEPT !.uefi = TRUE, !.code = h.arch, !.disks = disks]

NewUbuntuServerConfig(o, h) ==
  IF h.arch = "aarch64" THEN {}
  ELSE {ubuntuServer(o, h, <<iso("iso", "virtio", "ubuntu"),
                             osDisk("virtio", "ubuntu")>>)}

NewUbuntuServerConfigNoISO(o, h) == {ubuntuServer(o, h, <<osDisk("virtio", "ubuntu")>>)}

\* The user's NVMe device and firmware variables, both required.
NewPassthroughConfig(o, h) ==
  IF ~o.prompts THEN {}
  ELSE {[plain(o, h) EXCEPT !.gpu = "passthrough", !.uefi = TRUE,
                         !.vars = "user", !.spice = TRUE, !.nic = "bridge",
                         !.disks = <<rawDevice("nvme")>>,
                         !.mounts = IF o.share
                                    THEN <<mount("dir", "Games", FALSE)>>
                                    ELSE <<>>]}

(* Windows ------------------------------------------------------------ *)

\* Two ISOs, the system disk, and the scratch disk of the installation.
windowsDisks(media, bus) ==
  <<iso("iso", media, "windows"), iso("extras", media, "windows"),
    osDisk(bus, "windows"),
    [osDisk(bus, "windows") EXCEPT !.id = "scratch", !.scratch = TRUE]>>

windowsARM64Config(o, h) ==
  [plain(o, h) EXCEPT !.cpu = "host", !.uefi = TRUE, !.disks = windowsDisks("usb", "nvme")]

\* The Helios display: the fork's binary, plain firmware, VNC in place of
\* SPICE, perhaps a VGA adapter for the installation.
applyHelios(c, o, h) ==
  [c EXCEPT !.spice = FALSE, !.gpu = "helios", !.qbin = TRUE,
            !.hostmem = o.hostmem, !.code = h.arch, !.bootvga = o.bootvga]

\* The Helios driver is x64 only and needs the fork's binary.
NewWindowsConfig(o, h) ==
  LET helios == o.gpu = "helios"
      x64    == [plain(o, h) EXCEPT !.spice = TRUE, !.uefi = TRUE, !.board = "q35",
                                 !.code = h.arch,
                                 !.disks = windowsDisks("ide", "virtio")]
  IN  IF helios /\ (~o.qbin \/ h.arch = "aarch64") THEN {}
      ELSE IF h.arch = "aarch64" THEN {windowsARM64Config(o, h)}
      ELSE {IF helios THEN applyHelios(x64, o, h) ELSE x64}

(* Dispatch ----------------------------------------------------------- *)

\* No template: the user brings the disks.
defaultConfig(o, h) == [plain(o, h) EXCEPT !.uefi = o.boot # ""]

configFromTemplate(o, h) ==
  CASE o.template = "gaming-arch"    -> NewGamingArchConfig(o, h)
    [] o.template = "gaming-bazzite" -> NewGamingBazziteConfig(o, h)
    [] o.template = "passthrough"    -> NewPassthroughConfig(o, h)
    [] o.template = "torrent"        -> NewTorrentConfig(o, h)
    [] o.template = "devbox"         -> NewDevboxConfig(o, h)
    [] o.template = "server"         -> NewServerConfig(o, h)
    [] o.template = "desktop"        -> NewDesktopConfig(o, h)
    [] o.template = "omarchy"        -> NewOmarchyConfig(o, h)
    [] o.template = "truenas"        -> NewTruenasConfig(o, h)
    [] o.template = "windows"        -> NewWindowsConfig(o, h)
    [] o.template = "docker"         -> NewDockerConfig(o, h)
    [] o.template = "jellyfin"       -> NewJellyfinConfig(o, h)
    [] o.template = "dns-sink"       -> NewDNSSinkConfig(o, h)
    [] o.template = "bitmagnet"      -> NewBitmagnetConfig(o, h)
    [] o.template = "ubuntu-server"  -> IF o.noauto
                                        THEN NewUbuntuServerConfigNoISO(o, h)
                                        ELSE NewUbuntuServerConfig(o, h)
    [] o.template = "github-runner"  -> NewGitHubRunnerConfig(o, h)
    [] OTHER                         -> {defaultConfig(o, h)}
============================================================================
