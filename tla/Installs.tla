------------------------------ MODULE Installs ------------------------------
(***************************************************************************)
(* Binaries vee installs for itself: the QEMU bundle (internal/qemubin)    *)
(* and virtiofsd, built in a container (internal/virtiofsdinstall) or, on  *)
(* a host without one, in a throwaway VM (virtiofsd_vmbuild.go).  Every    *)
(* vee start, the daemon and the MCP server may run them at the same time. *)
(*                                                                         *)
(* Facts.  qemu, libs: the bundle's files are there; qemu.new, libs.new:   *)
(* and are the pinned version's, whole.  marker: the version file names    *)
(* the pinned version.  entitled: signed for HVF.  compat: the library     *)
(* link.  tar, tar.good: the source archive, and it verifies; tree,        *)
(* tree.good: the unpacked sources; vfs, vfs.good: the virtiofsd binary.   *)
(* bvm, brun: the build VM exists, and runs; conn.p: p is connected to it. *)
(***************************************************************************)
EXTENDS StepMachine, TLC

(* ensureSonameCompat replaces the link; it may fail in between.            *)
elfNeeded == Check
ensureSonameCompat == << elfNeeded, When({"t64"}, Clear({"compat"})), When({"t64"}, Try({"compat"})) >>

(* hardenBinary: quarantine off, a temporary plist, signed anew.            *)
hardenBinary == << Best({}), Check, Undo({"plist"}, Try({"plist"})), Try({"entitled"}), Clear({"plist"}) >>

(* extractBundle replaces file by file, each one removed first.             *)
extractBundle ==
  << Check, Clear({"qemu", "qemu.new"}), Part({"qemu"}, Try({"qemu", "qemu.new"})), Clear({"entitled"}),
     Clear({"libs", "libs.new"}), Part({"libs"}, Try({"libs", "libs.new"})) >>

(* downloadAndInstall: the archive goes to a file of its own, is compared,  *)
(* and only then unpacked; the file is removed in every case.               *)
downloadAndInstall(p) ==
  << Check, Check, Undo({"dl." \o p}, Try({"dl." \o p})), Check, Pick({"wrongbody"}), Refuse({"wrongbody"}) >>
  \o extractBundle \o << BestClear({"dl." \o p}) >>

resolveSystemQemu == << Stop({"qemu"}), Check >>

(* Ensure: the marker and the binary are looked at; the marker is written   *)
(* last, and a signature or a link that fails is only reported.             *)
Ensure(p) ==
  << Look("marker", "current") >>
  \o Attempt("nolink", WhenAll({"current", "qemu"}, ensureSonameCompat))
  \o << Stop({"current", "qemu"}) >>
  \o WhenAll({"unpublished"}, resolveSystemQemu) \o << Stop({"unpublished"}) >>
  \o downloadAndInstall(p) \o << Require("qemu") >>
  \o Attempt("nosign", hardenBinary) \o Attempt("nolink", ensureSonameCompat)
  \o << Try({"marker"}) >>

-----------------------------------------------------------------------------
(* downloadFile trusts a file that is there; verifyChecksum does not.       *)
downloadFile ==
  << Unless({"tar"}, Check), Unless({"tar"}, Pick({"wrongbody"})), Unless({"tar"}, Try({"tar"})),
     Unless({"wrongbody", "tar.good"}, Look("tar", "fetched")),
     When({"fetched"}, Check), When({"fetched"}, Try({"tar.good"})) >>

verifyChecksum == << Check, Require("tar.good") >>
findContainerRuntime == << Check >>

(* The archive is dropped when it does not verify.                          *)
fetchSource ==
  Attempt("nofile", downloadFile) \o << Refuse({"nofile"}) >>
  \o Attempt("badtar", verifyChecksum)
  \o << When({"badtar"}, Part({"stuck"}, BestClear({"tar", "tar.good"}))), Refuse({"badtar"}) >>

(* The script in the container: sources are unpacked unless Cargo.toml is   *)
(* there; the binary is copied to its place.                                *)
buildScript ==
  << Check, Unless({"tree"}, Part({"tree"}, Try({"tree", "tree.good"}))),
     Require("tree.good"), Check, Part({"vfs"}, Try({"vfs", "vfs.good"})) >>

EnsureVirtiofsd ==
  << Stop({"vfs"}), Check >>
  \o Attempt("nocontainer", << Unless({"container"}, Refuse({})) >> \o findContainerRuntime)
  \o UnlessAll({"nocontainer"}, << Check >> \o fetchSource \o buildScript \o << Check >>)
  \o << Stop({"vfs"}) >>

(* newVirtiofsdBuildVMConfig downloads the Ubuntu image first.              *)
newVirtiofsdBuildVMConfig == << Check, Check >>

conns == {"conn." \o p : p \in Procs}

(* Manager.Stop, Manager.Delete and Manager.Create as this code calls them. *)
stopBuildVM == When({"brun"}, Part({"stuck"}, BestClear({"brun"} \cup conns)))
deleteBuildVM == Unless({"brun"}, Part({"stuck"}, BestClear({"bvm", "leftover"})))
createBuildVM == << Refuse({"bvm"}), Try({"bvm"}) >>

(* runVirtiofsdBuild inside the guest: the same archive, verified there.    *)
runVirtiofsdBuild(p) == << Require("conn." \o p), Check, Check >>

(* The binary is fetched to a temporary name and renamed.                   *)
fetchBinary(p) ==
  << Undo({"vfs.tmp"}, TrySwap({"vfs.tmp.good"}, {"vfs.tmp"})), Require("conn." \o p),
     Try({"vfs.tmp.good"}), Check,
     When({"vfs.tmp.good"}, TrySwap({"vfs.tmp", "vfs.tmp.good"}, {"vfs", "vfs.good"})) >>

(* buildVirtiofsdInVM: leftovers of an earlier build go first; whatever     *)
(* happens after Create, the VM is stopped and deleted.                     *)
buildVirtiofsdInVM(p) ==
  << Check, Check >> \o newVirtiofsdBuildVMConfig
  \o << stopBuildVM, deleteBuildVM >> \o createBuildVM
  \o Attempt("nobuild",
       << Require("bvm"), Try({"brun"}), Check, When({"brun"}, Try({"conn." \o p})) >>
       \o runVirtiofsdBuild(p) \o fetchBinary(p))
  \o << stopBuildVM, deleteBuildVM, Refuse({"nobuild"}) >>

(* What a start does to get a virtiofsd.                                    *)
ensureForStart(p) ==
  Attempt("failed", EnsureVirtiofsd)
  \o << Stop({"vfs"}), Refuse({"failed"}) >> \o buildVirtiofsdInVM(p)

-----------------------------------------------------------------------------
InstallTable(p) == "Ensure" :> Ensure(p) @@ "virtiofsd" :> ensureForStart(p)

oldBundle == {"qemu", "libs"}

InstallScenarios ==
  {[jobs |-> [p1 |-> <<"Ensure", "Ensure">>, p2 |-> <<>>], world |-> w] :
      w \in {{}, oldBundle \cup {"t64"}, {"unpublished"}}}
  \cup {[jobs |-> [p1 |-> <<"Ensure", "Ensure">>, p2 |-> <<"Ensure">>], world |-> oldBundle]}
  \cup {[jobs |-> [p1 |-> <<"virtiofsd", "virtiofsd", "virtiofsd">>, p2 |-> <<>>], world |-> w] :
          w \in {{}, {"container"}}}
  \cup {[jobs |-> [p1 |-> <<"virtiofsd">>, p2 |-> <<"virtiofsd">>], world |-> w] :
          w \in {{"bvm", "brun", "leftover"}}}

-----------------------------------------------------------------------------
(* The version marker is the proof of an installation: with it, the binary  *)
(* and the libraries are the pinned version's, however often an install     *)
(* was cut off, as long as one process installs at a time.                  *)
MarkerMeansWhole ==
  "marker" \in world /\ ~Overlap => {"qemu.new", "libs.new"} \subseteq world

(* A source archive that does not verify does not outlive the attempt that  *)
(* found out: the next attempt downloads again instead of failing for ever. *)
BadTarballGoes ==
  \A p \in Procs : Ends(p, "virtiofsd", "err") /\ "wrongbody" \in ps[p].seen /\ ~Overlap
     => "tar" \notin world' \/ "stuck" \in world'

(* The build VM is gone when the build is over, unless it could not be      *)
(* stopped or deleted, or the process died in it; also when two starts      *)
(* build at once, and each takes the other's VM for a leftover.             *)
BuildVMGone ==
  "bvm" \in world /\ "leftover" \notin world /\ AtRest
    => "stuck" \in world \/ died("virtiofsd")

(* A virtiofsd built in a VM is never a part of one: it is fetched under    *)
(* another name.  (A container copies it to its place; cut off there, it    *)
(* leaves a part that later starts take for the binary.)                    *)
FetchedIsWhole ==
  "vfs" \in world /\ "container" \notin world => "vfs.good" \in world
=============================================================================
