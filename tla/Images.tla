------------------------------- MODULE Images -------------------------------
(***************************************************************************)
(* The image cache: internal/images.  Every distribution has a Download    *)
(* of its own; two commands (vee create, vee pull, the wizard, the MCP     *)
(* server) may download the same image at the same time, and a download    *)
(* may fail or be killed anywhere.                                         *)
(*                                                                         *)
(* Facts.  iso: there is a file at AbsolutePath.  good: it holds the bytes *)
(* the checksum names.  intact.p: nobody truncated or removed the file     *)
(* since process p opened it, so that p's copy will be whole.  tmp: the    *)
(* .partial file of a macOS restore image or the patch-named file of       *)
(* Alpine.  work: the work directory of a Windows build; the other facts   *)
(* of Windows are the files of that directory.                             *)
(***************************************************************************)
EXTENDS StepMachine, TLC

intact(p) == "intact." \o p
allIntact == {intact(p) : p \in Procs}

(* os.Create of the file the image is downloaded into; copies that were     *)
(* being written to the same file lose what they had written.               *)
create(p) == TrySwap({"good"} \cup allIntact, {"iso", intact(p)})
removeFile == TryClear({"iso", "good"} \cup allIntact)

(* CreateImage: io.Copy of the response.                                    *)
CreateImage(p) == When({intact(p)}, Unless({"wrongbody"}, Try({"good"})))

(* A GET whose answer may be another image than the checksum was made for,  *)
(* or, where the status is not looked at, an error page.                    *)
get == << Check, Pick({"wrongbody"}) >>

(* The checksum list is fetched, and has a line for the image or has not.   *)
targetChecksum == << Check, Check >>

(* The file is read and hashed; the comparison, and the return, come later, *)
(* when the file may be another.                                            *)
hash(bytes) == [Check EXCEPT !.look = {<<bytes, "matches">>}]

verify == << hash("good"), Require("matches") >>

(* A file that is there is kept if it verifies, else removed.               *)
reuse == << Look("iso", "present"), When({"present"}, hash("good")),
            Stop({"present", "matches"}), When({"present"}, removeFile) >>

(* A file that is there is taken for what it should be.                     *)
trust == << Stop({"iso"}) >>

fetch(p) == get \o << Check, create(p), CreateImage(p) >>

(* Mutant: the new file is not compared with the checksum.                  *)
ArchDownloadUnverified(p) == targetChecksum \o reuse \o fetch(p)

ArchDownload(p) == targetChecksum \o reuse \o fetch(p) \o verify

BazziteDownload(p) == targetChecksum \o reuse \o fetch(p) \o verify
OmarchyDownload(p) == targetChecksum \o reuse \o fetch(p) \o verify
FedoraDownload(p) == << Refuse({"unknown.release"}) >> \o targetChecksum \o reuse \o fetch(p) \o verify

(* fetchRemoteChecksum, which first needs the codename of the release.      *)
fetchRemoteChecksum == << Refuse({"unknown.release"}) >> \o targetChecksum

(* TrueNAS: if the checksum cannot be fetched, a file that is there is      *)
(* trusted and one that is not there is not downloaded.                     *)
TrueNASDownload(p) ==
  << Look("iso", "present") >>
  \o Attempt("nosum", WhenAll({"present"}, fetchRemoteChecksum))
  \o << Stop({"present", "nosum"}), When({"present"}, hash("good")),
        Stop({"present", "matches"}), When({"present"}, removeFile) >>
  \o fetchRemoteChecksum \o fetch(p) \o verify

(* The live-server ISO: the exact file name is known only from the list,    *)
(* and the cache is looked at again under that name.                        *)
UbuntuDownload(p) == trust \o targetChecksum \o trust \o fetch(p) \o verify

UbuntuCloudDownload(p) == trust \o targetChecksum \o reuse \o fetch(p) \o verify

(* sha512File of the patch-named file.                                      *)
sha512File == << hash("tmp.good"), Require("matches") >>

(* Alpine: downloaded under the name with the patch level, verified there,  *)
(* and renamed to the stable name.                                          *)
AlpineDownload(p) ==
  trust \o targetChecksum \o get
  \o << Check, TrySwap({"tmp.good"} \cup allIntact, {"tmp", intact(p)}),
        When({intact(p)}, Unless({"wrongbody"}, Try({"tmp.good"}))) >>
  \o sha512File
  \o << Require("tmp"), When({"tmp.good"}, TrySwap({"tmp", "tmp.good"}, {"iso", "good"})),
        Unless({"good"}, TrySwap({"tmp"}, {"iso"})) >>

(* resolve: "latest" is asked of the helper; offline, the newest restore    *)
(* image in the cache is used.                                              *)
newestCached == Refuse({"nolatest"})
resolveLatest ==
  << Check >> \o Attempt("nolatest", << Check >>)
  \o << Stop({"nolatest", "iso"}), newestCached >>

(* A restore image: written to .partial, removed there when the copy fails, *)
(* renamed when it is complete.  There is no checksum.                      *)
MacOSDownload(p) ==
  resolveLatest \o trust
  \o << Check, Check, TrySwap({"tmp.good"} \cup allIntact, {"tmp", intact(p)}),
        Undo({"tmp", "tmp.good"}, Step),
        When({intact(p)}, Try({"tmp.good"})), Check >>
  \o << Require("tmp"), When({"tmp.good"}, TrySwap({"tmp", "tmp.good"}, {"iso", "good"})),
        Unless({"good"}, TrySwap({"tmp"}, {"iso"})) >>

(* Delete removes the file if it is there.                                  *)
Delete == << StopUnless("iso"), removeFile >>

-----------------------------------------------------------------------------
(* Windows has no image to download: the build is chosen, its packages are  *)
(* fetched, and an ISO is assembled in a container.                         *)

fetchBuildUUID == << Check, Check >>
fetchESDURLs   == << Check, Check >>
findWindowsContainerRuntime == << Check >>

(* The reference set: every ESD, and every CAB that can be extracted and    *)
(* captured; a CAB that cannot is left out.                                 *)
referenceSet == << Try({"esds"}), Best({"cabs"}), Check >>

(* boot.wim from a Setup image, or from the recovery image, which then gets *)
(* a startnet.cmd that runs Setup.                                          *)
bootWim ==
  << Pick({"setup.pe"}), Unless({"setup.pe", "winre"}, Refuse({})), Try({"boot.wim"}),
     Unless({"setup.pe"}, Best({})), Unless({"setup.pe"}, Try({"startnet"})) >>

(* install.wim, and the recovery image inside it, looked for afterwards.    *)
installWim ==
  << Check, Try({"install.wim"}), When({"winre"}, Try({"injected"})),
     When({"winre"}, Require("injected")) >>

(* The files the firmware needs are looked for; then the ISO is written in  *)
(* its place.                                                               *)
assemble(p) ==
  << Require("bootfiles"), Require("boot.wim"), Part({"iso"}, Try({"iso", "good"})) >>

media == {"esds", "cabs", "bootfiles", "boot.wim", "startnet", "install.wim", "injected"}

buildISOInContainer(p) ==
  findWindowsContainerRuntime
  \o << Check, Undo({"work"} \cup media, TrySwap(media, {"work"})), Check >>
  \o referenceSet \o << Pick({"bootable"}), When({"bootable"}, Do({"bootfiles"})) >>
  \o bootWim \o installWim \o assemble(p)
  \o << BestClear({"work"} \cup media) >>

WindowsDownload(p) ==
  trust \o fetchBuildUUID \o fetchESDURLs
  \o Attempt("nobuild", buildISOInContainer(p)) \o << Refuse({"nobuild"}), Require("iso") >>

(* startnet.cmd, in the booted installer: the driver, the scratch disk, its *)
(* format, the copy, Setup from it, and Setup from the DVD whenever one of  *)
(* these is not there.                                                      *)
startnet ==
  << StopUnless("iso"), Best({"disks"}),
     When({"disks"}, Best({"W"})), When({"W"}, Best({"W.copied"})), When({"W.copied"}, Best({"W.writable"})),
     When({"W.copied"}, Do({"setup.W"})), Unless({"W.copied"}, Do({"setup.DVD"})) >>

-----------------------------------------------------------------------------
Verifying == {"arch", "bazzite", "omarchy", "fedora"}
Trusting  == {"ubuntu", "cloud", "truenas", "alpine", "macos"}

ImageTable(p) ==
  "arch" :> ArchDownload(p) @@ "bazzite" :> BazziteDownload(p) @@ "omarchy" :> OmarchyDownload(p)
  @@ "fedora" :> FedoraDownload(p) @@ "truenas" :> TrueNASDownload(p)
  @@ "ubuntu" :> UbuntuDownload(p) @@ "cloud" :> UbuntuCloudDownload(p)
  @@ "alpine" :> AlpineDownload(p) @@ "macos" :> MacOSDownload(p)
  @@ "windows" :> WindowsDownload(p) @@ "startnet" :> startnet @@ "Delete" :> Delete

(* Every image downloaded twice by one user; some of them meanwhile by      *)
(* another, or deleted.                                                     *)
ImageScenarios ==
  {[jobs |-> [p1 |-> <<d, d>>, p2 |-> <<>>], world |-> {}] : d \in Verifying \cup Trusting}
  \cup {[jobs |-> [p1 |-> <<d, d>>, p2 |-> <<d>>], world |-> {}] : d \in {"arch", "alpine", "macos"}}
  \cup {[jobs |-> [p1 |-> <<"truenas">>, p2 |-> <<"Delete">>], world |-> {"iso", "good"}],
        [jobs |-> [p1 |-> <<"fedora", "truenas">>, p2 |-> <<>>], world |-> {"unknown.release"}]}
  \cup {[jobs |-> [p1 |-> <<"windows", "windows", "startnet">>, p2 |-> <<>>], world |-> w] :
          w \in {{}, {"winre"}}}

-----------------------------------------------------------------------------
(* A download that looks at the checksum of a file it finds reports success *)
(* only while the file in the cache is the image, whatever an earlier one   *)
(* left and whatever the mirror sent.  Another download of the same image   *)
(* may have truncated or removed the file since it was hashed, without a    *)
(* lock: then that one is still at it, or has reported its failure or died. *)
SuccessIsVerified ==
  LET unsettled(q, d) == \/ Busy(q) /\ Head(ps[q].jobs) = d /\ ps[q].pc > 1
                         \/ ps[q].last \in {<<d, "err">>, <<d, "died">>}
  IN \A p \in Procs, d \in Verifying :
       Ends(p, d, "ok") => "good" \in world' \/ \E q \in Procs \ {p} : unsettled(q, d)

(* The images that get their name by a rename (Alpine, macOS) are in the    *)
(* cache whole or not at all, whatever fails or dies, as long as one        *)
(* process downloads them; two at once share the temporary file.            *)
RenamedIsWhole ==
  (\E p \in Procs : ps[p].last[1] \in {"alpine", "macos"}) /\ "iso" \in world /\ ~Overlap
    => "good" \in world

(* An ISO of Windows that was assembled to its end boots and installs: its  *)
(* tree has the firmware's files, an image that runs Setup, and, if there   *)
(* is a recovery image, an install.wim with it inside.                      *)
MediaBoots ==
  \A p \in Procs : Busy(p) /\ Head(ps[p].jobs) = "windows" /\ "good" \in world' \ world =>
     /\ {"bootfiles", "boot.wim", "install.wim"} \subseteq world
     /\ "winre" \in world => "injected" \in world

(* A TrueNAS image is never downloaded anew without a checksum to hold it   *)
(* against: a file in the cache that does not verify is a download that was *)
(* reported as failed, or was cut off.                                      *)
NoBlindDownload ==
  \A p \in Procs : Ends(p, "truenas", "ok") /\ "iso" \in world' /\ "good" \notin world'
     => <<"truenas", "err">> \in ended \/ died("truenas")
=============================================================================
