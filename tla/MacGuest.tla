------------------------------ MODULE MacGuest ------------------------------
(***************************************************************************)
(* A macOS guest of the vz backend, from the restore to a guest that can   *)
(* be reached: internal/templates/macos.go, internal/vzfirstboot,          *)
(* internal/vm/screensharing_vz.go, the grant in StartDetached, and        *)
(* harden_darwin.go, which makes a downloaded helper executable.           *)
(*                                                                         *)
(* Facts.  vmdir, vm.yaml, disk, aux, restored: the VM's files.  attached, *)
(* mounted: the guest disk on the host.  setupdone, script, plist,         *)
(* sudoers: the payload (setupdone skips Setup Assistant); rooted: owned   *)
(* by root.                                                                *)
(* tccdb, grants: the guest's privacy database and the rows in it.         *)
(* pending, unsupported: the config's fields.  account, sshd, keys, done:  *)
(* what provisioning made inside the guest.  quarantine, signed: helper.   *)
(***************************************************************************)
EXTENDS StepMachine, TLC

payload == {"setupdone", "script", "plist", "sudoers"}

(* resolveDataVolume asks diskutil; detachImage releases the image.         *)
resolveDataVolume == Check
detachImage       == TryClear({"attached"})
mountData         == Try({"mounted"})

(* attachImage: an image attached without a known Data volume is released.  *)
attachImage ==
  Attempt("noattach", << Undo({"attached"}, Try({"attached"})), resolveDataVolume >>)
  \o << Refuse({"noattach"}) >>

(* writePayload in the order of payloadFiles: the marker that skips Setup   *)
(* Assistant comes first.                                                   *)
payloadFiles == << "setupdone", "script", "plist", "sudoers" >>
writePayload == [i \in DOMAIN payloadFiles |-> Try({payloadFiles[i]})]

(* openTCC: no database and a database without the access table are told    *)
(* apart, and neither is written to.                                        *)
openTCC(step) == When({"tccdb"}, Unless({"strangedb"}, step))

(* grantScreenSharing and revokeScreenSharing on the mounted volume.        *)
grantRows  == openTCC(Try({"grants"}))
revokeRows == openTCC(BestClear({"grants"}))

(* applyPrivacyGrants: a database that is missing or strange is no error of *)
(* the patch; a failed insert is.                                           *)
applyPrivacyGrants == << Part({"insert.failed"}, grantRows) >>

(* fixOwnership: one privileged script.                                     *)
fixOwnership == << Try({"rooted"}) >>

(* rollbackPayload: mounts again, revokes the grants, removes the payload.  *)
rollbackPayload ==
  << Part({"rollback.failed"}, mountData), revokeRows,
     Part({"rollback.failed"}, BestClear(payload)), BestClear({"mounted"}) >>

(* Mutant: the payload stays when its owner cannot be fixed.                *)
patchNoRollback ==
  attachImage \o <<Undo({"attached"}, Step), Check, Undo({"mounted"}, mountData)>>
  \o Attempt("nopayload", <<Undo(payload, Step)>> \o writePayload)
  \o <<Refuse({"nopayload"})>>
  \o applyPrivacyGrants
  \o <<Part({"unmount.failed"}, TryClear({"mounted"}))>>
  \o fixOwnership \o <<Part({"release.failed"}, detachImage), Do({"patched", "pending"})>>

(* Patch.  An error of the payload is cleaned up after and one of           *)
(* fixOwnership rolled back; the three calls that only return their error   *)
(* leave their name in the world.                                           *)
Patch ==
  attachImage \o <<Undo({"attached"}, Step), Check, Undo({"mounted"}, mountData)>>
  \o Attempt("nopayload", <<Undo(payload, Step)>> \o writePayload)
  \o <<Refuse({"nopayload"})>>
  \o applyPrivacyGrants
  \o <<Part({"unmount.failed"}, TryClear({"mounted"}))>>
  \o Attempt("notroot", fixOwnership)
  \o Attempt("norollback", WhenAll({"notroot"}, rollbackPayload))
  \o <<Refuse({"notroot"}), Part({"release.failed"}, detachImage), Do({"patched", "pending"})>>

(* shutDownRestoreVM: a machine that does not stop is only reported.        *)
restoreConfig     == Check
shutDownRestoreVM == Best({})

(* runRestore in the helper: an aux of an earlier attempt goes first; the   *)
(* result file is the last thing written.                                   *)
runRestore ==
  << Require("disk"), Check, Clear({"aux"}), Try({"aux"}), restoreConfig,
     Part({"halfdisk"}, TrySwap({"halfdisk"}, {"restored"})),
     shutDownRestoreVM, Try({"restore.json"}) >>

(* createSparseFile leaves a file that is large enough alone.               *)
ResolveHelper    == Check
createSparseFile == Try({"disk"})

(* restoreMacOS: the helper is looked for before the download.              *)
restoreMacOS ==
  << ResolveHelper, Unless({"ipsw"}, Try({"ipsw"})), Check, createSparseFile, Check >>
  \o runRestore \o << Require("restore.json") >>

copySparseAware(part, fact) == Part(part, Try(fact))

importMacosvmBundle ==
  << Check, copySparseAware({"halfdisk"}, {"disk", "restored"}), copySparseAware({"aux"}, {"aux"}) >>

vmFiles == {"vmdir", "disk", "aux", "halfdisk", "restored", "restore.json", "credentials"}

(* firstBootOptions are validated before anything is downloaded.            *)
firstBootOptions == Check

(* patchFirstBoot: a patch that fails is only reported; the credentials are *)
(* written last.                                                            *)
patchFirstBoot ==
  Attempt("nopatch", UnlessAll({"skipfirstboot"}, Patch))
  \o << Unless({"nopatch", "skipfirstboot"}, Best({"credentials"})) >>

(* NewMacOS: refuses an existing VM before it touches a disk, and removes   *)
(* what it made if the restore fails, unless the directory was there.       *)
NewMacOS ==
  << firstBootOptions, Refuse({"vm.yaml"}), Look("vmdir", "olddir"), Try({"vmdir"}) >>
  \o Attempt("norestore", WhenAll({"bundle"}, importMacosvmBundle)
                          \o UnlessAll({"bundle"}, restoreMacOS))
  \o << When({"norestore"}, Unless({"olddir"}, Clear(vmFiles))), Refuse({"norestore"}) >>
  \o UnlessAll({"bundle"}, patchFirstBoot)
  \o << Do({"cfg"}) >>

(* What Manager.Create makes of the returned config.                        *)
registerMac == << Require("cfg"), Try({"vm.yaml"}) >>

(* EnsureScreenSharingGrants: whatever happened to the grant, the disk is   *)
(* released, and a failed release outranks everything else.                 *)
releaseGuestDisk ==
  Attempt("busy", << Unless({"unmounted"}, Part({"stuck"}, TryClear({"mounted"}))) >>)
  \o Attempt("busy", << Part({"stuck"}, detachImage) >>)

(* screenSharingGranted, then grantScreenSharing if a row is missing.       *)
grantMissing == << openTCC(Check), Unless({"grants"}, grantRows) >>

EnsureScreenSharingGrants ==
  attachImage
  \o Attempt("unmounted", <<mountData>>)
  \o Attempt("nogrant", UnlessAll({"unmounted"}, grantMissing))
  \o releaseGuestDisk

(* grantScreenSharing at a start: only a disk that stays attached stops it; *)
(* pending is cleared once there is nothing left to write.                  *)
grantScreenSharing ==
  Attempt("noattach", EnsureScreenSharingGrants)
  \o << Refuse({"busy"}), StopUnless("tccdb"), Stop({"noattach"}), Stop({"unmounted"}),
        When({"strangedb"}, BestSwap({"pending"}, {"unsupported"})),
        Unless({"strangedb", "nogrant"}, BestClear({"pending"})) >>

(* A start: the grant if it is owed, then the helper, to which a disk that  *)
(* is attached on the host is no disk.                                      *)
startMac ==
  << Require("vm.yaml"), Refuse({"running"}) >>
  \o Attempt("refused", WhenAll({"pending"}, grantScreenSharing))
  \o << Refuse({"refused"}), Refuse({"attached"}), Try({"running"}) >>

(* firstBootScript, run by launchd at every boot while its plist is there   *)
(* and owned by root.  No command stops it; the marker needs the account    *)
(* and sshd.  macOS makes its privacy database at the first boot.           *)
firstBootScript ==
  << StopUnless("running"), Do({"tccdb"}), StopUnless("plist"), StopUnless("rooted"),
     Unless({"account"}, Best({"account"})), Best({"keys"}), Best({"sshd"}),
     StopUnless("account"), StopUnless("sshd"),
     Do({"done"}), Clear({"plist"}), Clear({"script"}) >>

(* waitFirstBootDone: until the marker is there, the guest has exited, the  *)
(* wait is over, or the user interrupts.                                    *)
waitFirstBootDone ==
  << Require("running"), Require("done") >>

(* AuthorizeScreenSharing: wait, stop, start (which writes the grants),     *)
(* wait again.                                                              *)
AuthorizeScreenSharing ==
  << Require("vm.yaml"), StopUnless("pending") >>
  \o waitFirstBootDone
  \o << TrySwap({"running"}, {"stopped.by.vee"}) >>
  \o startMac
  \o << Clear({"stopped.by.vee"}), Best({}) >>

(* harden: strip the quarantine and re-sign, once, under a file lock.       *)
harden(p) ==
  << StopUnless("quarantine"), Lock("harden.lock"),
     StopUnless("quarantine"), TryClear({"quarantine"}), Stop({"signed"}), Check,
     Undo({"signing." \o p}, Do({"signing." \o p})), TrySwap({"signing." \o p}, {"signed"}) >>

MacTable(p) ==
  "NewMacOS" :> NewMacOS @@ "registerMac" :> registerMac @@ "startMac" :> startMac
  @@ "firstBoot" :> firstBootScript
  @@ "AuthorizeScreenSharing" :> AuthorizeScreenSharing @@ "harden" :> harden(p)

(* How a guest comes to be, on one process while another only hardens the   *)
(* helper; with a fresh directory, an old one, an imported bundle, and a    *)
(* privacy database the program does not know.                              *)
MacScenarios ==
  {[jobs |-> [p1 |-> <<"NewMacOS", "registerMac", "startMac", "firstBoot", "AuthorizeScreenSharing">>,
              p2 |-> <<>>],
    world |-> w] : w \in {{"ipsw"}, {"vmdir", "kept"}, {"bundle"}, {"strangedb", "ipsw"}}}
  \cup {[jobs |-> [p1 |-> <<"harden">>, p2 |-> <<"harden", "harden">>], world |-> {"quarantine"}]}

-----------------------------------------------------------------------------
(* A patch that failed left nothing in the guest, which boots to Setup      *)
(* Assistant as the warning says (Patch, rollbackPayload), unless a rollback*)
(* or clean-up failed in its turn, or the error was one of the three which  *)
(* Patch returns without taking the payload back: the grant's insert, the   *)
(* unmount and the last release of the image.                               *)
errorsKept == {"insert.failed", "unmount.failed", "release.failed"}

NoHalfPatch ==
  "cfg" \in world /\ "patched" \notin world /\ payload \cap world # {}
    => \/ world \cap (errorsKept \cup {"rollback.failed"}) # {}
       \/ untidy("NewMacOS")

(* Screen Sharing is reported as authorized (the grant is no longer owed)   *)
(* only when its rows are in the guest's database, or the database is one   *)
(* the program cannot write.                                                *)
GrantIsWritten ==
  "patched" \in world /\ "pending" \notin world => world \cap {"grants", "unsupported"} # {}

(* Between commands the guest's disk is not attached to the host, or the    *)
(* release itself failed or a process died: nothing else would ever release *)
(* it, and the guest could not start again.                                 *)
DiskReleased ==
  "attached" \in world /\ AtRest
    => \/ "stuck" \in world
       \/ \E job \in {"NewMacOS", "startMac", "AuthorizeScreenSharing"} : died(job) \/ untidy(job)

(* The guest is stopped for the grant only when its account exists and sshd *)
(* answers (waitFirstBootDone before the stop).                             *)
GuestNotCutShort ==
  "stopped.by.vee" \in world => {"done", "account", "sshd"} \subseteq world

(* A restore that failed leaves no disk images in a directory it made.      *)
RestoreLeavesNothing ==
  <<"NewMacOS", "err">> \in ended /\ "kept" \notin world /\ "cfg" \notin world
    => vmFiles \cap world = {}

(* Two processes never re-sign the helper at the same time.                 *)
OneSigner == ~({"signing.p1", "signing.p2"} \subseteq world)

(* A macOS guest is left usable or not at all (Patch, grantScreenSharing,   *)
(* AuthorizeScreenSharing, NewMacOS).                                       *)
MacGuestUsable ==
  /\ NoHalfPatch /\ GrantIsWritten /\ DiskReleased
  /\ GuestNotCutShort /\ RestoreLeavesNothing
=============================================================================
