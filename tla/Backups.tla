------------------------------ MODULE Backups -------------------------------
(***************************************************************************)
(* vee backup: cmd/backup.go over internal/backup.  A run is a row of the  *)
(* database with its directories; rsync copies one directory after the     *)
(* other, and the row's status is what the next vee backup goes by.        *)
(*                                                                         *)
(* Facts, for a run r: r.pending, r.running, r.failed, r.done its status;  *)
(* r.d1, r.d2 its recorded directories (the user picks both, or none);     *)
(* r.c1, r.c2 what was copied whole under its destination.  host: the      *)
(* guest's address is in the VM's config; key: vee's key is in the guest.  *)
(***************************************************************************)
EXTENDS StepMachine, TLC

statuses(r) == {r \o s : s \in {".pending", ".running", ".failed", ".done"}}
SetStatus(r, s) == TrySwap(statuses(r), {r \o s})

(* The directories of run r, in memory: r.w1, r.w2.                         *)
wanted(r) == {r \o ".w1", r \o ".w2"}

(* Mutant: the rows are inserted one by one.                                *)
CreateRunOneByOne(r) ==
  << Try({r \o ".pending"}), When({r \o ".w1"}, Try({r \o ".d1"})), When({r \o ".w2"}, Try({r \o ".d2"})) >>

(* CreateRun: the run and its directories are inserted in one transaction.  *)
CreateRun(r) ==
  << When(wanted(r), Try({r \o ".pending", r \o ".d1", r \o ".d2"})),
     When({r \o ".w1"}, Unless({r \o ".w2"}, Try({r \o ".pending", r \o ".d1"}))),
     Unless(wanted(r), Try({r \o ".pending"})) >>

(* LastIncomplete: the latest other run that is pending or failed.          *)
incomplete(x) ==
  << Check, Look(x \o ".pending", "last." \o x), Look(x \o ".failed", "last." \o x) >>

LastIncomplete(r) ==
  IF r = "b1" THEN incomplete("b2")
  ELSE IF r = "b2" THEN incomplete("b1")
  ELSE incomplete("b2") \o UnlessAll({"last.b2"}, incomplete("b1"))

loadDirs(x, r) ==
  << Check, When({x \o ".d1"}, Do({r \o ".w1"})), When({x \o ".d2"}, Do({r \o ".w2"})) >>

(* The picker lists the guest's home (from the cache if that is fresh).     *)
CacheGet == << Best({}) >>
EnumerateHomeStream == << Check >>
RunBackupLoader == CacheGet \o EnumerateHomeStream \o << Best({}), Pick({"picked"}) >>

(* Where the guest answers: the recorded host, the state's port, the        *)
(* address that goes with the MAC, or what the user types.  The key is      *)
(* copied there, and the host and the user are recorded; that save may      *)
(* fail and the backup goes on.                                             *)
promptSSHConn == << Check, Check, Check >>
injectSSHKey == << Check, Try({"key"}) >>
buildSSHConn ==
  << When({"host"}, Check), Unless({"host", "port"}, Pick({"mac"})) >>
  \o UnlessAll({"host", "port", "mac"},
       promptSSHConn \o injectSSHKey \o << Best({"host"}) >>)

RunRsyncCmd == Check
copy(r, d) ==
  WhenAll({r \o ".w" \o d}, << Check, RunRsyncCmd, Try({r \o ".c" \o d}) >>)

(* Execute: the first error ends the copying and is recorded, if it can be. *)
Execute(r) ==
  << SetStatus(r, ".running") >>
  \o Attempt("failed", copy(r, "1") \o copy(r, "2"))
  \o << When({"failed"}, Part({"stuck"}, BestSwap(statuses(r), {r \o ".failed"}))), Refuse({"failed"}),
        Part({"stuck"}, SetStatus(r, ".done")) >>

(* vee backup.  An offer to try the last incomplete run again may be        *)
(* turned down; then, as without an offer, the user picks.                  *)
retry(x, r) == WhenAll({"last." \o x}, loadDirs(x, r) \o CreateRun(r))

backupCmd(r) ==
  << Check >> \o buildSSHConn \o LastIncomplete(r)
  \o << When({"last.b1"}, Pick({"declined"})), When({"last.b2"}, Pick({"declined"})) >>
  \o UnlessAll({"declined"}, retry("b1", r) \o retry("b2", r))
  \o UnlessAll({r \o ".pending"},
       RunBackupLoader \o << StopUnless("picked"), Do(wanted(r)) >> \o CreateRun(r))
  \o << Check >> \o Execute(r)

ListRuns == << Check, Check >>

-----------------------------------------------------------------------------
BackupTable == "b1" :> backupCmd("b1") @@ "b2" :> backupCmd("b2") @@ "b3" :> backupCmd("b3")
               @@ "list" :> ListRuns

BackupScenarios ==
  {[jobs |-> [p1 |-> <<"b1", "b2", "b3">>, p2 |-> <<>>], world |-> {"port"}],
   [jobs |-> [p1 |-> <<"b1", "b2">>, p2 |-> <<>>], world |-> {}],
   [jobs |-> [p1 |-> <<"b1">>, p2 |-> <<"list", "b2">>], world |-> {"host"}]}

-----------------------------------------------------------------------------
(* A run recorded as done copied every directory the user picked, also when *)
(* it is the retry of a run, or the retry of a retry, and its selection was *)
(* read back from the database after a crash.                               *)
DoneIsComplete ==
  \A r \in {"b1", "b2", "b3"} :
    r \o ".done" \in world => {r \o ".c1", r \o ".c2"} \subseteq world

(* A backup that failed or was interrupted after its run was recorded is    *)
(* one that the next vee backup offers to try again.  Excepted are a status *)
(* that could not be written and a process that dies while it copies: its   *)
(* run stays "running", which LastIncomplete does not look for.             *)
FailureIsOffered ==
  \A p \in Procs, r \in {"b1", "b2", "b3"} :
    Ends(p, r, "err") \/ Ends(p, r, "died") =>
      LET offered == {r \o ".pending", r \o ".failed"} \cap world' # {}
          lost    == r \o ".running" \in world' /\ (ps'[p].last[2] = "died" \/ "stuck" \in world')
      IN r \o ".d1" \in world' => offered \/ lost
=============================================================================
