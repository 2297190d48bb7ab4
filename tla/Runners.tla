------------------------------ MODULE Runners -------------------------------
(***************************************************************************)
(* The secrets kept for GitHub runners: the host's age identity and the    *)
(* credential snapshots (internal/runnercreds), the runners' SSH keys      *)
(* (internal/runnerssh), and what puts them together for a create          *)
(* (internal/runnersetup, vee runner).  Also vee's own SSH key pair        *)
(* (internal/sshkeys).  Nothing locks these files.                         *)
(*                                                                         *)
(* Facts.  id.x: identity.txt holds the identity process x made ("old" is  *)
(* one from before).  age.x: the private key's file, encrypted to identity *)
(* x; pub: the public key's file.  snap.x: a snapshot encrypted to x.      *)
(* tmp.p: a temporary file of p.  vk, vk.pub: vee's key pair, vk.whole and *)
(* vk.pub.whole: written to the end.                                       *)
(***************************************************************************)
EXTENDS StepMachine, TLC

Makers == Procs \cup {"old"}
ids   == {"id." \o x : x \in Makers}
ages  == {"age." \o x : x \in Makers}
snaps == {"snap." \o x : x \in Makers}

(* Mutant: the file is truncated and written in place.                      *)
writeFileInPlace(p, old, new) == << TryClear(old), Try(new) >>

(* writeSecret, writeFileAtomic: a temporary file of its own name, then a   *)
(* rename over whatever is there.                                           *)
writeSecret(p) == Undo({"tmp." \o p}, Part({"tmp." \o p}, Try({"tmp." \o p})))

writeFileAtomic(p, old, new) == << writeSecret(p), TrySwap({"tmp." \o p} \cup old, new) >>

(* The identity is read; which one it was is remembered.                    *)
readIdentity == [Check EXCEPT !.look = {<<"id." \o x, "has." \o x>> : x \in Makers}]
hasOne == {"has." \o x : x \in Makers}

(* Mutant: an identity that cannot be read is taken for none.               *)
LoadOrCreateIdentityAnew(p) ==
  Attempt("noid", << readIdentity >>)
  \o UnlessAll(hasOne, << Check >> \o writeFileAtomic(p, ids, {"id." \o p}))

(* LoadOrCreateIdentity: on the first use an identity is made and put in    *)
(* place, over one another process may have put there meanwhile.            *)
LoadOrCreateIdentity(p) ==
  << readIdentity >>
  \o UnlessAll(hasOne, << Check >> \o writeFileAtomic(p, ids, {"id." \o p}))

(* The identity the process works with: the one it read, or its own.        *)
forIdentity(p, old, name) ==
  LET own == writeFileAtomic(p, old, {name \o "." \o p})
      others == Makers \ {p}
      for(x) == WhenAll({"has." \o x}, writeFileAtomic(p, old, {name \o "." \o x})) IN
  LET other == CHOOSE x \in Makers \ {p, "old"} : TRUE IN
  UnlessAll({"has." \o x : x \in others}, own) \o for("old") \o for(other)

-----------------------------------------------------------------------------
generateKeyPair == Check
encrypt == Check
statKey == [Check EXCEPT !.look = {<<a, "key">> : a \in ages}]
shown == << Unless({"pub"}, Refuse({"key"})), When({"key"}, Check) >>

(* EnsureKey: a private key that is there has its public key beside it, or  *)
(* the call fails; a new pair is written private key first.                 *)
EnsureKey(p) ==
  << statKey >> \o shown
  \o UnlessAll({"key"},
       << generateKeyPair, encrypt >> \o forIdentity(p, ages, "age")
       \o << Undo(ages, Step) >> \o writeFileAtomic(p, {"pub"}, {"pub"}))

(* Decrypting with another identity than the file was encrypted to fails.   *)
decrypts(p, name) ==
  LET wrong(x) == << Unless({"has." \o x}, Refuse({name \o "." \o x})) >>
      other == CHOOSE x \in Makers \ {p, "old"} : TRUE IN
  wrong("old") \o wrong(other)
  \o << Refuse({name \o "." \o p, "has.old"}), Refuse({name \o "." \o p, "has." \o other}), Check >>

PublicKey == << Check, Require("pub") >>
LoadPrivateKey(p) == << [Check EXCEPT !.look = {<<a, "key.read">> : a \in ages}], Require("key.read") >>
                     \o decrypts(p, "age")

Restore(p) == << Check >> \o decrypts(p, "snap") \o << Check, Check >>

(* Output runs a command in the guest.                                      *)
Output == Check
Snapshot(p) ==
  << Output, Output, Check, encrypt >> \o forIdentity(p, snaps, "snap")

(* SnapshotWithRetry: the guest registers later; two attempts stand for all.*)
SnapshotWithRetry(p) ==
  Attempt("again", Snapshot(p)) \o WhenAll({"again"}, Snapshot(p))

(* Prepare: a snapshot makes the token unnecessary.                         *)
hasSnapshot == [Step EXCEPT !.look = {<<s, "restore">> : s \in snaps}]
Prepare(p) ==
  << Check, hasSnapshot >>
  \o WhenAll({"restore"}, LoadOrCreateIdentity(p) \o Restore(p))
  \o << Unless({"restore"}, Check) >>
  \o LoadOrCreateIdentity(p) \o EnsureKey(p) \o LoadPrivateKey(p)

runnerKeyCmd(p) == LoadOrCreateIdentity(p) \o EnsureKey(p)
runnerSnapshotCmd(p) == << Check, Check, Check >> \o LoadOrCreateIdentity(p) \o Snapshot(p)

(* EnsureVeeKeyPair: written in place, private key first, nothing undone.   *)
EnsureVeeKeyPair ==
  << Look("vk", "old.pair"), When({"old.pair"}, Unless({"vk.pub"}, Refuse({}))), Stop({"old.pair"}),
     Check, Check, Part({"vk"}, Try({"vk", "vk.whole"})), Part({"vk.pub"}, Try({"vk.pub", "vk.pub.whole"})) >>

-----------------------------------------------------------------------------
RunnerTable(p) ==
  "runner.prepare" :> Prepare(p) @@ "runner.key" :> runnerKeyCmd(p) @@ "runner.snapshot" :> runnerSnapshotCmd(p)
  @@ "runner.retry" :> LoadOrCreateIdentity(p) \o SnapshotWithRetry(p) @@ "runner.public" :> PublicKey
  @@ "vee.key" :> EnsureVeeKeyPair

RunnerScenarios ==
  {[jobs |-> [p1 |-> <<"runner.key", "runner.prepare", "runner.public">>, p2 |-> <<>>], world |-> {}],
   [jobs |-> [p1 |-> <<"runner.snapshot", "runner.prepare">>, p2 |-> <<>>], world |-> {"id.old", "hadid"}],
   [jobs |-> [p1 |-> <<"runner.retry">>, p2 |-> <<"runner.key">>], world |-> {"id.old", "snap.old", "hadid"}],
   [jobs |-> [p1 |-> <<"runner.key">>, p2 |-> <<"runner.key">>], world |-> {}],
   [jobs |-> [p1 |-> <<"vee.key", "vee.key">>, p2 |-> <<>>], world |-> {}]}

-----------------------------------------------------------------------------
(* Every key and every snapshot on the disk can be decrypted with the       *)
(* identity on the disk.  Only two first uses of vee's identity at the same *)
(* time may break this: each makes one, the later rename wins, and what the *)
(* other encrypted is lost.                                                 *)
SecretsOpen ==
  "hadid" \in world \/ ~Overlap =>
    \A x \in Makers : {"age." \o x, "snap." \o x} \cap world # {} => "id." \o x \in world

(* A private key without its public key, which makes every later use fail,  *)
(* is left only by a process that died between the two writes, or could not *)
(* remove the first one.                                                    *)
NoHalfKey ==
  AtRest /\ ~Overlap /\ ages \cap world # {} /\ "pub" \notin world
    => \E j \in {"runner.key", "runner.prepare"} : died(j) \/ untidy(j)

(* The fact that the file holds the identity of a maker.                    *)
written == [x \in Makers |-> "id." \o x]

(* The identity file as its readers find it: missing, the identity of one   *)
(* maker, or torn between several.                                          *)
identityNow ==
  LET of == {x \in Makers : written[x] \in world} IN
  IF of = {} THEN "missing" ELSE IF Cardinality(of) = 1 THEN CHOOSE x \in of : TRUE ELSE "torn"

IdentityFile == INSTANCE AtomicFile WITH Values <- Makers, Missing <- "missing", content <- identityNow

(* The detailed writes of LoadOrCreateIdentity and everything that uses it  *)
(* implement an atomic file: whatever fails, dies or overlaps, no reader    *)
(* meets an identity file that is torn, or gone once it was there           *)
(* (age.go: "Write atomically").                                             *)
IdentityIsAtomic == IdentityFile!AtomicSpec
=============================================================================
