----------------------------- MODULE KillSwitch -----------------------------
(***************************************************************************)
(* What the torrent and bitmagnet guests do to keep their traffic inside   *)
(* the VPN (internal/templates: torrent.go, torrent_alpine.go,             *)
(* wgkillswitch.go, bitmagnet.go): the first-boot commands of cloud-init,  *)
(* later boots, and the script that follows an endpoint which changes its  *)
(* address.  A first-boot command that fails does not keep the next one    *)
(* from running, none is run again, and the guest may be cut off anywhere. *)
(*                                                                         *)
(* Facts.  deny, deny6: the outgoing policy in force, hole.x: the          *)
(* handshake may leave for address x, hole.dns: a lookup may leave; s.f:   *)
(* rule f as saved for the next boot.  addr.x: where the provider's server *)
(* is; file.x: endpoint-addrs; wg.x: wg0 is up and dials x.  app: the      *)
(* client runs; share, pgshare: a host directory was asked for, mounted:   *)
(* it is.  idx.host, idx.local: a database on the share, on the own disk.  *)
(* rc.f: f is restored or started at boot.  What failed: stuck, a command  *)
(* of a first boot; unruled, one of the kill switch; nomount, one of the   *)
(* mounts; unpinned, unsaved, dns.left: a line of the refresh script.      *)
(* pinned: the first boot opened the hole for the handshake (history).     *)
(***************************************************************************)
EXTENDS StepMachine, TLC

Addrs == {"old", "new"}
each(f(_)) == << f("old"), f("new") >>
live(fs) == fs \cup {"s." \o f : f \in fs}

(* A first-boot command of the kill switch, and one of the mounts.          *)
rule(adds)     == Part({"unruled"}, Best(adds))
mounting(adds) == Part({"nomount"}, Best(adds))

(* A line of the refresh script that ends in "|| true".                     *)
quiet(ghost, adds)   == Part(ghost, Best(adds))
unquiet(ghost, dels) == Part(ghost, BestClear(dels))

(* getent ahostsv4: an answer only if the query may leave.                  *)
getent(tag) ==
  [Step EXCEPT !.look = {<<"addr." \o x, tag \o x>> : x \in Addrs}, !.unless = {"silent"}]
lookup(tag) ==
  << Pick({"silent"}), Unless({"deny"}, getent(tag)), When({"deny", "hole.dns"}, getent(tag)) >>

(* wgResolveEndpointCmd, run while nothing is denied yet.                   *)
wgResolveEndpointCmd ==
  lookup("first.") \o each(LAMBDA x : When({"first." \o x}, cmd({"file." \o x})))

(* wg-quick up resolves the endpoint for itself, from a cache or not, and   *)
(* keeps the address it got.                                                *)
wgDown == Clear({"wg." \o x : x \in Addrs})
wgUp(tag) ==
  << [Step EXCEPT !.pick = {tag \o "none"}] >>
  \o each(LAMBDA x : When({"addr." \o x}, Unless({tag \o "none", "wg.old", "wg.new"}, Do({"wg." \o x}))))

-----------------------------------------------------------------------------
(* ufw: a rule is in force and saved at once.  Enabling it puts the default *)
(* policies in force, for both families.                                    *)
ufwEnable == << rule({"ufw.on"}), When({"ufw.on", "s.deny"}, Do({"deny", "deny6"})) >>

torrentBaseRunCmds == << cmd(live({"in.ssh"})) >> \o ufwEnable \o << cmd({"qga"}) >>

nfsBypassRules == << When({"nfs"}, cmd(live({"hole.nfs"}))) >>

(* The timer restarts a tunnel that is down; with a host name, its service  *)
(* runs the refresh script first.                                           *)
torrentWGRetryCmds == << cmd({"retry.unit"}), cmd({}), cmd({"timer"}) >>
torrentWGEndpointRefreshCmds == << cmd({"refresh.unit"}), cmd({}) >>

torrentWGKillSwitchCmds ==
  wgResolveEndpointCmd \o << rule({"s.deny"}), cmd({}), cmd(live({"out.wg"})), cmd({}) >>
  \o each(LAMBDA x : When({"file." \o x}, rule(live({"hole." \o x}) \cup {"pinned"})))
  \o << cmd(live({"out.ssh"})) >> \o nfsBypassRules \o << cmd({"rc.wg"}) >> \o wgUp("boot.")
  \o torrentWGRetryCmds \o torrentWGEndpointRefreshCmds

(* The shares, recorded in fstab, before the client is started.             *)
appendFstab(f) == When({f}, mounting({"fstab." \o f}))
mountShare(f) ==
  << When({f}, mounting({"dir." \o f})), appendFstab(f), When({f, "dir." \o f}, mounting({"mounted." \o f})) >>

torrentMountAndAppCmds ==
  mountShare("share") \o mountShare("nfs") \o << cmd({}), cmd({"app", "rc.app"}) >>

(* nordVPNCmds: the daemon's own kill switch, and its holes before the      *)
(* connection.                                                              *)
nordVPNCmds ==
  << rule({"snap"}), cmd({}), cmd({"consent"}), When({"consent"}, cmd({"login"})),
     When({"snap"}, rule({"deny", "deny6", "s.nord"})), cmd({"rc.wg"}), cmd({}), When({"nfs"}, cmd({"hole.nfs"})),
     cmd({"in.ssh"}) >> \o wgUp("boot.")

(* NewTorrentConfig: what the guest is told to run, in this order.          *)
torrentRunCmds ==
  UnlessAll({"nord"}, torrentWGKillSwitchCmds) \o torrentBaseRunCmds
  \o WhenAll({"nord"}, nordVPNCmds) \o torrentMountAndAppCmds

-----------------------------------------------------------------------------
(* iptables: a rule is in force at once and lost at the next boot unless    *)
(* the table was saved.                                                     *)
rules4 == << "deny", "hole.old", "hole.new", "hole.dns", "in.ssh" >>
copyRule(f) == << When({f}, Do({"s." \o f})), Unless({f}, Clear({"s." \o f})) >>
iptablesSave(tag, ghost) ==
  Attempt(tag, << Part(ghost, Check) >>)
  \o UnlessAll({tag}, copyRule(rules4[1]) \o copyRule(rules4[2]) \o copyRule(rules4[3])
                      \o copyRule(rules4[4]) \o copyRule(rules4[5]))

wgDropIPv6Cmds == << cmd({}), rule({"deny6"}), cmd({}) >>
wgPersistIPv6Cmds == << When({"deny6"}, rule({"s.deny6"})), rule({"rc.v6"}) >>

inboundCmds == << cmd({"in.drop"}), cmd({}), cmd({"in.ssh"}) >>

(* The boot hook runs the refresh before the tunnel; cron runs it later.    *)
alpineWGEndpointRefreshCmds == << cmd({"rc.wg", "rc.refresh"}), cmd({}), cmd({"cron"}), cmd({}), cmd({"timer"}) >>

(* torrentAlpineKillSwitchCmds, and bitmagnetKillSwitchCmds, which adds a   *)
(* rule for the crawler's group.                                            *)
torrentAlpineKillSwitchCmds ==
  inboundCmds \o wgDropIPv6Cmds \o wgResolveEndpointCmd
  \o << rule({"deny"}), cmd({}), cmd({"out.wg"}) >>
  \o each(LAMBDA x : When({"file." \o x}, rule({"hole." \o x, "pinned"})))
  \o << cmd({"out.ssh"}), cmd({}), When({"nfs"}, cmd({"hole.nfs"})) >> \o wgUp("boot.")
  \o << cmd({"rc.wg"}), cmd({}) >> \o alpineWGEndpointRefreshCmds
  \o iptablesSave("nosave", {"unruled"}) \o << rule({"rc.v4"}) >> \o wgPersistIPv6Cmds

bitmagnetKillSwitchCmds ==
  inboundCmds \o wgDropIPv6Cmds \o wgResolveEndpointCmd
  \o << rule({"deny"}), cmd({}), cmd({"out.wg"}) >>
  \o each(LAMBDA x : When({"file." \o x}, rule({"hole." \o x, "pinned"})))
  \o << cmd({"out.ssh"}), cmd({}), cmd({"deny.group"}), Best({}) >> \o wgUp("boot.")
  \o alpineWGEndpointRefreshCmds \o << cmd({}) >>
  \o iptablesSave("nosave", {"unruled"}) \o << rule({"rc.v4"}) >> \o wgPersistIPv6Cmds

alpinePackages == << cmd({}), cmd({"pkgs"}) >>
sshForwarding == << cmd({}), cmd({"forwarding"}), cmd({}) >>
torrentAlpineMountCmds == mountShare("share") \o mountShare("nfs") \o << cmd({}) >>

torrentAlpineRunCmds ==
  alpinePackages \o << When({"nfs"}, cmd({"rc.nfs"})), cmd({"qga"}) >> \o sshForwarding
  \o torrentAlpineMountCmds \o << cmd({"rc.app"}), When({"pkgs"}, cmd({"app"})) >>
  \o torrentAlpineKillSwitchCmds

-----------------------------------------------------------------------------
bitmagnetInstallCmds == << cmd({"tar"}), When({"tar"}, cmd({"bin"})), cmd({}) >>

(* initdb unless PG_VERSION is there, on the share if that is mounted.      *)
initdb ==
  << When({"mounted.pgshare"}, Unless({"idx.host"}, cmd({"idx.host"}))),
     Unless({"mounted.pgshare", "idx.local"}, cmd({"idx.local"})) >>
pgOn == << cmd({"rc.pg"}), cmd({"pg.on"}), cmd({}) >>
roleAndDatabase == << When({"pg.on"}, cmd({"role"})), When({"pg.on", "role"}, cmd({"pgdb"})) >>
renumber == << When({"pgshare"}, cmd({})), When({"pgshare"}, cmd({})), Best({}), cmd({}) >>

(* Mutant: the data directory is mounted after it was initialised.          *)
bitmagnetPostgresCmdsMountLast ==
  renumber \o initdb \o << cmd({}) >> \o pgOn \o roleAndDatabase \o mountShare("pgshare")

bitmagnetPostgresCmds ==
  mountShare("pgshare") \o renumber \o initdb \o << cmd({}) >> \o pgOn \o roleAndDatabase

bitmagnetRunCmds ==
  alpinePackages \o bitmagnetInstallCmds \o bitmagnetPostgresCmds
  \o << cmd({"rc.app"}), When({"bin"}, cmd({"app"})), cmd({"qga"}) >> \o sshForwarding
  \o bitmagnetKillSwitchCmds

-----------------------------------------------------------------------------
(* The fragments of the refresh script for the two bases: the rules an      *)
(* addition or withdrawal touches, and what makes the tunnel read its       *)
(* config again.                                                            *)
holes == {"hole.old", "hole.new", "hole.dns"}
ufwFirewallCmds == [f \in holes |-> live({f})]
ufwRestartTunnel == << wgDown >> \o wgUp("again.")
alpineFirewallCmds == [f \in holes |-> {f}]
alpineRestartTunnel == iptablesSave("unsaved", {"unsaved"}) \o << wgDown >> \o wgUp("again.")

got == {"got." \o x : x \in Addrs}

(* The answer goes to endpoint-addrs, truncated first.                      *)
writeAddrs ==
  << Clear({"file." \o x : x \in Addrs}) >>
  \o each(LAMBDA x : When({"got." \o x}, Best({"file." \o x})))

(* Mutant: the old address is withdrawn before the new one is allowed.      *)
repinWithdrawsFirst(holesIn) ==
  each(LAMBDA x : When({"was." \o x}, Unless({"got." \o x}, unquiet({}, holesIn["hole." \o x]))))
  \o each(LAMBDA x : When({"got." \o x}, quiet({"unpinned"}, holesIn["hole." \o x])))
  \o writeAddrs

(* The new addresses are allowed, then recorded, then the old withdrawn.    *)
repin(holesIn) ==
  each(LAMBDA x : When({"got." \o x}, quiet({"unpinned"}, holesIn["hole." \o x])))
  \o writeAddrs
  \o each(LAMBDA x : When({"was." \o x}, Unless({"got." \o x}, unquiet({}, holesIn["hole." \o x]))))

(* A hole to the name servers for the time of the lookup; no answer changes *)
(* nothing.                                                                 *)
lookupBehindHole(holesIn) ==
  << quiet({}, holesIn["hole.dns"]) >> \o lookup("got.")
  \o << unquiet({"dns.left"}, holesIn["hole.dns"]), [Step EXCEPT !.unless = got, !.ret = "ok"] >>

wgRefreshEndpointScript(holesIn, restart) ==
  lookupBehindHole(holesIn)
  \o << [Step EXCEPT !.look = {<<"file." \o x, "was." \o x>> : x \in Addrs}],
        Stop({"got.old", "was.old"}), Stop({"got.new", "was.new"}) >>
  \o repin(holesIn) \o restart

-----------------------------------------------------------------------------
(* A later boot: the saved rules, then the mounts of fstab, the tunnel and  *)
(* the services that were enabled.  up marks the time between boots.        *)
restoreRule(f, cond) == When(cond \cup {"s." \o f}, Do({f}))
allRules == {"deny", "deny6", "hole.old", "hole.new", "hole.dns", "in.ssh", "in.drop"}

mountsAtBoot == << When({"fstab.share"}, mounting({"mounted.share"})), When({"fstab.nfs"}, mounting({"mounted.nfs"})),
                   When({"fstab.pgshare"}, mounting({"mounted.pgshare"})) >>
servicesAtBoot == << When({"rc.pg"}, Do({"pg.on"})), When({"rc.app"}, Do({"app"})), Do({"up"}) >>
bootWith(v4, v6, hook) ==
  << Clear({"up", "app", "pg.on", "wg.old", "wg.new", "mounted.share", "mounted.nfs", "mounted.pgshare"}
           \cup allRules) >>
  \o << restoreRule("deny", v4), restoreRule("hole.old", v4), restoreRule("hole.new", v4),
        restoreRule("hole.dns", v4), restoreRule("in.ssh", v4), restoreRule("deny6", v6) >>
  \o mountsAtBoot \o WhenAll({"rc.wg"}, hook \o wgUp("boot.")) \o servicesAtBoot

bootUfw == << When({"ufw.on", "s.deny"}, Do({"s.deny6"})) >> \o bootWith({"ufw.on"}, {"ufw.on"}, <<>>)
bootNord == << When({"s.nord"}, Do({"s.deny", "s.deny6"})) >> \o bootWith({}, {}, <<>>)

(* The hook of the Alpine bases runs the refresh before the tunnel.         *)
alpineHook == Attempt("hook", WhenAll({"rc.refresh"}, wgRefreshEndpointScript(alpineFirewallCmds, alpineRestartTunnel)))
bootAlpine == bootWith({"rc.v4"}, {"rc.v6"}, alpineHook)

-----------------------------------------------------------------------------
(* The retry of the timer on the ufw base: an interface that is there is    *)
(* taken for a tunnel that works.                                           *)
retryTunnel == << Stop({"wg.old"}), Stop({"wg.new"}) >> \o wgUp("retry.")

(* The timer and cron run while the guest is up; with a host name the unit  *)
(* of the timer is the script and then the retry.                           *)
byTimer(script) == << StopUnless("up"), StopUnless("timer") >> \o script
timerUnit ==
  Attempt("script", WhenAll({"refresh.unit"}, wgRefreshEndpointScript(ufwFirewallCmds, ufwRestartTunnel)))
  \o retryTunnel

(* The provider moves its server.                                           *)
rotate == << Swap({"addr.old"}, {"addr.new"}) >>

-----------------------------------------------------------------------------
SwitchTable ==
  "ks.ubuntu" :> torrentRunCmds \o << Do({"up"}) >> @@ "ks.alpine" :> torrentAlpineRunCmds \o << Do({"up"}) >>
  @@ "ks.bitmagnet" :> bitmagnetRunCmds \o << Do({"up"}) >>
  @@ "ks.boot.ufw" :> bootUfw @@ "ks.boot.nord" :> bootNord @@ "ks.boot.alpine" :> bootAlpine
  @@ "ks.refresh.ufw" :> byTimer(timerUnit)
  @@ "ks.refresh.alpine" :> byTimer(wgRefreshEndpointScript(alpineFirewallCmds, alpineRestartTunnel))
  @@ "ks.rotate" :> rotate

firstBoots == {"ks.ubuntu", "ks.alpine", "ks.bitmagnet"}
refreshes  == {"ks.refresh.ufw", "ks.refresh.alpine"}

SwitchScenarios ==
  {[jobs |-> [p1 |-> <<"ks.ubuntu", "ks.rotate", "ks.refresh.ufw", "ks.boot.ufw", "ks.refresh.ufw">>, p2 |-> <<>>],
    world |-> {"addr.old", "share"}],
   [jobs |-> [p1 |-> <<"ks.ubuntu", "ks.boot.nord">>, p2 |-> <<>>], world |-> {"addr.old", "nord", "nfs"}],
   [jobs |-> [p1 |-> <<"ks.alpine", "ks.rotate", "ks.refresh.alpine", "ks.boot.alpine", "ks.refresh.alpine">>, p2 |-> <<>>],
    world |-> {"addr.old", "nfs"}],
   [jobs |-> [p1 |-> <<"ks.bitmagnet", "ks.boot.alpine">>, p2 |-> <<>>], world |-> {"addr.old", "pgshare", "idx.host"}],
   [jobs |-> [p1 |-> <<"ks.bitmagnet">>, p2 |-> <<>>], world |-> {"addr.old"}]}

-----------------------------------------------------------------------------
(* The client cannot fall back to the LAN: once a guest has been set up, no *)
(* reboot, dead tunnel, moved endpoint, failed line of a refresh or refresh *)
(* cut off half way leaves the client running without the deny policy, for  *)
(* IPv4 and for IPv6.  On the ufw base that holds during the first boot     *)
(* too; the Alpine bases start the client before the policy.  A first-boot  *)
(* command of the kill switch that fails (unruled) is never run again.      *)
FailsClosed ==
  "app" \in world /\ "unruled" \notin world /\ (\E j \in firstBoots : <<j, "ok">> \in ended \/ "ufw.on" \in world)
    => {"deny", "deny6"} \subseteq world

(* On Alpine the tables are saved after the new address is recorded: when   *)
(* the save fails or the script is cut off before it, the next boot does    *)
(* not restore the hole, and the record is taken for it.                    *)
holeNotSaved ==
  /\ "unsaved" \in world \/ died("ks.refresh.alpine") \/ died("ks.boot.alpine")
  /\ \E r \in {"ok", "died"} : <<"ks.boot.alpine", r>> \in ended

(* With the policy in force there is never a moment when the handshake has  *)
(* no way out: a refresh opens the new hole before it closes the old one.   *)
(* An opening that fails is not noticed (unpinned): the address is recorded *)
(* and the old hole closed all the same.                                    *)
HandshakeHasAWayOut ==
  {"up", "deny", "pinned"} \subseteq world /\ "unpinned" \notin world /\ ~holeNotSaved
  => \E x \in Addrs : "hole." \o x \in world

(* The hole for the lookup is closed again whatever came of it, unless the  *)
(* script was cut off inside it or the withdrawal failed.                   *)
LookupHoleCloses ==
  AtRest /\ "hole.dns" \in world
    => "dns.left" \in world \/ \E j \in refreshes \cup {"ks.boot.alpine"} : died(j)

(* A refresh that ran to its end has pinned the address it was given,       *)
(* unless the rule for it failed, now or on the first boot, or was not      *)
(* saved: the record of the address is then taken for the pin.              *)
RefreshRepins ==
  \A p \in Procs, j \in refreshes, x \in Addrs :
    /\ Ends(p, j, "ok") /\ "got." \o x \in ps[p].seen
    /\ {"unruled", "unpinned"} \cap world = {} /\ ~holeNotSaved
    => "hole." \o x \in world'

(* The client never writes into the guest's own disk in place of a share,   *)
(* and PostgreSQL never makes a second, empty database there while the real *)
(* one is on the host: both come after the mount, on the first boot and on  *)
(* later ones, whatever else fails.  They do not wait for it: a mount that  *)
(* failed (nomount) keeps neither from starting.                            *)
ShareBeforeService ==
  "nomount" \notin world =>
    /\ \A f \in {"share", "nfs"} : {f, "app"} \subseteq world => "mounted." \o f \in world
    /\ ~{"pgshare", "idx.local"} \subseteq world
    /\ {"pgshare", "pg.on"} \subseteq world => "mounted.pgshare" \in world

(* The tunnel or nothing, and the tunnel can always come back: the policy   *)
(* is in force, its hole for lookups closes, and the handshake has a way    *)
(* out.                                                                     *)
KillSwitchHolds == FailsClosed /\ LookupHoleCloses /\ HandshakeHasAWayOut
=============================================================================
