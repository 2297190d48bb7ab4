----------------------------- MODULE SSHProxies -----------------------------
(***************************************************************************)
(* The daemon's loopback listeners for bridge-mode guests (internal/vm/    *)
(* sshproxy.go): every tick reconciles them with the VMs that run, and     *)
(* records the port a listener got in the VM's record.  Start and Stop     *)
(* rewrite that record at the same time, and so does every other program   *)
(* that loads it, changes a field and saves the whole of it: WaitReady,    *)
(* the watcher of guest shutdowns, the health check, "vee ssh-port".       *)
(***************************************************************************)
EXTENDS Naturals, FiniteSets

CONSTANTS
  ProxyVMs,    \* the VMs
  Bridged,     \* those that are on a bridge at first
  ProxyPorts,  \* the host ports 2200..2299: a set of numbers above 0
  NoProxyVM,   \* no VM
  MaxBoots,    \* bound: starts of VMs
  MaxAsides    \* bound: edits, other writers, listeners of others, failed saves

ASSUME ProxyAssumption ==
  /\ Bridged \subseteq ProxyVMs /\ ProxyPorts \subseteq Nat \ {0} /\ MaxBoots \in Nat /\ MaxAsides \in Nat
  /\ NoProxyVM \notin ProxyVMs

VARIABLES
  pconf,     \* [v] the saved ssh_port and whether the NIC is a bridge
  pstate,    \* [v] the saved record: running, boot (the process), port
  boots,     \* starts so far: they number the processes
  proc,      \* [v] the process of v that is alive; 0 none
  starting,  \* [v] the process of a Start that has not saved its record; 0 none
  fwd,       \* [v] the ports QEMU forwards in the latest run; {} on a bridge
  proxies,   \* [v] the port the daemon listens on for v; 0 none
  busy,      \* ports some other program listens on
  pd,        \* the daemon: its step, the VMs left to treat, the ports they
             \* prefer as listed, the record it holds, the VMs whose listen
             \* failed in this pass, whether a pass has completed; the VMs a
             \* killed daemon left and none has treated since
  writer,    \* another program that holds a record between load and save
  asides,    \* how many of the things MaxAsides bounds have happened
  behind     \* history: VMs whose record, since Start or Stop wrote it anew,
             \* missed a save, was saved over from an older copy, or was given
             \* the listener of a run that is over

proxyVars == <<pconf, pstate, boots, proc, starting, fwd, proxies, busy, pd, writer, asides,
               behind>>
vmVars    == <<boots, proc, starting>>

NoState == [running |-> FALSE, boot |-> 0, port |-> 0]

(* A program that holds no record, and one that loaded v's and is to save   *)
(* it with another port.                                                    *)
NoHold     == [v |-> NoProxyVM, base |-> NoState, copy |-> NoState]
Hold(v, p) == [v |-> v, base |-> pstate[v], copy |-> [pstate[v] EXCEPT !.port = p]]

NoPrefs == [v \in ProxyVMs |-> 0]
Daemon0 == [pc |-> "idle", todo |-> {}, prefs |-> NoPrefs, hold |-> NoHold,
            failed |-> {}, synced |-> FALSE, left |-> {}]

aside == asides < MaxAsides /\ asides' = asides + 1

(* What a program holds is saved, whatever the record has become; or the    *)
(* save fails, or the program dies before it, and the record stays.         *)
saveState(h) ==
  \/ /\ pstate' = [pstate EXCEPT ![h.v] = h.copy]
     /\ behind' = IF pstate[h.v] = h.base THEN behind ELSE behind \cup {h.v}
     /\ asides' = asides
  \/ /\ h.copy # h.base /\ aside
     /\ behind' = behind \cup {h.v}
     /\ pstate' = pstate

forwarded(v) == IF proc[v] # 0 THEN fwd[v] ELSE {}

inUse == busy \cup {proxies[v] : v \in ProxyVMs} \cup UNION {forwarded(v) : v \in ProxyVMs}

(* availablePort: the preferred port if it is free, else the lowest free    *)
(* one of the range, else the preferred one although it is taken.           *)
availablePort(preferred) ==
  LET free == ProxyPorts \ inUse IN
  IF preferred \in free \/ free = {} THEN preferred
  ELSE CHOOSE p \in free : \A q \in free : p <= q

(* The process on record is alive.                                          *)
isLive(v) == pstate[v].running /\ proc[v] # 0 /\ pstate[v].boot = proc[v]

isWanted(v) == isLive(v) /\ pconf[v].bridge /\ pconf[v].port > 0

-----------------------------------------------------------------------------
(* The VM: Start and Stop save a new record (manager.go).                   *)

(* Start, up to the launch.  On user-mode networking the configuration is   *)
(* saved with the port that QEMU is told to forward; QEMU exits when that   *)
(* port is taken.                                                           *)
startVM(v) ==
  /\ proc[v] = 0 /\ starting[v] = 0 /\ boots < MaxBoots
  /\ LET p == availablePort(pconf[v].port) IN
     IF pconf[v].bridge
     THEN pconf' = pconf /\ fwd' = [fwd EXCEPT ![v] = {}]
     ELSE /\ p \notin inUse
          /\ pconf' = [pconf EXCEPT ![v].port = p]
          /\ fwd' = [fwd EXCEPT ![v] = {p}]
  /\ boots' = boots + 1
  /\ proc' = [proc EXCEPT ![v] = boots']
  /\ starting' = [starting EXCEPT ![v] = boots']
  /\ UNCHANGED <<pstate, proxies, busy, pd, writer, behind, asides>>

(* Start's record, which carries nothing of the port over.                  *)
startSave(v) ==
  /\ starting[v] # 0
  /\ \E p \in IF fwd[v] = {} THEN {0} ELSE fwd[v] :
       pstate' = [pstate EXCEPT ![v] = [running |-> TRUE, boot |-> starting[v], port |-> p]]
  /\ starting' = [starting EXCEPT ![v] = 0]
  /\ behind' = behind \ {v}
  /\ UNCHANGED <<pconf, boots, proc, fwd, proxies, busy, pd, writer, asides>>

(* Stop kills the process on record.                                        *)
stopVM(v) ==
  /\ pstate[v].running
  /\ proc' = [proc EXCEPT ![v] = IF isLive(v) THEN 0 ELSE @]
  /\ pstate' = [pstate EXCEPT ![v] = NoState]
  /\ behind' = IF proc'[v] = 0 THEN behind \ {v} ELSE behind
  /\ UNCHANGED <<pconf, boots, starting, fwd, proxies, busy, pd, writer, asides>>

crashVM(v) ==
  /\ proc[v] # 0
  /\ proc' = [proc EXCEPT ![v] = 0]
  /\ UNCHANGED <<pconf, pstate, boots, starting, fwd, proxies, busy, pd, writer, behind, asides>>

(* The network of a VM that is off is edited.                               *)
editNIC(v) ==
  /\ aside
  /\ proc[v] = 0 /\ starting[v] = 0
  /\ pconf' = [pconf EXCEPT ![v].bridge = ~@]
  /\ UNCHANGED <<pstate, vmVars, fwd, proxies, busy, pd, writer, behind>>

otherListens(p) ==
  /\ aside
  /\ p \in ProxyPorts \ inUse
  /\ busy' = busy \cup {p}
  /\ UNCHANGED <<pconf, pstate, vmVars, fwd, proxies, pd, writer, behind>>

-----------------------------------------------------------------------------
(* The other writers of records.                                            *)

(* persistPhase, markReady, recordGuestShutdown, RunHealthCheck: a record   *)
(* is loaded, to be saved with the same port.                               *)
touchLoad(v) ==
  /\ aside
  /\ writer.v = NoProxyVM
  /\ writer' = Hold(v, pstate[v].port)
  /\ UNCHANGED <<pconf, pstate, vmVars, fwd, proxies, busy, pd, behind>>

(* SetSSHPort: the port is saved in the configuration.  While the VM runs   *)
(* on user-mode networking and its monitor answers, the forward on record   *)
(* is removed and the new one added, and only then the record is saved, as  *)
(* it was loaded.                                                           *)
SetSSHPort(v, p) ==
  /\ aside
  /\ writer.v = NoProxyVM
  /\ pconf' = [pconf EXCEPT ![v].port = p]
  /\ LET rest == IF pstate[v].port = p THEN fwd[v] ELSE fwd[v] \ {pstate[v].port}
         free == p \notin (inUse \ fwd[v]) \cup rest IN
     \/ UNCHANGED <<fwd, writer, behind>>
     \/ /\ isLive(v) /\ ~pconf[v].bridge
        /\ fwd' = [fwd EXCEPT ![v] = IF free THEN rest \cup {p} ELSE rest]
        /\ writer' = IF free THEN Hold(v, p) ELSE writer
        /\ behind' = IF free \/ rest = fwd[v] THEN behind ELSE behind \cup {v}
  /\ UNCHANGED <<pstate, vmVars, proxies, busy, pd>>

moving(v) == writer.v = v /\ writer.copy # writer.base

writerSave ==
  /\ writer.v # NoProxyVM
  /\ saveState(writer)
  /\ writer' = NoHold
  /\ UNCHANGED <<pconf, vmVars, fwd, proxies, busy, pd>>

-----------------------------------------------------------------------------
(* reconcileSSHProxies: List, then close what is not wanted, then start     *)
(* what is.                                                                 *)

(* Mutant: a VM whose record names a port is taken to have its listener.   *)
workUnrecorded(wanted) ==
  {v \in ProxyVMs : IF v \in wanted THEN pstate[v].port = 0 ELSE proxies[v] # 0}

work(wanted) == {v \in ProxyVMs : (v \in wanted) # (proxies[v] # 0)}

(* List rewrites the record of a VM whose process is gone (cleanupStaleVM). *)
reconcileList ==
  /\ pd.pc = "idle"
  /\ LET wanted == {v \in ProxyVMs : isWanted(v)} IN
     pd' = [pd EXCEPT !.pc = "work", !.todo = work(wanted), !.failed = {},
                      !.prefs = [v \in ProxyVMs |-> pconf[v].port]]
  /\ pstate' = [v \in ProxyVMs |->
       IF pstate[v].running /\ ~isLive(v) THEN NoState ELSE pstate[v]]
  /\ UNCHANGED <<pconf, vmVars, fwd, proxies, busy, writer, behind, asides>>

(* Mutant: the port is cleared whosever it is.                              *)
closeProxyBlind(v, save) ==
  /\ proxies' = [proxies EXCEPT ![v] = 0]
  /\ pd' = [pd EXCEPT !.todo = @ \ {v}, !.pc = save, !.hold = Hold(v, 0)]
  /\ UNCHANGED <<pconf, pstate, vmVars, fwd, busy, writer, behind, asides>>

(* A proxy that is not wanted: the listener is closed, then                 *)
(* clearStateSSHPort loads the record; only this proxy's port is cleared.   *)
closeProxy(v, save) ==
  /\ proxies' = [proxies EXCEPT ![v] = 0]
  /\ LET rest == [pd EXCEPT !.todo = @ \ {v}] IN
     pd' = IF pstate[v].port # proxies[v] THEN rest
           ELSE [rest EXCEPT !.pc = save, !.hold = Hold(v, 0)]
  /\ UNCHANGED <<pconf, pstate, vmVars, fwd, busy, writer, behind, asides>>

reconcileClose(v) ==
  /\ pd.pc = "work" /\ v \in pd.todo /\ proxies[v] # 0
  /\ closeProxy(v, "save")

(* A wanted VM without a proxy, once every close is done: listen, and       *)
(* setStateSSHPort loads the record.  A listen that fails is tried again by *)
(* the next tick.                                                           *)
reconcileStart(v) ==
  /\ pd.pc = "work" /\ v \in pd.todo /\ \A u \in pd.todo : proxies[u] = 0
  /\ LET p    == availablePort(pd.prefs[v])
         rest == [pd EXCEPT !.todo = @ \ {v}] IN
     IF p \in inUse
     THEN proxies' = proxies /\ pd' = [rest EXCEPT !.failed = @ \cup {v}] /\ behind' = behind
     ELSE /\ proxies' = [proxies EXCEPT ![v] = p]
          /\ pd' = IF pstate[v].port = p THEN rest
                   ELSE [rest EXCEPT !.pc = "save", !.hold = Hold(v, p)]
          /\ behind' = IF isWanted(v) THEN behind ELSE behind \cup {v}
  /\ UNCHANGED <<pconf, pstate, vmVars, fwd, busy, writer, asides>>

(* The record loaded before is saved with the port, or without it; a save   *)
(* that fails is only logged.                                               *)
saveStateSSHPort ==
  /\ pd.pc \in {"save", "stopsave"}
  /\ saveState(pd.hold)
  /\ pd' = [pd EXCEPT !.pc = IF pd.pc = "save" THEN "work" ELSE "stopping", !.hold = NoHold]
  /\ UNCHANGED <<pconf, vmVars, fwd, proxies, busy, writer>>

reconcileDone ==
  /\ pd.pc = "work" /\ pd.todo = {}
  /\ pd' = [pd EXCEPT !.pc = "idle", !.prefs = NoPrefs, !.synced = TRUE,
                   !.left = @ \cap pd.failed]
  /\ UNCHANGED <<pconf, pstate, vmVars, fwd, proxies, busy, writer, behind, asides>>

(* stopAllSSHProxies, when the daemon is told to exit.                      *)
daemonStop ==
  /\ pd.pc = "idle"
  /\ pd' = [pd EXCEPT !.pc = "stopping", !.todo = {v \in ProxyVMs : proxies[v] # 0}]
  /\ UNCHANGED <<pconf, pstate, vmVars, fwd, proxies, busy, writer, behind, asides>>

stopAllSSHProxies ==
  /\ pd.pc = "stopping"
  /\ \/ \E v \in pd.todo : closeProxy(v, "stopsave")
     \/ /\ pd.todo = {}
        /\ pd' = [pd EXCEPT !.pc = "off"]
        /\ UNCHANGED <<pconf, pstate, vmVars, fwd, proxies, busy, writer, behind, asides>>

(* The daemon is killed: its listeners are gone, the records are not told.  *)
daemonKilled ==
  /\ pd.pc # "off"
  /\ proxies' = [v \in ProxyVMs |-> 0]
  /\ pd' = [Daemon0 EXCEPT !.pc = "off", !.left = ProxyVMs]
  /\ UNCHANGED <<pconf, pstate, vmVars, fwd, busy, writer, behind, asides>>

daemonStart ==
  /\ pd.pc = "off"
  /\ pd' = [Daemon0 EXCEPT !.left = pd.left]
  /\ UNCHANGED <<pconf, pstate, vmVars, fwd, proxies, busy, writer, behind, asides>>

-----------------------------------------------------------------------------
(* Each VM prefers the same port.                                           *)
ProxyInit ==
  /\ \E p \in ProxyPorts : pconf = [v \in ProxyVMs |-> [bridge |-> v \in Bridged, port |-> p]]
  /\ pstate = [v \in ProxyVMs |-> NoState]
  /\ boots = 0 /\ proc = [v \in ProxyVMs |-> 0] /\ starting = [v \in ProxyVMs |-> 0]
  /\ fwd = [v \in ProxyVMs |-> {}]
  /\ proxies = [v \in ProxyVMs |-> 0] /\ busy = {}
  /\ pd = Daemon0 /\ writer = NoHold /\ asides = 0 /\ behind = {}

reconcileSSHProxies ==
  reconcileList \/ saveStateSSHPort \/ reconcileDone
    \/ \E v \in ProxyVMs : reconcileClose(v) \/ reconcileStart(v)

ProxyNext ==
  \/ \E v \in ProxyVMs :
       startVM(v) \/ startSave(v) \/ stopVM(v) \/ crashVM(v) \/ editNIC(v) \/ touchLoad(v)
  \/ \E v \in ProxyVMs, p \in ProxyPorts : SetSSHPort(v, p)
  \/ writerSave
  \/ \E p \in ProxyPorts : otherListens(p)
  \/ reconcileSSHProxies
  \/ daemonStop \/ stopAllSSHProxies \/ daemonKilled \/ daemonStart

ProxySpec == ProxyInit /\ [][ProxyNext]_proxyVars

-----------------------------------------------------------------------------
(* Properties.  They leave out the VMs that are "behind": the records are   *)
(* loaded and saved without a lock, so an older copy may come last, and a   *)
(* save that fails is not tried again.  Nothing repairs such a record       *)
(* before the VM is started or stopped.                                     *)

(* Once a pass is done, a port recorded for a running bridge VM is the one  *)
(* the daemon listens on for it, whatever was started, stopped, killed or   *)
(* reconfigured in between; the exception is a VM whose listener could not  *)
(* be opened in the last pass.                                              *)
RecordedPortServed ==
  pd.pc = "idle" /\ pd.synced =>
    \A v \in ProxyVMs \ behind :
      isWanted(v) /\ pstate[v].port # 0 /\ v \notin pd.failed
        => proxies[v] = pstate[v].port

(* A daemon that is gone leaves no port of its listeners on record          *)
(* (stopAllSSHProxies: "so state stays truthful when the daemon exits"),    *)
(* for a VM on record as running, unless a daemon was killed and none since *)
(* has opened the VM's listener again.                                      *)
NoPortAfterExit ==
  pd.pc = "off" =>
    \A v \in ProxyVMs \ (behind \cup pd.left) :
      pstate[v].running /\ fwd[v] = {} /\ starting[v] = 0 => pstate[v].port = 0

(* Keeping the ports costs no running VM its record, and none that forwards *)
(* a port of its own that port: "clear only removes the port this proxy     *)
(* recorded" (clearStateSSHPort).                                           *)
RecordKept ==
  \A v \in ProxyVMs \ behind :
    proc[v] # 0 /\ starting[v] = 0 =>
      isLive(v) /\ (fwd[v] # {} /\ ~moving(v) => pstate[v].port \in fwd[v])

(* A bridge VM that keeps running gets a listener, provided a port of the   *)
(* range is free: the daemon's tick repairs a failed or killed one.         *)
ProxyAppears ==
  \A v \in ProxyVMs :
    <>[](isWanted(v) /\ pd.pc \in {"idle", "work", "save"} /\ ProxyPorts \ inUse # {}) => <>[](proxies[v] # 0)

(* The ports on record are the ports served, while the daemon runs and      *)
(* after it, and keeping them costs no running VM its record                *)
(* (reconcileSSHProxies, setStateSSHPort, clearStateSSHPort).               *)
PortRecordsKept == RecordedPortServed /\ NoPortAfterExit /\ RecordKept
=============================================================================
