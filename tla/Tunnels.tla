------------------------------- MODULE Tunnels ------------------------------
(***************************************************************************)
(* Background tunnels: the registry file that commands edit, and the daemon *)
(* that keeps a listener open for every registered service of a running VM. *)
(*                                                                          *)
(* The registry is read and replaced whole, each time through a new         *)
(* TunnelRegistry with a mutex of its own, so nothing keeps two writers     *)
(* apart.  reconcileTunnels runs on the daemon's tick and in the handler of *)
(* every reload a command asks for; only its second half holds tunnels.mu.  *)
(***************************************************************************)
EXTENDS Naturals, Sequences, FiniteSets

CONSTANTS
  VMs, Services,  \* subsets of Nat: a tunnel's key is a pair of them
  GuestServices,  \* what a service may resolve to: guest port and protocol
  GuestPort,      \* GuestPort[g]: the port of g
  HTTPServices,   \* the ones whose protocol is HTTP or HTTPS
  PortRange,      \* tunnelPortMin..tunnelPortMax
  Ephemeral,      \* ports the kernel picks from when asked for port 0
  Ticker,         \* the daemon's loop
  Commands,       \* vee commands, each with the daemon's handler of its reload
  NoThread,       \* tunnels.mu is free
  MaxOps,         \* bound: commands run
  MaxFaults       \* bound: VM starts and stops, daemon exits, ports taken

Keys    == VMs \X Services
Threads == Commands \cup {Ticker}
Ports   == PortRange \cup Ephemeral
Binds   == {"loopback", "host"}

ASSUME TunnelAssumption ==
  /\ VMs \subseteq Nat /\ VMs # {} /\ IsFiniteSet(VMs)
  /\ Services \subseteq Nat /\ Services # {} /\ IsFiniteSet(Services)
  /\ 0 \notin GuestServices /\ GuestPort \in [GuestServices -> Nat]
  /\ HTTPServices \subseteq GuestServices
  /\ Ports \subseteq Nat \ {0} /\ PortRange \cap Ephemeral = {}
  /\ Ticker \notin Commands /\ NoThread \notin Threads
  /\ MaxOps \in Nat /\ MaxFaults \in Nat

(* TunnelSpec; port 0 is one not allocated yet, service the protocol noted  *)
(* when the tunnel was registered.                                          *)
Specs    == [bind : Binds, port : Ports \cup {0}, service : GuestServices]
NoSpec   == [bind |-> "loopback", port |-> 0, service |-> 0]
Registry == [Keys -> Specs \cup {NoSpec}]

NoTunnel == [spec |-> NoSpec, port |-> 0, service |-> 0]
Tunnel   == [spec : Specs, port : Ports, service : GuestServices]

VARIABLES
  reg,        \* tunnels.json
  guest,      \* guest[k]: what k resolves to, 0 if its VM is down or has no
              \* such service
  daemonUp,
  active,     \* the daemon's tunnels.active
  listening,  \* <<key, port>> of the daemon's listeners
  taken,      \* ports other programs hold
  mu,         \* the thread that holds tunnels.mu
  th,         \* th[t]: where thread t is and what it has read
  ops, faults

vars == <<reg, guest, daemonUp, active, listening, taken, mu, th, ops, faults>>

Pcs == {"idle", "load", "resolve", "lock", "starting", "listen",
        "addLoad", "addSave", "removeSave"}

(* The steps of reconcileTunnels; addLoad and addSave are also those of a   *)
(* command.                                                                 *)
Reconciling == {"load", "resolve", "lock", "starting", "listen"}

TypeOK ==
  /\ reg \in Registry
  /\ guest \in [Keys -> GuestServices \cup {0}]
  /\ daemonUp \in BOOLEAN
  /\ active \in [Keys -> Tunnel \cup {NoTunnel}]
  /\ listening \subseteq Keys \X Ports
  /\ taken \subseteq Ports
  /\ mu \in Threads \cup {NoThread}
  /\ th \in [Threads -> [pc : Pcs, specs : Registry,
                         wanted : [Keys -> GuestServices \cup {0}],
                         todo : SUBSET Keys, key : Keys, drop : SUBSET Keys,
                         spec : Specs \cup {NoSpec}, file : Registry,
                         reload : BOOLEAN]]
  /\ ops \in 0..MaxOps /\ faults \in 0..MaxFaults

Idle == [pc |-> "idle", specs |-> [k \in Keys |-> NoSpec],
         wanted |-> [k \in Keys |-> 0], todo |-> {},
         key |-> CHOOSE k \in Keys : TRUE, drop |-> {}, spec |-> NoSpec,
         file |-> [k \in Keys |-> NoSpec], reload |-> FALSE]

Init ==
  /\ reg = [k \in Keys |-> NoSpec]
  /\ guest = [k \in Keys |-> 0]
  /\ daemonUp = FALSE
  /\ active = [k \in Keys |-> NoTunnel]
  /\ listening = {} /\ taken = {} /\ mu = NoThread
  /\ th = [t \in Threads |-> Idle]
  /\ ops = 0 /\ faults = 0

finish(t) == th' = [th EXCEPT ![t] = Idle]

-----------------------------------------------------------------------------
(* The registry's two-step edits.                                           *)

(* What a command does once it has saved: ask a running daemon to reload.   *)
requestReload(t) ==
  th' = [th EXCEPT ![t] = IF daemonUp /\ th[t].reload
                          THEN [Idle EXCEPT !.pc = "load"] ELSE Idle]

(* Add, by a command or by the reconcile that holds the mutex.              *)
addLoad(t) ==
  /\ th[t].pc = "addLoad"
  /\ th' = [th EXCEPT ![t].pc = "addSave", ![t].file = reg]
  /\ UNCHANGED <<reg, guest, daemonUp, active, listening, taken, mu, ops, faults>>

addSave(t) ==
  /\ th[t].pc = "addSave"
  /\ reg' = [th[t].file EXCEPT ![th[t].key] = th[t].spec]
  /\ IF mu = t THEN th' = [th EXCEPT ![t].pc = "starting", ![t].spec = NoSpec,
                                    ![t].file = [k \in Keys |-> NoSpec]]
     ELSE requestReload(t)
  /\ UNCHANGED <<guest, daemonUp, active, listening, taken, mu, ops, faults>>

removeSave(t) ==
  /\ th[t].pc = "removeSave"
  /\ reg' = [k \in Keys |-> IF k \in th[t].drop THEN NoSpec ELSE th[t].file[k]]
  /\ requestReload(t)
  /\ UNCHANGED <<guest, daemonUp, active, listening, taken, mu, ops, faults>>

-----------------------------------------------------------------------------
(* Commands.                                                                *)

command(c) == th[c].pc = "idle" /\ ops < MaxOps /\ ops' = ops + 1

(* tunnel --background: the VM runs and declares the service; a port that   *)
(* is already recorded is reused.                                           *)
backgroundService(c, k) ==
  /\ command(c) /\ guest[k] # 0
  /\ \E bind \in Binds :
       th' = [th EXCEPT ![c].pc = "addLoad", ![c].key = k, ![c].reload = TRUE,
                        ![c].spec = [bind |-> bind, port |-> reg[k].port,
                                     service |-> guest[k]]]
  /\ UNCHANGED <<reg, guest, daemonUp, active, listening, taken, mu, faults>>

(* Remove (tunnel --stop) and RemoveVM (the end of Delete) load the         *)
(* registry and give up when there is nothing to drop.                      *)
removeLoad(c, drop, reload) ==
  /\ command(c)
  /\ \E k \in drop : reg[k] # NoSpec
  /\ th' = [th EXCEPT ![c].pc = "removeSave", ![c].file = reg,
                      ![c].drop = drop, ![c].reload = reload]
  /\ UNCHANGED <<reg, guest, daemonUp, active, listening, taken, mu, faults>>

Remove(c, k) == removeLoad(c, {k}, TRUE)

RemoveVM(c, v) ==
  /\ \A k \in Keys : k[1] = v => guest[k] = 0
  /\ removeLoad(c, {k \in Keys : k[1] = v}, FALSE)

-----------------------------------------------------------------------------
(* reconcileTunnels.                                                        *)

isPortFree(p) == p = 0 \/ (p \notin taken /\ \A k \in Keys : <<k, p>> \notin listening)

availablePort(preferred, range) ==
  IF isPortFree(preferred) \/ \A p \in range : ~isPortFree(p) THEN preferred
  ELSE CHOOSE p \in range :
         isPortFree(p) /\ \A q \in range : isPortFree(q) => p <= q

(* The daemon's tick, or the handler of a reload.                           *)
tick ==
  /\ daemonUp /\ th[Ticker].pc = "idle"
  /\ th' = [th EXCEPT ![Ticker].pc = "load"]
  /\ UNCHANGED <<reg, guest, daemonUp, active, listening, taken, mu, ops, faults>>

load(t) ==
  /\ th[t].pc = "load"
  /\ th' = [th EXCEPT ![t].pc = "resolve", ![t].specs = reg]
  /\ UNCHANGED <<reg, guest, daemonUp, active, listening, taken, mu, ops, faults>>

(* List, and the resolution of each spec against its VM's services.         *)
resolve(t) ==
  /\ th[t].pc = "resolve"
  /\ th' = [th EXCEPT ![t].pc = "lock", ![t].wanted =
              [k \in Keys |-> IF th[t].specs[k] = NoSpec THEN 0 ELSE guest[k]]]
  /\ UNCHANGED <<reg, guest, daemonUp, active, listening, taken, mu, ops, faults>>

(* The running listener serves what thread t wants of tunnel k; a protocol  *)
(* that has changed alone does not count.                                   *)
current(t, k) ==
  /\ th[t].wanted[k] # 0
  /\ th[t].specs[k].bind = active[k].spec.bind
  /\ th[t].specs[k].port = active[k].spec.port
  /\ GuestPort[th[t].wanted[k]] = GuestPort[active[k].service]

(* Mutant: the mutex is not waited for.                                     *)
lockUnguarded(t) ==
  LET stale == {k \in Keys : active[k] # NoTunnel /\ ~current(t, k)}
  IN /\ th[t].pc = "lock"
     /\ mu' = t
     /\ active' = [k \in Keys |-> IF k \in stale THEN NoTunnel ELSE active[k]]
     /\ listening' = listening \ {<<k, active[k].port>> : k \in stale}
     /\ th' = [th EXCEPT ![t].pc = "starting",
                         ![t].todo = {k \in Keys : th[t].wanted[k] # 0}]
     /\ UNCHANGED <<reg, guest, daemonUp, taken, ops, faults>>

(* The mutex is taken and outdated tunnels are closed.                      *)
lock(t) ==
  LET stale == {k \in Keys : active[k] # NoTunnel /\ ~current(t, k)}
  IN /\ th[t].pc = "lock" /\ mu = NoThread
     /\ mu' = t
     /\ active' = [k \in Keys |-> IF k \in stale THEN NoTunnel ELSE active[k]]
     /\ listening' = listening \ {<<k, active[k].port>> : k \in stale}
     /\ th' = [th EXCEPT ![t].pc = "starting",
                         ![t].todo = {k \in Keys : th[t].wanted[k] # 0}]
     /\ UNCHANGED <<reg, guest, daemonUp, taken, ops, faults>>

(* Mutant: a tunnel that is not active is skipped.                          *)
chooseActive(t) ==
  /\ th[t].pc = "starting"
  /\ \E k \in th[t].todo :
       th' = [th EXCEPT ![t].todo = @ \ {k}, ![t].key = k,
                        ![t].pc = IF active[k] # NoTunnel THEN "listen" ELSE @]
  /\ UNCHANGED <<reg, guest, daemonUp, active, listening, taken, mu, ops, faults>>

(* The next wanted tunnel: skipped when it is active.                       *)
choose(t) ==
  /\ th[t].pc = "starting"
  /\ \E k \in th[t].todo :
       th' = [th EXCEPT ![t].todo = @ \ {k}, ![t].key = k,
                        ![t].pc = IF active[k] = NoTunnel THEN "listen" ELSE @]
  /\ UNCHANGED <<reg, guest, daemonUp, active, listening, taken, mu, ops, faults>>

(* Mutant: the table holds the requested port, not the one bound.           *)
asRequested(s, p, service) == [spec |-> s, port |-> s.port, service |-> service]

activeTunnel(s, p, service) == [spec |-> s, port |-> p, service |-> service]

(* startGuestProxy; a port the registry does not have yet is recorded.      *)
listen(t) ==
  LET k == th[t].key
      s == th[t].specs[k]
      port == IF s.port > 0 THEN s.port ELSE availablePort(0, PortRange)
      bound == IF port = 0 THEN {p \in Ephemeral : isPortFree(p)}
               ELSE {p \in {port} : isPortFree(p)}
  IN /\ th[t].pc = "listen"
     /\ \/ /\ bound = {}
           /\ th' = [th EXCEPT ![t].pc = "starting"]
           /\ UNCHANGED <<active, listening>>
        \/ \E p \in bound :
             /\ active' = [active EXCEPT ![k] =
                             activeTunnel(s, p, th[t].wanted[k])]
             /\ listening' = listening \cup {<<k, p>>}
             /\ th' = IF p # s.port \/ s.service # th[t].wanted[k]
                      THEN [th EXCEPT ![t].pc = "addLoad", ![t].spec =
                              [bind |-> s.bind, port |-> p,
                               service |-> th[t].wanted[k]]]
                      ELSE [th EXCEPT ![t].pc = "starting"]
     /\ UNCHANGED <<reg, guest, daemonUp, taken, mu, ops, faults>>

unlock(t) ==
  /\ th[t].pc = "starting" /\ th[t].todo = {}
  /\ mu' = NoThread
  /\ finish(t)
  /\ UNCHANGED <<reg, guest, daemonUp, active, listening, taken, ops, faults>>

reconcileTunnels(t) == load(t) \/ resolve(t) \/ lock(t) \/ choose(t)
                         \/ listen(t) \/ unlock(t)

-----------------------------------------------------------------------------
(* The name a tunnel is published under: its service's, as no --hostname is *)
(* given.                                                                   *)
VHost(k) == k[2]

keyLess(j, k) == j[1] < k[1] \/ (j[1] = k[1] /\ j[2] < k[2])

(* Mutant: the last tunnel the iteration meets wins.                        *)
routesLast(order) ==
  LET out[i \in 0..Len(order)] ==
        IF i = 0 THEN [l \in Services |-> {}]
        ELSE IF active[order[i]].service \notin HTTPServices THEN out[i - 1]
        ELSE [out[i - 1] EXCEPT ![VHost(order[i])] = {order[i]}]
  IN out[Len(order)]

(* The tunnel with the least key keeps the name.                            *)
takeRoute(out, k) ==
  IF \/ active[k].service \notin HTTPServices
     \/ \E j \in out[VHost(k)] : keyLess(j, k)
  THEN out ELSE [out EXCEPT ![VHost(k)] = {k}]

(* The router's table, built from the active tunnels in the order that the  *)
(* iteration over the map happens to produce: the keys each name leads to.  *)
activeRoutes(order) ==
  LET out[i \in 0..Len(order)] ==
        IF i = 0 THEN [l \in Services |-> {}] ELSE takeRoute(out[i - 1], order[i])
  IN out[Len(order)]

-----------------------------------------------------------------------------
(* The daemon's process, the VMs and other programs.                        *)

fault == faults < MaxFaults /\ faults' = faults + 1

RunDaemon ==
  /\ ~daemonUp /\ daemonUp' = TRUE
  /\ UNCHANGED <<reg, guest, active, listening, taken, mu, th, ops, faults>>

(* The daemon ends, by stopAllTunnels or by a crash; its reconciles end     *)
(* wherever they are.                                                       *)
stopAllTunnels ==
  /\ daemonUp /\ fault
  /\ daemonUp' = FALSE
  /\ active' = [k \in Keys |-> NoTunnel] /\ listening' = {} /\ mu' = NoThread
  /\ th' = [t \in Threads |->
             IF t = mu \/ th[t].pc \in Reconciling THEN Idle ELSE th[t]]
  /\ UNCHANGED <<reg, guest, taken, ops>>

(* A VM is started or stopped, or comes back with other services declared.  *)
vmChanges(v) ==
  /\ fault
  /\ \E g \in [Services -> GuestServices \cup {0}] :
       guest' = [k \in Keys |-> IF k[1] = v THEN g[k[2]] ELSE guest[k]]
  /\ guest' # guest
  /\ UNCHANGED <<reg, daemonUp, active, listening, taken, mu, th, ops>>

portTaken(p) ==
  /\ p \notin taken /\ isPortFree(p) /\ fault
  /\ taken' = taken \cup {p}
  /\ UNCHANGED <<reg, guest, daemonUp, active, listening, mu, th, ops>>

-----------------------------------------------------------------------------
Command(c) ==
  \/ \E k \in Keys : backgroundService(c, k) \/ Remove(c, k)
  \/ \E v \in VMs : RemoveVM(c, v)

Edit(t) == addLoad(t) \/ addSave(t) \/ removeSave(t)

Next ==
  \/ \E c \in Commands : Command(c)
  \/ \E t \in Threads : Edit(t) \/ reconcileTunnels(t)
  \/ tick \/ RunDaemon \/ stopAllTunnels
  \/ \E v \in VMs : vmChanges(v)
  \/ \E p \in Ports : portTaken(p)

Spec == Init /\ [][Next]_vars

(* Threads are scheduled, and the service manager keeps the daemon up.      *)
Fairness ==
  /\ WF_vars(tick) /\ WF_vars(RunDaemon)
  /\ \A t \in Threads : WF_vars(Edit(t)) /\ WF_vars(reconcileTunnels(t))

FairSpec == Spec /\ Fairness

-----------------------------------------------------------------------------
(* Properties.                                                              *)

(* Two reconciles, on the tick and in reload handlers, never both start the *)
(* same tunnel: every listener the daemon holds is the one its table names, *)
(* so that Close reaches it.                                                *)
NoLeakedListener ==
  listening = {<<k, active[k].port>> : k \in {k \in Keys : active[k] # NoTunnel}}

(* However commands, reloads, daemon restarts and VM starts interleave, the *)
(* daemon settles on the registry as it is left: a listener, with the       *)
(* registered binding and port and the guest's port, for each registered    *)
(* service of a running VM whose port is not held by something else, and    *)
(* for no other.                                                            *)
Served(k) ==
  /\ active[k].spec.bind = reg[k].bind
  /\ GuestPort[active[k].service] = GuestPort[guest[k]]
  /\ reg[k].port \in {0, active[k].port}

Settles ==
  <>[](\A k \in Keys :
         IF reg[k] = NoSpec \/ guest[k] = 0 THEN active[k] = NoTunnel
         ELSE \/ active[k] # NoTunnel /\ Served(k)
              \/ active[k] = NoTunnel /\ ~isPortFree(reg[k].port)
              \/ active[k] = NoTunnel /\ \A p \in Ephemeral : ~isPortFree(p))

(* The router sends a name that two VMs publish to the same tunnel in every *)
(* iteration order: the one with the least key.                             *)
Orders(S) == {o \in [1..Cardinality(S) -> S] : \A k \in S : \E i \in DOMAIN o : o[i] = k}

RoutesStable ==
  \A o \in Orders({k \in Keys : active[k] # NoTunnel}), l \in Services :
    activeRoutes(o)[l] =
      {k \in Keys : /\ VHost(k) = l /\ active[k].service \in HTTPServices
                    /\ \A j \in Keys : VHost(j) = l /\ keyLess(j, k) =>
                                         active[j].service \notin HTTPServices}

(* docs/tunnels.md: "Ports are allocated from the 2300-2399 range, above    *)
(* the range the daemon's SSH loopback proxies use."                        *)
AllocatedInRange ==
  \A k \in Keys : active[k] # NoTunnel => active[k].port \in PortRange

=============================================================================
