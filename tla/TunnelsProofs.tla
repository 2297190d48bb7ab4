---------------------------- MODULE TunnelsProofs ---------------------------
(***************************************************************************)
(* Tunnels keeps its types, leaks no listener and routes a name in one way, *)
(* for any VMs, services, ports and commands and any bounds.                *)
(***************************************************************************)
EXTENDS Tunnels, FiniteSetTheorems, WellFoundedInduction, TLAPS

Guests     == [Keys -> GuestServices \cup {0}]
ThreadType == [pc : Pcs, specs : Registry, wanted : Guests, todo : SUBSET Keys,
               key : Keys, drop : SUBSET Keys, spec : Specs \cup {NoSpec},
               file : Registry, reload : BOOLEAN]

(* What a reconcile knows of the tunnels it wants: they are registered in   *)
(* its copy of the registry, and its list holds no others.  What an edit is *)
(* about to save is a registration.                                         *)
Resolved(t) ==
  /\ th[t].pc \in {"lock", "starting", "listen"} \/ mu = t =>
       \A k \in Keys : th[t].wanted[k] # 0 => th[t].specs[k] \in Specs
  /\ \A k \in th[t].todo : th[t].wanted[k] # 0
  /\ mu = t \/ th[t].todo = {}
  /\ th[t].pc = "listen" => th[t].wanted[th[t].key] # 0
  /\ th[t].pc \in {"addLoad", "addSave"} => th[t].spec \in Specs

(* The second half of a reconcile runs under tunnels.mu, so that a tunnel   *)
(* found inactive is inactive when its listener is opened.                  *)
Guarded(t) ==
  /\ th[t].pc \in {"starting", "listen"} => mu = t
  /\ mu = t => th[t].pc \in {"starting", "listen", "addLoad", "addSave"}
  /\ th[t].pc = "listen" => active[th[t].key] = NoTunnel

IInv == TypeOK /\ NoLeakedListener /\ \A t \in Threads : Resolved(t) /\ Guarded(t)

-----------------------------------------------------------------------------
(* The values that the steps build.                                         *)

LEMMA Values ==
  /\ Keys # {} /\ NoSpec \notin Specs
  /\ [k \in Keys |-> NoSpec] \in Registry /\ [k \in Keys |-> 0] \in Guests
  /\ \A s \in Specs, p \in Ports, g \in GuestServices :
       activeTunnel(s, p, g) \in Tunnel /\ activeTunnel(s, p, g).port = p
  /\ \A tu \in Tunnel : tu # NoTunnel /\ tu.port \in Ports
  /\ Ticker \in Threads /\ NoThread \notin Threads
<1>1. Keys # {}
  <2>1. PICK v \in VMs, s \in Services : TRUE
    BY Zenon, TunnelAssumption
  <2>2. <<v, s>> \in Keys
    BY DEF Keys
  <2> QED
    BY <2>2
<1>2. NoSpec \notin Specs
  BY TunnelAssumption DEF NoSpec, Specs
<1>3. \A tu \in Tunnel : tu # NoTunnel /\ tu.port \in Ports
  BY TunnelAssumption DEF Tunnel, NoTunnel
<1>4. [k \in Keys |-> NoSpec] \in Registry /\ [k \in Keys |-> 0] \in Guests
  BY DEF Registry, Guests
<1>5. Ticker \in Threads /\ NoThread \notin Threads
  BY TunnelAssumption DEF Threads
<1> QED
  BY <1>1, <1>2, <1>3, <1>4, <1>5 DEF activeTunnel, Tunnel

LEMMA IdleType ==
  /\ Idle \in ThreadType /\ Idle.pc = "idle" /\ Idle.todo = {}
  /\ [Idle EXCEPT !.pc = "load"] \in ThreadType
  /\ [Idle EXCEPT !.pc = "load"].pc = "load"
  /\ [Idle EXCEPT !.pc = "load"].todo = {}
<1>1. (CHOOSE k \in Keys : TRUE) \in Keys
  BY Values
<1> HIDE DEF Keys
<1> QED
  BY Zenon, <1>1, Values DEF Idle, ThreadType, Pcs

LEMMA ThreadTypeOK == TypeOK => th \in [Threads -> ThreadType]
  BY DEF TypeOK, ThreadType, Guests

(* The threads that a step of thread t leaves alone.                        *)
LEMMA Others ==
  ASSUME IInv, NEW t \in Threads, \A u \in Threads \ {t} : th'[u] = th[u],
         \A u \in Threads \ {t} : mu' = u <=> mu = u,
         \A u \in Threads \ {t} : mu = u => active' = active,
         Resolved(t)', Guarded(t)'
  PROVE  \A u \in Threads : Resolved(u)' /\ Guarded(u)'
<1> SUFFICES ASSUME NEW u \in Threads \ {t} PROVE Resolved(u)' /\ Guarded(u)'
  OBVIOUS
<1>1. th'[u] = th[u] /\ (mu' = u <=> mu = u) /\ Resolved(u) /\ Guarded(u)
  BY DEF IInv
<1>2. Resolved(u)'
  BY <1>1 DEF Resolved
<1>3. Guarded(u)'
  BY <1>1 DEF Guarded
<1> QED
  BY <1>2, <1>3

LEMMA InitIInv == Init => IInv
<1> SUFFICES ASSUME Init PROVE IInv
  OBVIOUS
<1>1. TypeOK
  <2>1. th \in [Threads -> ThreadType]
    BY IdleType DEF Init
  <2>2. reg \in Registry /\ guest \in Guests
    BY Values DEF Init
  <2>3. ops \in 0..MaxOps /\ faults \in 0..MaxFaults
    BY TunnelAssumption DEF Init
  <2>4. active \in [Keys -> Tunnel \cup {NoTunnel}]
    BY DEF Init
  <2> QED
    BY Zenon, <2>1, <2>2, <2>3, <2>4 DEF Init, TypeOK, Guests, ThreadType
<1>2. NoLeakedListener
  BY DEF Init, NoLeakedListener
<1>3. \A t \in Threads : Resolved(t) /\ Guarded(t)
  BY IdleType, Values DEF Init, Resolved, Guarded
<1> QED
  BY <1>1, <1>2, <1>3 DEF IInv

(* The fields of a thread, typed.                                           *)
LEMMA Fields ==
  ASSUME TypeOK, NEW t \in Threads
  PROVE  /\ th[t] \in ThreadType /\ th[t].pc \in Pcs /\ th[t].specs \in Registry
         /\ th[t].wanted \in Guests /\ th[t].todo \subseteq Keys
         /\ th[t].key \in Keys /\ th[t].file \in Registry
         /\ th[t].spec \in Specs \cup {NoSpec}
  BY ThreadTypeOK DEF ThreadType

-----------------------------------------------------------------------------
(* Steps of one thread that open and close no listener.                     *)

LEMMA QuietStep ==
  ASSUME IInv, NEW t \in Threads, NEW r \in ThreadType,
         th' = [th EXCEPT ![t] = r], reg' \in Registry, ops' \in 0..MaxOps,
         UNCHANGED <<guest, daemonUp, active, listening, taken, mu, faults>>,
         Resolved(t)', Guarded(t)'
  PROVE  IInv'
<1>1. TypeOK /\ NoLeakedListener
  BY DEF IInv
<1>2. th \in [Threads -> ThreadType]
  BY <1>1, ThreadTypeOK
<1>3. TypeOK'
  <2>1. th' \in [Threads -> ThreadType]
    BY <1>2
  <2> QED
    BY <1>1, <2>1 DEF TypeOK, ThreadType, Guests
<1>4. NoLeakedListener'
  BY <1>1 DEF NoLeakedListener
<1>5. \A u \in Threads : Resolved(u)' /\ Guarded(u)'
  <2>1. \A u \in Threads \ {t} : th'[u] = th[u]
    BY <1>2
  <2> QED
    BY <2>1, Others
<1> QED
  BY <1>3, <1>4, <1>5 DEF IInv

(* A thread that holds no lock and lists no tunnel.                         *)
LEMMA Simple ==
  ASSUME NEW t \in Threads, th'[t].pc \in {"idle", "load", "removeSave"},
         th'[t].todo = {}, mu' # t
  PROVE  Resolved(t)' /\ Guarded(t)'
  BY DEF Resolved, Guarded

LEMMA ReloadStep ==
  ASSUME IInv, NEW t \in Threads, requestReload(t), mu # t, reg' \in Registry,
         UNCHANGED <<guest, daemonUp, active, listening, taken, mu, ops, faults>>
  PROVE  IInv'
<1>1. PICK r \in {Idle, [Idle EXCEPT !.pc = "load"]} : th' = [th EXCEPT ![t] = r]
  BY Zenon DEF requestReload
<1>2. /\ r \in ThreadType /\ th'[t] = r /\ r.pc \in {"idle", "load"} /\ r.todo = {}
      /\ ops' \in 0..MaxOps
  BY Zenon, <1>1, IdleType, ThreadTypeOK DEF IInv, TypeOK
<1>3. Resolved(t)' /\ Guarded(t)'
  BY <1>2, Simple
<1> QED
  BY Zenon, <1>1, <1>2, <1>3, QuietStep

LEMMA EditStep ==
  ASSUME IInv, NEW t \in Threads, Edit(t)
  PROVE  IInv'
<1>0. /\ TypeOK /\ Resolved(t) /\ Guarded(t) /\ th \in [Threads -> ThreadType]
      /\ reg \in Registry /\ ops \in 0..MaxOps
  BY ThreadTypeOK DEF IInv, TypeOK
<1>1. CASE addLoad(t)
  <2> DEFINE r == [th[t] EXCEPT !.pc = "addSave", !.file = reg]
  <2>1. r \in ThreadType
    BY ZenonT(60), <1>0, Fields DEF ThreadType, Pcs
  <2>2. th' = [th EXCEPT ![t] = r]
    BY Zenon, <1>0, <1>1 DEF addLoad
  <2>3. /\ th'[t].pc = "addSave" /\ th[t].pc = "addLoad" /\ mu' = mu
        /\ th'[t].specs = th[t].specs /\ th'[t].wanted = th[t].wanted
        /\ th'[t].todo = th[t].todo /\ th'[t].spec = th[t].spec
    BY <1>0, <1>1, <2>2, Fields DEF addLoad, ThreadType
  <2>4. Resolved(t)' /\ Guarded(t)'
    BY <1>0, <2>3 DEF Resolved, Guarded
  <2>5. UNCHANGED <<reg, guest, daemonUp, active, listening, taken, mu, ops, faults>>
    BY <1>1 DEF addLoad
  <2> HIDE DEF r
  <2> QED
    BY Zenon, <1>0, <2>1, <2>2, <2>4, <2>5, QuietStep
<1>2. CASE addSave(t)
  <2>1. /\ UNCHANGED <<guest, daemonUp, active, listening, taken, mu, ops, faults>>
        /\ th[t].spec \in Specs /\ th[t].key \in Keys /\ th[t].file \in Registry
    BY <1>0, <1>2, Fields DEF addSave, Resolved
  <2>2. reg' \in Registry
    BY <1>2, <2>1 DEF addSave, Registry
  <2>3. CASE mu = t
    <3> DEFINE r == [th[t] EXCEPT !.pc = "starting", !.spec = NoSpec,
                                  !.file = [k \in Keys |-> NoSpec]]
    <3>1. r \in ThreadType
      <4>1. /\ th[t] \in ThreadType /\ "starting" \in Pcs
            /\ [k \in Keys |-> NoSpec] \in Registry
        BY <1>0, Fields, Values DEF Pcs
      <4> QED
        BY Zenon, <4>1 DEF ThreadType
    <3>2. th' = [th EXCEPT ![t] = r]
      BY Zenon, <1>0, <1>2, <2>3 DEF addSave
    <3>3. /\ th'[t].pc = "starting" /\ mu' = t /\ th'[t].specs = th[t].specs
          /\ th'[t].wanted = th[t].wanted /\ th'[t].todo = th[t].todo
      BY <1>0, <2>1, <2>3, <3>2, Fields DEF ThreadType
    <3>4. Resolved(t)' /\ Guarded(t)'
      BY <1>0, <2>3, <3>3 DEF Resolved, Guarded
    <3> HIDE DEF r
    <3> QED
      BY Zenon, <1>0, <2>1, <2>2, <3>1, <3>2, <3>4, QuietStep
  <2>4. CASE mu # t
    BY <1>2, <2>1, <2>2, <2>4, ReloadStep DEF addSave
  <2> QED
    BY <2>3, <2>4
<1>3. CASE removeSave(t)
  <2>1. /\ mu # t /\ requestReload(t) /\ UNCHANGED <<guest, daemonUp, active,
           listening, taken, mu, ops, faults>>
    BY <1>0, <1>3 DEF removeSave, Guarded
  <2>2. reg' \in Registry
    BY <1>0, <1>3, Fields DEF removeSave, Registry
  <2> QED
    BY <2>1, <2>2, ReloadStep
<1> QED
  BY <1>1, <1>2, <1>3 DEF Edit

LEMMA CommandStep ==
  ASSUME IInv, NEW c \in Commands, Command(c)
  PROVE  IInv'
<1>0. /\ TypeOK /\ Resolved(c) /\ Guarded(c) /\ th \in [Threads -> ThreadType]
      /\ c \in Threads /\ reg \in Registry /\ guest \in Guests
  BY ThreadTypeOK DEF IInv, TypeOK, Guests, Threads
<1>1. ASSUME command(c) PROVE ops' \in 0..MaxOps /\ mu # c
  BY <1>0, <1>1, TunnelAssumption DEF command, TypeOK, Guarded
<1>2. ASSUME NEW k \in Keys, backgroundService(c, k) PROVE IInv'
  <2>1. PICK bind \in Binds :
          th' = [th EXCEPT ![c].pc = "addLoad", ![c].key = k, ![c].reload = TRUE,
                   ![c].spec = [bind |-> bind, port |-> reg[k].port,
                                service |-> guest[k]]]
    BY Zenon, <1>2 DEF backgroundService
  <2>2. [bind |-> bind, port |-> reg[k].port, service |-> guest[k]] \in Specs
    BY <1>0, <1>2 DEF backgroundService, Specs, Registry, NoSpec, Guests
  <2> DEFINE s == [bind |-> bind, port |-> reg[k].port, service |-> guest[k]]
             r == [th[c] EXCEPT !.pc = "addLoad", !.key = k, !.reload = TRUE,
                                !.spec = s]
  <2> HIDE DEF s
  <2>3. r \in ThreadType
    <3>1. s \in Specs /\ th[c] \in ThreadType /\ "addLoad" \in Pcs
      BY <1>0, <2>2, Fields DEF s, Pcs
    <3> QED
      BY Zenon, <3>1 DEF ThreadType
  <2>4. th' = [th EXCEPT ![c] = r]
    BY Zenon, <1>0, <2>1 DEF s
  <2>5. /\ th'[c].pc = "addLoad" /\ th'[c].spec \in Specs
        /\ th'[c].todo = th[c].todo /\ th'[c].wanted = th[c].wanted
    BY <1>0, <2>2, <2>4, Fields DEF ThreadType, s
  <2>6. /\ command(c) /\ UNCHANGED <<reg, guest, daemonUp, active, listening,
                                     taken, mu, faults>>
    BY <1>2 DEF backgroundService
  <2>7. Resolved(c)' /\ Guarded(c)'
    BY <1>0, <1>1, <2>5, <2>6 DEF Resolved, Guarded
  <2> HIDE DEF r
  <2> QED
    BY Zenon, <1>0, <1>1, <2>3, <2>4, <2>6, <2>7, QuietStep
<1>3. ASSUME NEW drop \in SUBSET Keys, NEW reload \in BOOLEAN,
             removeLoad(c, drop, reload)
      PROVE  IInv'
  <2> DEFINE r == [th[c] EXCEPT !.pc = "removeSave", !.file = reg, !.drop = drop,
                                !.reload = reload]
  <2>1. r \in ThreadType
    <3>1. th[c] \in ThreadType /\ "removeSave" \in Pcs
      BY <1>0, Fields DEF Pcs
    <3> QED
      BY Zenon, <1>0, <3>1 DEF ThreadType
  <2>2. th' = [th EXCEPT ![c] = r]
    BY Zenon, <1>0, <1>3 DEF removeLoad
  <2>3. /\ command(c) /\ UNCHANGED <<reg, guest, daemonUp, active, listening,
                                     taken, mu, faults>>
    BY <1>3 DEF removeLoad
  <2>4. /\ th'[c].pc = "removeSave" /\ th'[c].todo = th[c].todo
        /\ th'[c].wanted = th[c].wanted
    BY <1>0, <2>2, Fields DEF ThreadType
  <2>5. Resolved(c)' /\ Guarded(c)'
    BY <1>0, <1>1, <2>3, <2>4 DEF Resolved, Guarded
  <2> HIDE DEF r
  <2> QED
    BY Zenon, <1>0, <1>1, <2>1, <2>2, <2>3, <2>5, QuietStep
<1> QED
  BY Zenon, <1>2, <1>3 DEF Command, Remove, RemoveVM

LEMMA TickStep ==
  ASSUME IInv, tick
  PROVE  IInv'
<1>0. /\ TypeOK /\ Resolved(Ticker) /\ Guarded(Ticker)
      /\ th \in [Threads -> ThreadType] /\ Ticker \in Threads
      /\ reg \in Registry /\ ops \in 0..MaxOps
  BY ThreadTypeOK, Values DEF IInv, TypeOK
<1> DEFINE r == [th[Ticker] EXCEPT !.pc = "load"]
<1>1. r \in ThreadType
  BY Zenon, <1>0, Fields DEF ThreadType, Pcs
<1>2. th' = [th EXCEPT ![Ticker] = r]
  BY <1>0 DEF tick
<1>3. /\ th'[Ticker].pc = "load" /\ th'[Ticker].todo = th[Ticker].todo
      /\ th'[Ticker].wanted = th[Ticker].wanted /\ th[Ticker].pc = "idle"
  BY <1>0, <1>2, Fields DEF ThreadType, tick
<1>4. UNCHANGED <<reg, guest, daemonUp, active, listening, taken, mu, ops, faults>>
  BY DEF tick
<1>5. Resolved(Ticker)' /\ Guarded(Ticker)'
  BY <1>0, <1>3, <1>4 DEF Resolved, Guarded
<1> HIDE DEF r
<1> QED
  BY Zenon, <1>0, <1>1, <1>2, <1>4, <1>5, QuietStep

LEMMA LoadStep ==
  ASSUME IInv, NEW t \in Threads, load(t)
  PROVE  IInv'
<1>0. /\ TypeOK /\ Resolved(t) /\ Guarded(t) /\ th \in [Threads -> ThreadType]
      /\ reg \in Registry /\ ops \in 0..MaxOps /\ th[t].pc = "load"
  BY ThreadTypeOK DEF IInv, TypeOK, load
<1> DEFINE r == [th[t] EXCEPT !.pc = "resolve", !.specs = reg]
<1>1. r \in ThreadType
  BY ZenonT(60), <1>0, Fields DEF ThreadType, Pcs
<1>2. th' = [th EXCEPT ![t] = r]
  BY Zenon, <1>0 DEF load
<1>3. /\ th'[t].pc = "resolve" /\ th'[t].todo = th[t].todo
      /\ th'[t].wanted = th[t].wanted
  BY <1>0, <1>2, Fields DEF ThreadType
<1>4. UNCHANGED <<reg, guest, daemonUp, active, listening, taken, mu, ops, faults>>
  BY DEF load
<1>5. Resolved(t)' /\ Guarded(t)'
  BY <1>0, <1>3, <1>4 DEF Resolved, Guarded
<1> HIDE DEF r
<1> QED
  BY Zenon, <1>0, <1>1, <1>2, <1>4, <1>5, QuietStep

LEMMA ResolveStep ==
  ASSUME IInv, NEW t \in Threads, resolve(t)
  PROVE  IInv'
<1>0. /\ TypeOK /\ Resolved(t) /\ Guarded(t) /\ th \in [Threads -> ThreadType]
      /\ reg \in Registry /\ ops \in 0..MaxOps /\ th[t].pc = "resolve"
      /\ guest \in Guests
  BY ThreadTypeOK DEF IInv, TypeOK, resolve, Guests
<1> DEFINE w == [k \in Keys |-> IF th[t].specs[k] = NoSpec THEN 0 ELSE guest[k]]
           r == [th[t] EXCEPT !.pc = "lock", !.wanted = w]
<1>1. w \in Guests
  BY <1>0 DEF Guests
<1>2. \A k \in Keys : w[k] # 0 => th[t].specs[k] \in Specs
  BY <1>0, Fields DEF Registry
<1>3. th' = [th EXCEPT ![t] = r]
  BY Zenon, <1>0 DEF resolve
<1> HIDE DEF w
<1>4. r \in ThreadType
  BY ZenonT(60), <1>0, <1>1, Fields DEF ThreadType, Pcs
<1>5. /\ th'[t].pc = "lock" /\ th'[t].todo = th[t].todo
      /\ th'[t].wanted = w /\ th'[t].specs = th[t].specs
  BY <1>0, <1>3, Fields DEF ThreadType
<1>6. UNCHANGED <<reg, guest, daemonUp, active, listening, taken, mu, ops, faults>>
  BY DEF resolve
<1>7. th[t].todo = {} /\ mu # t
  BY <1>0 DEF Resolved, Guarded
<1>8. Resolved(t)' /\ Guarded(t)'
  BY <1>0, <1>2, <1>5, <1>6, <1>7 DEF Resolved, Guarded
<1> HIDE DEF r
<1> QED
  BY Zenon, <1>0, <1>3, <1>4, <1>6, <1>8, QuietStep

LEMMA ChooseStep ==
  ASSUME IInv, NEW t \in Threads, choose(t)
  PROVE  IInv'
<1>0. /\ TypeOK /\ Resolved(t) /\ Guarded(t) /\ th \in [Threads -> ThreadType]
      /\ reg \in Registry /\ ops \in 0..MaxOps /\ th[t].pc = "starting"
  BY ThreadTypeOK DEF IInv, TypeOK, choose
<1>1. PICK k \in th[t].todo :
        th' = [th EXCEPT ![t].todo = @ \ {k}, ![t].key = k,
                 ![t].pc = IF active[k] = NoTunnel THEN "listen" ELSE @]
  BY Zenon DEF choose
<1>2. k \in Keys /\ mu = t /\ th[t].wanted[k] # 0
  BY <1>0, Fields DEF Resolved, Guarded
<1> DEFINE p == IF active[k] = NoTunnel THEN "listen" ELSE "starting"
           r == [th[t] EXCEPT !.todo = th[t].todo \ {k}, !.key = k, !.pc = p]
<1>3. th' = [th EXCEPT ![t] = r]
  BY Zenon, <1>0, <1>1
<1>4. p \in Pcs /\ (p = "listen" => active[k] = NoTunnel) /\ p \in {"starting", "listen"}
  BY DEF Pcs
<1> HIDE DEF p
<1>5. r \in ThreadType
  BY Zenon, <1>0, <1>2, <1>4, Fields DEF ThreadType
<1>6. /\ th'[t].pc = p /\ th'[t].todo = th[t].todo \ {k} /\ th'[t].key = k
      /\ th'[t].wanted = th[t].wanted /\ th'[t].specs = th[t].specs
  BY <1>0, <1>3, Fields DEF ThreadType
<1>7. UNCHANGED <<reg, guest, daemonUp, active, listening, taken, mu, ops, faults>>
  BY DEF choose
<1>8. Resolved(t)' /\ Guarded(t)'
  BY <1>0, <1>2, <1>4, <1>6, <1>7 DEF Resolved, Guarded
<1> HIDE DEF r
<1> QED
  BY Zenon, <1>0, <1>3, <1>5, <1>7, <1>8, QuietStep

-----------------------------------------------------------------------------
(* Steps that take or give up the mutex, open or close listeners.           *)

LEMMA UnlockStep ==
  ASSUME IInv, NEW t \in Threads, unlock(t)
  PROVE  IInv'
<1>0. /\ TypeOK /\ Resolved(t) /\ Guarded(t) /\ th \in [Threads -> ThreadType]
      /\ th[t].pc = "starting" /\ mu' = NoThread /\ NoLeakedListener
      /\ UNCHANGED <<reg, guest, daemonUp, active, listening, taken, ops, faults>>
      /\ th' = [th EXCEPT ![t] = Idle]
  BY ThreadTypeOK DEF IInv, unlock, finish
<1>1. th' \in [Threads -> ThreadType]
  BY <1>0, IdleType
<1>2. TypeOK'
  BY <1>0, <1>1 DEF TypeOK, ThreadType, Guests
<1>3. NoLeakedListener'
  BY <1>0 DEF NoLeakedListener
<1>4. Resolved(t)' /\ Guarded(t)'
  BY <1>0, IdleType, Values DEF Resolved, Guarded
<1>5. \A u \in Threads \ {t} : th'[u] = th[u] /\ mu' # u /\ mu # u
  BY <1>0, Values DEF Guarded
<1>6. \A u \in Threads : Resolved(u)' /\ Guarded(u)'
  BY <1>4, <1>5, Others
<1> QED
  BY <1>2, <1>3, <1>6 DEF IInv

LEMMA LockStep ==
  ASSUME IInv, NEW t \in Threads, lock(t)
  PROVE  IInv'
<1> DEFINE stale == {k \in Keys : active[k] # NoTunnel /\ ~current(t, k)}
           todo == {k \in Keys : th[t].wanted[k] # 0}
           r == [th[t] EXCEPT !.pc = "starting", !.todo = todo]
<1>0. /\ TypeOK /\ Resolved(t) /\ Guarded(t) /\ th \in [Threads -> ThreadType]
      /\ th[t].pc = "lock" /\ mu = NoThread /\ mu' = t /\ NoLeakedListener
      /\ active' = [k \in Keys |-> IF k \in stale THEN NoTunnel ELSE active[k]]
      /\ listening' = listening \ {<<k, active[k].port>> : k \in stale}
      /\ UNCHANGED <<reg, guest, daemonUp, taken, ops, faults>>
  BY ThreadTypeOK DEF IInv, lock
<1>1. th' = [th EXCEPT ![t] = r]
  BY Zenon, <1>0 DEF lock
<1>2. stale \subseteq Keys /\ todo \subseteq Keys
      /\ \A k \in todo : th[t].wanted[k] # 0
  OBVIOUS
<1> HIDE DEF stale, todo
<1>3. r \in ThreadType
  BY ZenonT(60), <1>0, <1>2, Fields DEF ThreadType, Pcs
<1>4. th' \in [Threads -> ThreadType]
  BY <1>0, <1>1, <1>3
<1>5. TypeOK'
  <2>1. /\ active' \in [Keys -> Tunnel \cup {NoTunnel}]
        /\ listening' \subseteq Keys \X Ports
    BY <1>0 DEF TypeOK
  <2> QED
    BY <1>0, <1>4, <2>1 DEF TypeOK, ThreadType, Guests
<1>6. NoLeakedListener'
  BY <1>0, <1>2 DEF NoLeakedListener
<1>7. /\ th'[t].pc = "starting" /\ th'[t].todo = todo
      /\ th'[t].wanted = th[t].wanted /\ th'[t].specs = th[t].specs
  BY <1>0, <1>1, Fields DEF ThreadType
<1>8. Resolved(t)' /\ Guarded(t)'
  BY <1>0, <1>2, <1>7 DEF Resolved, Guarded
<1>9. \A u \in Threads \ {t} : th'[u] = th[u] /\ mu' # u /\ mu # u
  BY SMTT(30), <1>0, <1>1, Values
<1>10. \A u \in Threads : Resolved(u)' /\ Guarded(u)'
  BY <1>8, <1>9, Others
<1> QED
  BY <1>5, <1>6, <1>10 DEF IInv

(* What startGuestProxy binds is a port, and only port 0 is chosen freely.  *)
LEMMA ListenStep ==
  ASSUME IInv, NEW t \in Threads, listen(t)
  PROVE  IInv'
<1> DEFINE k == th[t].key
           s == th[t].specs[k]
           g == th[t].wanted[k]
           port == IF s.port > 0 THEN s.port ELSE availablePort(0, PortRange)
           bound == IF port = 0 THEN {p \in Ephemeral : isPortFree(p)}
                    ELSE {p \in {port} : isPortFree(p)}
<1>0. /\ TypeOK /\ Resolved(t) /\ Guarded(t) /\ th \in [Threads -> ThreadType]
      /\ th[t].pc = "listen" /\ NoLeakedListener
      /\ UNCHANGED <<reg, guest, daemonUp, taken, mu, ops, faults>>
  BY Zenon, ThreadTypeOK DEF IInv, listen
<1>1. /\ k \in Keys /\ g \in GuestServices /\ s \in Specs /\ mu = t
      /\ active[k] = NoTunnel /\ reg \in Registry /\ ops \in 0..MaxOps
  BY <1>0, Fields DEF Resolved, Guarded, Guests, TypeOK
<1>2. CASE bound = {} /\ th' = [th EXCEPT ![t].pc = "starting"]
             /\ UNCHANGED <<active, listening>>
  <2> HIDE DEF bound
  <2> DEFINE r == [th[t] EXCEPT !.pc = "starting"]
  <2>1. r \in ThreadType
    BY <1>0, Fields DEF ThreadType, Pcs
  <2>2. th' = [th EXCEPT ![t] = r]
    BY <1>0, <1>2
  <2>3. /\ th'[t].pc = "starting" /\ th'[t].todo = th[t].todo
        /\ th'[t].wanted = th[t].wanted /\ th'[t].specs = th[t].specs
    BY <1>0, <2>2, Fields DEF ThreadType
  <2>4. Resolved(t)' /\ Guarded(t)'
    BY <1>0, <1>1, <1>2, <2>3 DEF Resolved, Guarded
  <2> HIDE DEF r
  <2> QED
    BY Zenon, <1>0, <1>1, <1>2, <2>1, <2>2, <2>4, QuietStep
<1>3. ASSUME NEW p \in bound,
             active' = [active EXCEPT ![k] = activeTunnel(s, p, g)],
             listening' = listening \cup {<<k, p>>},
             th' = IF p # s.port \/ s.service # g
                   THEN [th EXCEPT ![t].pc = "addLoad", ![t].spec =
                           [bind |-> s.bind, port |-> p, service |-> g]]
                   ELSE [th EXCEPT ![t].pc = "starting"]
      PROVE  IInv'
  <2>1. p \in Ports
    <3>1. s.port \in Ports \cup {0} /\ Ephemeral \subseteq Ports
          /\ Ports \subseteq Nat \ {0}
      BY <1>1, TunnelAssumption DEF Specs, Ports
    <3>2. availablePort(0, PortRange) = 0
      BY DEF availablePort, isPortFree
    <3>3. CASE s.port > 0
      BY <3>1, <3>3
    <3>4. CASE ~(s.port > 0)
      BY <3>1, <3>2, <3>4
    <3> QED
      BY <3>3, <3>4
  <2> DEFINE n == [bind |-> s.bind, port |-> p, service |-> g]
             pc == IF p # s.port \/ s.service # g THEN "addLoad" ELSE "starting"
             sp == IF p # s.port \/ s.service # g THEN n ELSE th[t].spec
             r == [th[t] EXCEPT !.pc = pc, !.spec = sp]
  <2> HIDE DEF bound
  <2>2. n \in Specs
    BY <1>1, <2>1 DEF Specs
  <2> HIDE DEF n
  <2>3. /\ pc \in Pcs /\ pc \in {"addLoad", "starting"}
        /\ sp \in Specs \cup {NoSpec} /\ (pc = "addLoad" => sp \in Specs)
    BY <1>0, <2>2, Fields DEF Pcs
  <2>4. th' = [th EXCEPT ![t] = r]
    BY Zenon, <1>0, <1>3, Fields DEF n, ThreadType
  <2> HIDE DEF pc, sp
  <2>5. r \in ThreadType
    BY Zenon, <1>0, <2>3, Fields DEF ThreadType
  <2>6. th' \in [Threads -> ThreadType]
    BY <1>0, <2>4, <2>5
  <2>7. /\ th'[t].pc = pc /\ th'[t].todo = th[t].todo /\ th'[t].spec = sp
        /\ th'[t].wanted = th[t].wanted /\ th'[t].specs = th[t].specs
    BY <1>0, <2>4, Fields DEF ThreadType
  <2> DEFINE a == activeTunnel(s, p, g)
  <2>8. a \in Tunnel /\ a # NoTunnel /\ a.port = p
    BY <1>1, <2>1, Values
  <2>9. active' = [active EXCEPT ![k] = a]
    BY <1>3
  <2> HIDE DEF a, s, g, k, r
  <2>10. TypeOK'
    <3>1. /\ active' \in [Keys -> Tunnel \cup {NoTunnel}]
          /\ listening' \subseteq Keys \X Ports
      BY <1>0, <1>1, <1>3, <2>1, <2>8, <2>9 DEF TypeOK
    <3> QED
      BY <1>0, <2>6, <3>1 DEF TypeOK, ThreadType, Guests
  <2>11. NoLeakedListener'
    BY <1>0, <1>1, <1>3, <2>8, <2>9 DEF NoLeakedListener, TypeOK
  <2>12. Resolved(t)' /\ Guarded(t)'
    BY <1>0, <1>1, <2>3, <2>7 DEF Resolved, Guarded
  <2>13. \A u \in Threads \ {t} : th'[u] = th[u] /\ mu' # u /\ mu # u
    BY <1>0, <1>1, <2>4
  <2>14. \A u \in Threads : Resolved(u)' /\ Guarded(u)'
    BY <2>12, <2>13, Others
  <2> QED
    BY <2>10, <2>11, <2>14 DEF IInv
<1> QED
  BY Zenon, <1>2, <1>3 DEF listen

-----------------------------------------------------------------------------
(* Steps of the daemon's process, the VMs and other programs.               *)

LEMMA ExitStep ==
  ASSUME IInv, stopAllTunnels
  PROVE  IInv'
<1>0. /\ TypeOK /\ th \in [Threads -> ThreadType] /\ daemonUp' = FALSE
      /\ active' = [k \in Keys |-> NoTunnel] /\ listening' = {}
      /\ mu' = NoThread /\ UNCHANGED <<reg, guest, taken, ops>>
      /\ th' = [t \in Threads |->
                  IF t = mu \/ th[t].pc \in Reconciling THEN Idle ELSE th[t]]
  BY ThreadTypeOK DEF IInv, stopAllTunnels
<1>1. th' \in [Threads -> ThreadType]
  BY <1>0, IdleType
<1>2. faults' \in 0..MaxFaults
  BY <1>0, TunnelAssumption DEF stopAllTunnels, fault, TypeOK
<1>3. TypeOK'
  BY Zenon, <1>0, <1>1, <1>2 DEF TypeOK, ThreadType, Guests
<1>4. NoLeakedListener'
  BY <1>0 DEF NoLeakedListener
<1>5. ASSUME NEW u \in Threads PROVE Resolved(u)' /\ Guarded(u)'
  <2>1. CASE u = mu \/ th[u].pc \in Reconciling
    <3>1. th'[u] = Idle /\ mu' # u
      BY <1>0, <2>1, Values
    <3> QED
      BY <3>1, IdleType DEF Resolved, Guarded
  <2>2. CASE ~(u = mu \/ th[u].pc \in Reconciling)
    <3>1. /\ th'[u] = th[u] /\ mu' # u /\ mu # u /\ Resolved(u) /\ Guarded(u)
          /\ th[u].pc \notin {"lock", "starting", "listen"}
      BY <1>0, <2>2, Values DEF IInv, Reconciling
    <3> QED
      BY <3>1 DEF Resolved, Guarded
  <2> QED
    BY <2>1, <2>2
<1> QED
  BY <1>3, <1>4, <1>5 DEF IInv

LEMMA OutsideStep ==
  ASSUME IInv, UNCHANGED <<reg, active, listening, mu, th, ops>>,
         guest' \in Guests, daemonUp' \in BOOLEAN, taken' \subseteq Ports,
         faults' \in 0..MaxFaults
  PROVE  IInv'
<1>1. TypeOK'
  BY DEF IInv, TypeOK, Guests
<1>2. NoLeakedListener'
  BY DEF IInv, NoLeakedListener
<1>3. ASSUME NEW u \in Threads PROVE Resolved(u)' /\ Guarded(u)'
  BY DEF IInv, Resolved, Guarded
<1> QED
  BY <1>1, <1>2, <1>3 DEF IInv

LEMMA Preserved ==
  ASSUME IInv, [Next]_vars
  PROVE  IInv'
<1>0. TypeOK /\ guest \in Guests /\ daemonUp \in BOOLEAN /\ taken \subseteq Ports
      /\ faults \in 0..MaxFaults /\ (fault => faults' \in 0..MaxFaults)
  BY TunnelAssumption DEF IInv, TypeOK, Guests, fault
<1>1. ASSUME NEW c \in Commands, Command(c) PROVE IInv'
  BY <1>1, CommandStep
<1>2. ASSUME NEW t \in Threads, Edit(t) PROVE IInv'
  BY <1>2, EditStep
<1>3. ASSUME NEW t \in Threads, reconcileTunnels(t) PROVE IInv'
  BY <1>3, LoadStep, ResolveStep, LockStep, ChooseStep, ListenStep, UnlockStep
     DEF reconcileTunnels
<1>4. CASE tick
  BY <1>4, TickStep
<1>5. CASE RunDaemon
  BY <1>0, <1>5, OutsideStep DEF RunDaemon
<1>6. CASE stopAllTunnels
  BY <1>6, ExitStep
<1>7. ASSUME NEW v \in VMs, vmChanges(v) PROVE IInv'
  <2>1. PICK g \in [Services -> GuestServices \cup {0}] :
          guest' = [k \in Keys |-> IF k[1] = v THEN g[k[2]] ELSE guest[k]]
    BY <1>7 DEF vmChanges
  <2>2. \A k \in Keys : k[2] \in Services
    BY DEF Keys
  <2>3. guest' \in Guests
    BY <1>0, <2>1, <2>2 DEF Guests
  <2> QED
    BY <1>0, <1>7, <2>3, OutsideStep DEF vmChanges
<1>8. ASSUME NEW p \in Ports, portTaken(p) PROVE IInv'
  BY <1>0, <1>8, OutsideStep DEF portTaken
<1>9. CASE UNCHANGED vars
  BY <1>0, <1>9, OutsideStep DEF vars
<1> QED
  BY <1>1, <1>2, <1>3, <1>4, <1>5, <1>6, <1>7, <1>8, <1>9 DEF Next

-----------------------------------------------------------------------------
LEMMA Inductive == Spec => []IInv
<1>1. IInv /\ [Next]_vars => IInv'
  BY Preserved
<1> QED
  BY <1>1, InitIInv, PTL DEF Spec

(* Every variable keeps its type under every step of commands, reconciles   *)
(* and the daemon: in particular the daemon's table never holds a tunnel    *)
(* without a registration, a port that is bound and a resolved service.     *)
THEOREM TypeCorrect == Spec => []TypeOK
<1>1. IInv => TypeOK
  BY DEF IInv
<1> QED
  BY <1>1, Inductive, PTL

(* However many reconciles run, on the tick and in reload handlers, every   *)
(* listener that startGuestProxy opened is the one tunnels.active names, so *)
(* reconcileTunnels and stopAllTunnels close it.                            *)
THEOREM NothingLeaked == Spec => []NoLeakedListener
<1>1. IInv => NoLeakedListener
  BY DEF IInv
<1> QED
  BY <1>1, Inductive, PTL

-----------------------------------------------------------------------------
(* The router's table.                                                      *)

(* Induction over the natural numbers, for a set of them.                   *)
LEMMA SetInduction ==
  ASSUME NEW S, 0 \in S, \A n \in Nat : n \in S => n + 1 \in S
  PROVE  \A n \in Nat : n \in S
<1> DEFINE Missing == Nat \ S
<1>1. SUFFICES ASSUME Missing # {} PROVE FALSE
  BY Zenon
<1>2. PICK m \in Missing : \A k \in Missing : ~(<<k, m>> \in OpToRel(<, Nat))
  BY <1>1, WFMin, NatLessThanWellFounded
<1>3. m \in Nat /\ m # 0
  BY <1>2
<1>4. m - 1 \in Nat /\ m - 1 < m /\ (m - 1) + 1 = m
  BY <1>3
<1>5. m - 1 \notin Missing
  BY Zenon, <1>2, <1>3, <1>4 DEF OpToRel
<1>6. m \in S
  BY Zenon, <1>3, <1>4, <1>5
<1> QED
  BY Zenon, <1>2, <1>6

(* The table after n tunnels of the order, as activeRoutes computes it.     *)
NoRoutes == [l \in Services |-> {}]
Built(f, o, n) ==
  f = [i \in 0..n |-> IF i = 0 THEN NoRoutes ELSE takeRoute(f[i - 1], o[i])]

(* The recursion of activeRoutes defines a table for any number of tunnels. *)
LEMMA Buildable ==
  ASSUME NEW o, NEW n \in Nat
  PROVE  \E f : Built(f, o, n)
<1> DEFINE S == {m \in Nat : \E f : Built(f, o, m)}
<1>1. 0 \in S
  <2> DEFINE f == [i \in 0..0 |-> NoRoutes]
  <2>1. Built(f, o, 0)
    BY DEF Built
  <2> QED
    BY Zenon, <2>1
<1>2. ASSUME NEW m \in Nat, m \in S PROVE m + 1 \in S
  <2>1. PICK f : Built(f, o, m)
    BY Zenon, <1>2
  <2> DEFINE g == [i \in 0..(m + 1) |-> IF i = m + 1 THEN takeRoute(f[m], o[m + 1]) ELSE f[i]]
  <2>2. ASSUME NEW i \in 0..(m + 1)
        PROVE  g[i] = IF i = 0 THEN NoRoutes ELSE takeRoute(g[i - 1], o[i])
    <3>1. CASE i = m + 1
      <4>1. m \in 0..(m + 1) /\ m # m + 1 /\ i - 1 = m /\ i # 0
        BY <3>1
      <4>2. g[m] = f[m] /\ g[i] = takeRoute(f[m], o[i])
        BY Zenon, <3>1, <4>1
      <4> QED
        BY Zenon, <4>1, <4>2
    <3>2. CASE i # m + 1 /\ i # 0
      <4>1. i \in 0..m /\ i - 1 \in 0..(m + 1) /\ i - 1 # m + 1
        BY <3>2
      <4>2. g[i] = f[i] /\ g[i - 1] = f[i - 1]
        BY Zenon, <3>2, <4>1
      <4>3. f[i] = takeRoute(f[i - 1], o[i])
        BY Zenon, <2>1, <3>2, <4>1 DEF Built
      <4> QED
        BY Zenon, <3>2, <4>2, <4>3
    <3>3. CASE i = 0
      <4>1. 0 \in 0..m /\ 0 # m + 1
        OBVIOUS
      <4>2. f[0] = NoRoutes
        BY Zenon, <2>1, <4>1 DEF Built
      <4>3. g[i] = f[0]
        BY Zenon, <3>3, <4>1
      <4> QED
        BY Zenon, <3>3, <4>2, <4>3
    <3> QED
      BY Zenon, <3>1, <3>2, <3>3
  <2>3. Built(g, o, m + 1)
    BY Zenon, <2>2 DEF Built
  <2>4. m + 1 \in Nat
    OBVIOUS
  <2> QED
    BY Zenon, <2>3, <2>4
<1> HIDE DEF S
<1>3. n \in S
  BY Zenon, <1>1, <1>2, SetInduction
<1> QED
  BY Zenon, <1>3 DEF S

(* activeRoutes is the last of those tables.                                *)
LEMMA RoutesBuilt ==
  ASSUME NEW o, Len(o) \in Nat
  PROVE  \E f : Built(f, o, Len(o)) /\ activeRoutes(o) = f[Len(o)]
<1> DEFINE out == CHOOSE g : Built(g, o, Len(o))
<1>1. Built(out, o, Len(o))
  BY Zenon, Buildable
<1>2. activeRoutes(o) = out[Len(o)]
  BY Zenon DEF activeRoutes, Built, NoRoutes
<1> QED
  BY Zenon, <1>1, <1>2

(* A key is a pair of numbers.                                              *)
LEMMA KeyParts ==
  ASSUME NEW a \in Keys
  PROVE  a = <<a[1], a[2]>> /\ a[1] \in Nat /\ a[2] \in Nat /\ a[2] \in Services
<1>1. PICK v \in VMs, s \in Services : a = <<v, s>>
  BY DEF Keys
<1>2. v \in Nat /\ s \in Nat
  BY Zenon, TunnelAssumption
<1> QED
  BY <1>1, <1>2

(* Keys are ordered totally and strictly.                                   *)
LEMMA KeysOrdered ==
  ASSUME NEW a \in Keys, NEW b \in Keys, NEW c \in Keys
  PROVE  /\ ~keyLess(a, a) /\ (keyLess(a, b) \/ a = b \/ keyLess(b, a))
         /\ ~(keyLess(a, b) /\ keyLess(b, a))
         /\ keyLess(a, b) /\ keyLess(b, c) => keyLess(a, c)
         /\ VHost(a) \in Services
<1>1. /\ a = <<a[1], a[2]>> /\ b = <<b[1], b[2]>>
      /\ a[1] \in Nat /\ a[2] \in Nat /\ b[1] \in Nat /\ b[2] \in Nat /\ c[1] \in Nat /\ c[2] \in Nat
      /\ a[2] \in Services
  BY Zenon, KeyParts
<1>2. keyLess(a, b) \/ a = b \/ keyLess(b, a)
  <2>1. a[1] = b[1] /\ a[2] = b[2] => a = b
    BY Zenon, <1>1
  <2>2. \/ a[1] < b[1] \/ (a[1] = b[1] /\ a[2] < b[2])
        \/ (a[1] = b[1] /\ a[2] = b[2])
        \/ b[1] < a[1] \/ (b[1] = a[1] /\ b[2] < a[2])
    BY <1>1
  <2> QED
    BY Zenon, <2>1, <2>2 DEF keyLess
<1> QED
  BY <1>1, <1>2 DEF keyLess, VHost

(* A tunnel the router may lead to.                                         *)
Web(k) == active[k].service \in HTTPServices

(* What a table built from the tunnels of a set has to do with them: under  *)
(* a name there is at most one, it is one of them, and it is before every   *)
(* other of that name.                                                      *)
Leads(out, seen) ==
  /\ out \in [Services -> SUBSET Keys]
  /\ \A l \in Services :
       /\ \A k \in out[l] : k \in seen /\ VHost(k) = l /\ Web(k)
       /\ \A j, k \in out[l] : j = k
  /\ \A j \in seen : Web(j) => \E k \in out[VHost(j)] : k = j \/ keyLess(k, j)

(* One more tunnel.                                                         *)
LEMMA RouteTaken ==
  ASSUME NEW out, NEW seen, seen \subseteq Keys, Leads(out, seen), NEW k \in Keys
  PROVE  Leads(takeRoute(out, k), seen \cup {k})
<1> DEFINE new == takeRoute(out, k)
<1>0. VHost(k) \in Services /\ out \in [Services -> SUBSET Keys]
  BY Zenon, KeysOrdered DEF Leads
<1>1. CASE ~Web(k) \/ \E j \in out[VHost(k)] : keyLess(j, k)
  <2>1. new = out
    BY Zenon, <1>1 DEF takeRoute, Web
  <2>2. \A j \in seen \cup {k} : Web(j) => \E i \in out[VHost(j)] : i = j \/ keyLess(i, j)
    <3> SUFFICES ASSUME NEW j \in seen \cup {k}, Web(j)
                 PROVE  \E i \in out[VHost(j)] : i = j \/ keyLess(i, j)
      BY Zenon
    <3>1. CASE j \in seen
      BY Zenon, <3>1 DEF Leads
    <3>2. CASE j = k
      BY Zenon, <1>1, <3>2
    <3> QED
      BY Zenon, <3>1, <3>2
  <2> QED
    BY Zenon, <2>1, <2>2 DEF Leads
<1>2. CASE Web(k) /\ ~\E j \in out[VHost(k)] : keyLess(j, k)
  <2>1. new = [out EXCEPT ![VHost(k)] = {k}]
    BY Zenon, <1>2 DEF takeRoute, Web
  <2>2. /\ new \in [Services -> SUBSET Keys] /\ new[VHost(k)] = {k}
        /\ \A l \in Services : l # VHost(k) => new[l] = out[l]
    BY <1>0, <2>1
  <2>3. ASSUME NEW l \in Services
        PROVE  /\ \A j \in new[l] : j \in seen \cup {k} /\ VHost(j) = l /\ Web(j)
               /\ \A i, j \in new[l] : i = j
    <3>1. CASE l = VHost(k)
      BY Zenon, <1>2, <2>2, <3>1
    <3>2. CASE l # VHost(k)
      BY Zenon, <2>2, <3>2 DEF Leads
    <3> QED
      BY Zenon, <3>1, <3>2
  <2>4. ASSUME NEW j \in seen \cup {k}, Web(j)
        PROVE  \E i \in new[VHost(j)] : i = j \/ keyLess(i, j)
    <3>0. j \in Keys /\ VHost(j) \in Services
      BY Zenon, KeysOrdered
    <3>1. CASE j = k
      BY Zenon, <2>2, <3>1
    <3>2. CASE j # k /\ VHost(j) # VHost(k)
      BY Zenon, <2>2, <2>4, <3>0, <3>2 DEF Leads
    <3>3. CASE j # k /\ VHost(j) = VHost(k)
      <4>1. PICK i \in out[VHost(j)] : i = j \/ keyLess(i, j)
        BY Zenon, <2>4, <3>3 DEF Leads
      <4>2. i \in Keys /\ ~keyLess(i, k)
        BY Zenon, <1>0, <1>2, <3>3, <4>1
      <4>3. k = i \/ keyLess(k, i)
        BY Zenon, <4>2, KeysOrdered
      <4>4. k = j \/ keyLess(k, j)
        BY Zenon, <3>0, <4>1, <4>2, <4>3, KeysOrdered
      <4> QED
        BY Zenon, <2>2, <3>3, <4>4
    <3> QED
      BY Zenon, <3>1, <3>2, <3>3
  <2> QED
    BY Zenon, <2>2, <2>3, <2>4 DEF Leads
<1> QED
  BY Zenon, <1>1, <1>2

(* The whole order.                                                         *)
LEMMA RoutesLead ==
  ASSUME NEW o, NEW n \in Nat, NEW f, Built(f, o, n), \A i \in 1..n : o[i] \in Keys
  PROVE  Leads(f[n], {o[i] : i \in 1..n})
<1> DEFINE Seen(m) == {o[i] : i \in 1..m}
           S == {m \in Nat : m <= n => Leads(f[m], Seen(m))}
<1>1. 0 \in S
  <2>1. f[0] = NoRoutes
    BY DEF Built
  <2>2. Seen(0) = {}
    OBVIOUS
  <2>3. Leads(NoRoutes, {})
    BY DEF Leads, NoRoutes
  <2> QED
    BY Zenon, <2>1, <2>2, <2>3
<1>2. ASSUME NEW m \in Nat, m \in S PROVE m + 1 \in S
  <2>1. SUFFICES ASSUME m + 1 <= n PROVE Leads(f[m + 1], Seen(m + 1))
    OBVIOUS
  <2>2. /\ m <= n /\ m + 1 \in 1..n /\ m + 1 \in 0..n /\ m + 1 # 0 /\ (m + 1) - 1 = m
        /\ 1..m \subseteq 1..n /\ 1..(m + 1) = 1..m \cup {m + 1}
    BY <2>1
  <2>3. f[m + 1] = takeRoute(f[m], o[m + 1])
    BY Zenon, <2>2 DEF Built
  <2>4. Leads(f[m], Seen(m)) /\ Seen(m) \subseteq Keys /\ o[m + 1] \in Keys
    BY Zenon, <1>2, <2>2
  <2>5. Seen(m + 1) = Seen(m) \cup {o[m + 1]}
    BY Zenon, <2>2
  <2>6. Leads(takeRoute(f[m], o[m + 1]), Seen(m) \cup {o[m + 1]})
    <3> HIDE DEF Seen
    <3> QED
      BY Zenon, <2>4, RouteTaken
  <2> HIDE DEF Seen
  <2> QED
    BY Zenon, <2>3, <2>5, <2>6
<1> HIDE DEF S
<1>3. n \in S
  BY Zenon, <1>1, <1>2, SetInduction
<1> QED
  BY <1>3 DEF S

(* The names lead to the least keys in any order, whatever the daemon's     *)
(* table is.                                                                *)
LEMMA StableIfTyped ==
  ASSUME TypeOK
  PROVE  RoutesStable
<1> DEFINE On == {k \in Keys : active[k] # NoTunnel}
<1> SUFFICES ASSUME NEW o \in Orders(On), NEW l \in Services
             PROVE  activeRoutes(o)[l] =
                      {k \in Keys : /\ VHost(k) = l /\ Web(k)
                                    /\ \A j \in Keys : VHost(j) = l /\ keyLess(j, k) => ~Web(j)}
  BY Zenon DEF RoutesStable, Web
<1> DEFINE n == Cardinality(On)
<1>1. n \in Nat
  <2>1. IsFiniteSet(Keys)
    BY Zenon, TunnelAssumption, FS_Product DEF Keys
  <2>2. IsFiniteSet(On)
    BY Zenon, <2>1, FS_Subset
  <2> QED
    BY Zenon, <2>2, FS_CardinalityType
<1>2. o \in [1..n -> On] /\ \A k \in On : \E i \in 1..n : o[i] = k
  BY Zenon DEF Orders
<1> HIDE DEF n
<1>3. Len(o) = n /\ {o[i] : i \in 1..n} = On /\ \A i \in 1..n : o[i] \in Keys
  <2>1. Len(o) = n
    BY <1>1, <1>2
  <2> QED
    BY <1>2, <2>1
<1>4. PICK f : Built(f, o, n) /\ activeRoutes(o) = f[n]
  BY Zenon, <1>1, <1>3, RoutesBuilt
<1>5. Leads(activeRoutes(o), On)
  <2>1. Leads(f[n], {o[i] : i \in 1..n})
    BY Zenon, <1>1, <1>3, <1>4, RoutesLead
  <2> QED
    BY Zenon, <1>3, <1>4, <2>1
<1>6. \A k \in Keys : Web(k) => k \in On
  BY TunnelAssumption DEF Web, NoTunnel
<1>7. ASSUME NEW k \in activeRoutes(o)[l]
      PROVE  /\ k \in Keys /\ VHost(k) = l /\ Web(k)
             /\ \A j \in Keys : VHost(j) = l /\ keyLess(j, k) => ~Web(j)
  <2>1. k \in On /\ VHost(k) = l /\ Web(k)
    BY Zenon, <1>5, <1>7 DEF Leads
  <2>2. ASSUME NEW j \in Keys, VHost(j) = l, keyLess(j, k), Web(j) PROVE FALSE
    <3>1. PICK i \in activeRoutes(o)[l] : i = j \/ keyLess(i, j)
      BY Zenon, <1>5, <1>6, <2>2 DEF Leads
    <3>2. i = k
      BY Zenon, <1>5, <1>7 DEF Leads
    <3> QED
      BY Zenon, <2>1, <2>2, <3>1, <3>2, KeysOrdered
  <2> QED
    BY Zenon, <2>1, <2>2
<1>8. ASSUME NEW k \in Keys, VHost(k) = l, Web(k),
             \A j \in Keys : VHost(j) = l /\ keyLess(j, k) => ~Web(j)
      PROVE  k \in activeRoutes(o)[l]
  <2>1. PICK i \in activeRoutes(o)[l] : i = k \/ keyLess(i, k)
    BY Zenon, <1>5, <1>6, <1>8 DEF Leads
  <2>2. i \in Keys /\ VHost(i) = l /\ Web(i)
    BY Zenon, <1>7
  <2> QED
    BY Zenon, <1>8, <2>1, <2>2
<1> QED
  BY Zenon, <1>7, <1>8

(* The router sends a name to the same tunnel in every iteration order, for *)
(* any number of VMs, services and tunnels (activeRoutes).                  *)
THEOREM RoutesDoNotDepend == Spec => []RoutesStable
<1>1. TypeOK => RoutesStable
  BY StableIfTyped
<1> QED
  BY <1>1, TypeCorrect, PTL
=============================================================================
