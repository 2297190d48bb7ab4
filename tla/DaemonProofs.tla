---------------------------- MODULE DaemonProofs ----------------------------
(***************************************************************************)
(* What the daemon promises the host and the commands, for any VMs, calls, *)
(* daemons and bounds: the host does not power off under a VM that the     *)
(* daemon could have stopped, and a command reaches QEMU once.             *)
(***************************************************************************)
EXTENDS HostShutdown, QMPRouting, TLAPS

-----------------------------------------------------------------------------
(* The end of the host.                                                     *)

HostPcs == {"pass", "inhibit", "loop", "count", "stopping", "exited"}
Causes  == {"", "noconn", "gone", "interrupted", "stopped", "fault"}

(* (The two counters only bound what happens.)                              *)
HostTypeOK ==
  /\ plat \in {"linux", "darwin", "none"} /\ prep \in BOOLEAN /\ off \in BOOLEAN
  /\ term \in {"none", "sent", "seen"} /\ hctx \in BOOLEAN
  /\ shutCh \in {"idle", "full", "ended"} /\ hlock \in BOOLEAN
  /\ hrun \subseteq HostVMs /\ left \subseteq HostVMs /\ cause \in Causes
  /\ hdm \in [pc : HostPcs, wait : SUBSET HostVMs]

(* Why the daemon may stop VMs at all.                                      *)
HostGoes == IF plat = "linux" THEN prep ELSE plat = "darwin" /\ term # "none"

HostInv ==
  /\ HostTypeOK
  /\ hdm.pc = "stopping" => hrun \subseteq left \cup hdm.wait
  /\ hdm.pc = "exited" /\ cause = "" => hrun \subseteq left
  /\ off => hdm.pc = "exited"
  /\ hdm.pc \in {"count", "stopping"} \/ shutCh = "full" => HostGoes

(* The invariant holds before the daemon takes the inhibitor.               *)
LEMMA HostInitInv == HostInit => HostInv
<1> SUFFICES ASSUME HostInit PROVE HostInv
  OBVIOUS
<1>1. HostTypeOK
  BY DEF HostInit, HostTypeOK, HostPcs, Causes
<1> QED
  BY <1>1 DEF HostInit, HostInv

(* The steps of the host, of commands and of the goroutines behind the      *)
(* channel.                                                                 *)
LEMMA OutsideStep ==
  ASSUME HostInv,
         \/ \E v \in HostVMs : startGuest(v) \/ stopGuest(v)
         \/ hostPrepares \/ sigterm \/ sigint \/ powerOff
         \/ termSeen \/ PrepareForShutdown \/ subscriptionEnds
  PROVE  HostInv'
<1> USE DEF HostInv, HostTypeOK, HostGoes
<1>1. ASSUME NEW v \in HostVMs, startGuest(v) PROVE HostInv'
  BY ZenonT(60), <1>1 DEF startGuest
<1>2. ASSUME NEW v \in HostVMs, stopGuest(v) PROVE HostInv'
  BY <1>2 DEF stopGuest
<1>3. CASE hostPrepares
  BY ZenonT(60), <1>3 DEF hostPrepares, Causes
<1>4. CASE sigterm
  BY <1>4 DEF sigterm
<1>5. CASE sigint
  BY <1>5 DEF sigint, Causes
<1>6. CASE powerOff
  BY <1>6 DEF powerOff
<1>7. CASE termSeen
  BY <1>7 DEF termSeen
<1>8. CASE PrepareForShutdown
  BY <1>8 DEF PrepareForShutdown, announced
<1>9. CASE subscriptionEnds
  BY <1>9 DEF subscriptionEnds
<1> QED
  BY <1>1, <1>2, <1>3, <1>4, <1>5, <1>6, <1>7, <1>8, <1>9

(* The daemon: its ticks, the inhibitor and the stopping of the VMs.        *)
LEMMA RunDaemonStep ==
  ASSUME HostInv, RunDaemon
  PROVE  HostInv'
<1>1. CASE startAutoStartVMs
  BY <1>1, HostAssumption DEF startAutoStartVMs, HostInv, HostTypeOK, HostGoes, HostPcs
<1>2. CASE reconcileInhibitor
  BY Zenon, <1>2 DEF reconcileInhibitor, fault, HostInv, HostTypeOK, HostGoes, HostPcs
<1>3. CASE tickDaemon
  BY <1>3 DEF tickDaemon, HostInv, HostTypeOK, HostGoes, HostPcs
<1>4. CASE ctxDone
  BY ZenonT(60), <1>4 DEF ctxDone, fault, exitDaemon, announced, HostInv, HostTypeOK, HostGoes,
              HostPcs, Causes
<1>5. CASE shutdownSignal
  BY <1>5 DEF shutdownSignal, HostInv, HostTypeOK, HostGoes, HostPcs
<1>6. CASE handleHostShutdown
  <2>1. CASE exitDaemon("") \/ exitDaemon("fault")
    <3>1. /\ hdm'.pc = "exited" /\ hdm'.wait = hdm.wait
          /\ hdm' \in [pc : HostPcs, wait : SUBSET HostVMs]
      BY <2>1 DEF exitDaemon, HostInv, HostTypeOK, HostPcs
    <3>2. hdm' # [pc |-> "stopping", wait |-> hrun]
      BY <3>1
    <3>3. ((exitDaemon("") /\ hrun = {}) \/ exitDaemon("fault")) /\ UNCHANGED left
      BY <1>6, <3>2, Zenon DEF handleHostShutdown
    <3>4. cause' \in Causes /\ hlock' = FALSE /\ (cause' = "" => hrun = {})
      BY <3>3 DEF exitDaemon, HostInv, HostTypeOK, Causes
    <3>5. UNCHANGED <<plat, prep, off, term, hctx, shutCh, hrun>>
      BY <1>6 DEF handleHostShutdown
    <3> QED
      BY <3>1, <3>3, <3>4, <3>5 DEF HostInv, HostTypeOK, HostGoes
  <2>2. CASE hdm' = [pc |-> "stopping", wait |-> hrun]
    BY <1>6, <2>2 DEF handleHostShutdown, exitDaemon, HostInv, HostTypeOK, HostGoes, HostPcs
  <2> QED
    BY <1>6, <2>1, <2>2 DEF handleHostShutdown
<1>7. ASSUME NEW v \in HostVMs, stopOne(v) PROVE HostInv'
  BY <1>7 DEF stopOne, fault, HostInv, HostTypeOK, HostGoes
<1>8. CASE allStopped
  BY <1>8 DEF allStopped, exitDaemon, HostInv, HostTypeOK, HostGoes, HostPcs, Causes
<1> QED
  BY <1>1, <1>2, <1>3, <1>4, <1>5, <1>6, <1>7, <1>8 DEF RunDaemon

(* The invariant of the host shutdown holds throughout.                     *)
LEMMA HostInductive == HostSpec => []HostInv
<1>1. HostInv /\ [HostNext]_hostVars => HostInv'
  <2>1. ASSUME HostInv, UNCHANGED hostVars PROVE HostInv'
    BY ZenonT(60), <2>1 DEF hostVars, HostInv, HostTypeOK, HostGoes
  <2> QED
    BY <2>1, OutsideStep, RunDaemonStep DEF HostNext
<1> QED
  BY <1>1, HostInitInv, PTL DEF HostSpec

(* However starts, stops, signals and faults fall, a host that waits for    *)
(* RunDaemon to exit powers off under a VM only when its stop failed, when  *)
(* it was started after StopAllRunning had listed the VMs, or when the      *)
(* daemon had a reason, on record, to be gone.                              *)
THEOREM NothingCutOff == HostSpec => []NoVMCutOff
<1>1. HostInv => NoVMCutOff
  BY DEF HostInv, NoVMCutOff
<1> QED
  BY <1>1, HostInductive, PTL

(* RunDaemon never stops VMs for a plain stop of the daemon: when it begins *)
(* to, the host is on its way down, or on macOS a SIGTERM has come.         *)
THEOREM StopsOnlyForHost == HostSpec => [][PlainStopLeavesVMs]_hostVars
<1>1. ASSUME HostInv, HostNext PROVE PlainStopLeavesVMs
  <2> SUFFICES ASSUME hdm.pc # "stopping", hdm'.pc = "stopping" PROVE HostGoes
    BY DEF PlainStopLeavesVMs, HostGoes
  <2>1. hdm.pc = "count"
    BY <1>1 DEF HostNext, RunDaemon, startGuest, stopGuest, hostPrepares, sigterm, sigint,
        powerOff, termSeen, PrepareForShutdown, subscriptionEnds, startAutoStartVMs,
        reconcileInhibitor, tickDaemon, ctxDone, shutdownSignal, handleHostShutdown,
        stopOne, allStopped, exitDaemon, HostInv, HostTypeOK
  <2> QED
    BY <1>1, <2>1 DEF HostInv
<1>2. HostInv /\ [HostNext]_hostVars => [PlainStopLeavesVMs]_hostVars
  BY <1>1
<1> QED
  BY <1>2, HostInductive, PTL DEF HostSpec

-----------------------------------------------------------------------------
(* Commands for QEMU's monitor.                                             *)

Answers     == {"", "ok", "error", "notowned", "event"}
ServerType  == [pc : {"off", "up"}, owns : BOOLEAN]
CallType    == [pc : {"start", "asked", "dial", "direct", "done"}, res : Answers]
HandlerType == [pc : {"none", "wait", "execute", "reply"}, at : Servers \cup {NoServer},
                res : Answers]

RouteTypeOK ==
  /\ mon \in Servers \cup Calls \cup {NoServer} /\ srv \in [Servers -> ServerType]
  /\ sock \in Servers \cup {NoServer} /\ serves \in Nat /\ over \subseteq Servers
  /\ ql \in [Calls -> CallType] /\ hd \in [Calls -> HandlerType] /\ ran \in [Calls -> Nat]

pending(c) == hd[c].pc \in {"wait", "execute"}

(* What the handler and the caller may still do adds up to what is left of  *)
(* the call's allowance: only a powerdown may use both transports.          *)
Allowance(c) ==
  /\ ql[c].pc = "start" => hd[c].pc = "none" /\ ran[c] = 0
  /\ c \in Powerdowns =>
       /\ ran[c] \in {0, 1, 2}
       /\ pending(c) \/ ql[c].pc # "done" => ran[c] \in {0, 1}
       /\ pending(c) /\ ql[c].pc # "done" => ran[c] = 0
  /\ c \notin Powerdowns =>
       /\ ran[c] \in {0, 1}
       /\ ql[c].pc \in {"dial", "direct"} => hd[c].pc = "none" /\ ran[c] = 0
       /\ pending(c) => ran[c] = 0
       /\ hd[c].pc = "reply" /\ hd[c].res = "notowned" => ran[c] = 0

(* Two daemons that run at the same time both know.                         *)
OverlapSeen ==
  \A d, e \in Servers : d # e /\ listening(d) /\ listening(e) => d \in over

RouteInv == RouteTypeOK /\ OverlapSeen /\ DaemonReachable /\ \A c \in Calls : Allowance(c)

(* The fields of a call and of its handler, with their types.               *)
LEMMA RouteFields ==
  ASSUME RouteTypeOK
  PROVE  /\ \A c \in Calls : /\ ql[c] \in CallType /\ hd[c] \in HandlerType /\ ran[c] \in Nat
                             /\ hd[c].res \in Answers
         /\ NoHandler \in HandlerType /\ NoHandler.pc = "none"
  BY DEF RouteTypeOK, HandlerType, NoHandler, Answers

(* The invariant holds before any command is sent.                          *)
LEMMA RouteInitInv == RouteInit => RouteInv
<1> SUFFICES ASSUME RouteInit PROVE RouteInv
  OBVIOUS
<1>1. NoHandler \in HandlerType /\ NoHandler.pc = "none"
  BY DEF HandlerType, NoHandler, Answers
<1>2. /\ [pc |-> "off", owns |-> FALSE] \in ServerType
      /\ [pc |-> "start", res |-> ""] \in CallType
  BY DEF ServerType, CallType, Answers
<1>3. RouteTypeOK
  BY <1>1, <1>2 DEF RouteInit, RouteTypeOK
<1>4. OverlapSeen /\ DaemonReachable
  BY DEF RouteInit, OverlapSeen, DaemonReachable, listening
<1>5. ASSUME NEW c \in Calls PROVE Allowance(c)
  <2>1. ql[c].pc = "start" /\ hd[c].pc = "none" /\ ran[c] = 0
    BY <1>1 DEF RouteInit
  <2> QED
    BY <2>1 DEF Allowance, pending
<1> QED
  BY <1>3, <1>4, <1>5 DEF RouteInv

(* Steps of the daemons: a call's allowance does not depend on them, but a  *)
(* daemon that ends takes its handlers along.                               *)
LEMMA HandlersEnd ==
  ASSUME RouteInv, NEW d \in Servers, UNCHANGED <<ql, ran>>,
         hd' = [c \in Calls |-> IF hd[c].at = d THEN NoHandler ELSE hd[c]]
  PROVE  hd' \in [Calls -> HandlerType] /\ \A c \in Calls : Allowance(c)'
<1>1. RouteTypeOK
  BY DEF RouteInv
<1>2. hd' \in [Calls -> HandlerType]
  BY <1>1, RouteFields
<1>3. ASSUME NEW c \in Calls PROVE Allowance(c)'
  <2>1. Allowance(c) /\ ql'[c] = ql[c] /\ ran'[c] = ran[c] /\ ran[c] \in Nat
    BY <1>1, RouteFields DEF RouteInv
  <2>2. CASE hd'[c] = hd[c]
    BY <2>1, <2>2 DEF Allowance, pending
  <2>3. CASE hd'[c] = NoHandler
    <3>1. hd'[c].pc = "none"
      BY <1>1, <2>3, RouteFields
    <3> QED
      BY <2>1, <3>1 DEF Allowance, pending
  <2> QED
    BY <2>2, <2>3
<1> QED
  BY <1>2, <1>3

(* Daemons come, adopt a monitor and go: what ran has run.                  *)
LEMMA DaemonStep ==
  ASSUME RouteInv, NEW d \in Servers,
         serveControlSocket(d) \/ daemonExits(d) \/ daemonIsKilled(d) \/ adopt(d) \/ watchEnds(d)
  PROVE  RouteInv'
<1>0. /\ RouteTypeOK /\ OverlapSeen /\ DaemonReachable
      /\ srv \in [Servers -> ServerType] /\ srv[d] \in ServerType
  BY DEF RouteInv, RouteTypeOK
<1> DEFINE gone == [pc |-> "off", owns |-> FALSE]
<1>1. ASSUME UNCHANGED <<ql, hd, ran>> PROVE \A c \in Calls : Allowance(c)'
  BY <1>1 DEF RouteInv, Allowance, pending
<1>2. CASE serveControlSocket(d)
  <2>1. /\ UNCHANGED <<mon, ql, hd, ran>> /\ sock' = d /\ serves' \in Nat
        /\ srv' = [srv EXCEPT ![d] = [pc |-> "up", owns |-> FALSE]]
        /\ over' = IF \E e \in Servers \ {d} : listening(e)
                   THEN over \cup {e \in Servers : listening(e)} \cup {d} ELSE over \ {d}
    BY <1>0, <1>2 DEF serveControlSocket, listenAt, RouteTypeOK
  <2>2. [pc |-> "up", owns |-> FALSE] \in ServerType
    BY DEF ServerType
  <2>3. RouteTypeOK'
    BY <1>0, <2>1, <2>2 DEF RouteTypeOK
  <2>4. listening(d)' /\ \A e \in Servers \ {d} : srv'[e] = srv[e]
    BY <1>0, <2>1 DEF listening
  <2>5. OverlapSeen'
    BY <1>0, <2>1, <2>4 DEF OverlapSeen, listening
  <2>6. DaemonReachable'
    BY <1>0, <2>1, <2>4 DEF DaemonReachable, listening
  <2> QED
    BY <1>1, <2>1, <2>3, <2>5, <2>6 DEF RouteInv
<1>3. CASE daemonExits(d) \/ daemonIsKilled(d)
  <2>1. /\ UNCHANGED <<serves, over, ql, ran>> /\ srv' = [srv EXCEPT ![d] = gone]
        /\ sock' \in {sock, NoServer} /\ mon' \in {mon, NoServer} /\ listening(d)
        /\ hd' = [c \in Calls |-> IF hd[c].at = d THEN NoHandler ELSE hd[c]]
        /\ sock' = sock \/ daemonExits(d)
    BY <1>3 DEF daemonExits, daemonIsKilled, release
  <2>2. gone \in ServerType /\ gone.pc = "off"
    BY DEF ServerType
  <2> HIDE DEF gone
  <2>3. RouteTypeOK'
    BY <1>0, <2>1, <2>2, HandlersEnd DEF RouteTypeOK
  <2>4. ~listening(d)' /\ \A e \in Servers \ {d} : srv'[e] = srv[e]
    BY <1>0, <2>1, <2>2 DEF listening
  <2>5. OverlapSeen'
    BY <1>0, <2>1, <2>4 DEF OverlapSeen, listening
  <2>6. DaemonReachable'
    <3> SUFFICES ASSUME NEW e \in Servers, listening(e)', e \notin over' PROVE sock' = e
      BY DEF DaemonReachable
    <3>1. e # d /\ listening(e)
      BY <2>4 DEF listening
    <3>2. e \in over
      BY <1>0, <2>1, <3>1 DEF OverlapSeen
    <3> QED
      BY <2>1, <3>2
  <2> QED
    BY <2>1, <2>3, <2>5, <2>6, HandlersEnd DEF RouteInv
<1>4. CASE adopt(d) \/ watchEnds(d)
  <2>1. PICK b \in BOOLEAN : srv' = [srv EXCEPT ![d].owns = b]
    BY Zenon, <1>4 DEF adopt, watchEnds
  <2>2. /\ UNCHANGED <<sock, serves, over, ql, hd, ran>> /\ mon' \in {mon, d, NoServer}
    BY <1>4 DEF adopt, watchEnds, release
  <2>3. srv' \in [Servers -> ServerType] /\ \A e \in Servers : srv'[e].pc = srv[e].pc
    BY <1>0, <2>1 DEF ServerType
  <2>4. RouteTypeOK'
    BY <1>0, <2>2, <2>3 DEF RouteTypeOK
  <2>5. OverlapSeen' /\ DaemonReachable'
    BY <1>0, <2>2, <2>3 DEF OverlapSeen, DaemonReachable, listening
  <2> QED
    BY <1>1, <2>2, <2>4, <2>5 DEF RouteInv
<1> QED
  BY <1>2, <1>3, <1>4

(* A step of call c or of its handler leaves the other calls alone.         *)
LEMMA CallStep ==
  ASSUME RouteInv, NEW c \in Calls, NEW q \in CallType, NEW h \in HandlerType,
         NEW n \in Nat, mon' \in Servers \cup Calls \cup {NoServer},
         ql' = [ql EXCEPT ![c] = q], hd' = [hd EXCEPT ![c] = h],
         ran' = [ran EXCEPT ![c] = n], UNCHANGED <<srv, sock, serves, over>>,
         Allowance(c)'
  PROVE  RouteInv'
<1>1. RouteTypeOK /\ OverlapSeen /\ DaemonReachable
  BY DEF RouteInv
<1>2. RouteTypeOK'
  BY <1>1 DEF RouteTypeOK
<1>3. OverlapSeen' /\ DaemonReachable'
  BY <1>1 DEF OverlapSeen, DaemonReachable, listening
<1>4. ASSUME NEW x \in Calls \ {c} PROVE Allowance(x)'
  <2>1. Allowance(x) /\ ql'[x] = ql[x] /\ hd'[x] = hd[x] /\ ran'[x] = ran[x]
    BY <1>1 DEF RouteInv, RouteTypeOK
  <2> QED
    BY <2>1 DEF Allowance, pending
<1> QED
  BY <1>2, <1>3, <1>4 DEF RouteInv

(* A handler runs the command it was sent, or answers without running it.   *)
LEMMA HandlerStep ==
  ASSUME RouteInv, NEW c \in Calls, handler(c)
  PROVE  RouteInv'
<1>0. /\ RouteTypeOK /\ Allowance(c) /\ ql \in [Calls -> CallType]
      /\ hd \in [Calls -> HandlerType] /\ ran \in [Calls -> Nat]
      /\ mon \in Servers \cup Calls \cup {NoServer} /\ hd[c] \in HandlerType
      /\ ql[c] \in CallType /\ ran[c] \in Nat
      /\ UNCHANGED <<mon, srv, sock, serves, over, ql>> /\ pending(c)
  BY SMTT(60) DEF RouteInv, RouteTypeOK, handler, waitOwner, executeOwned, pending
<1> DEFINE e == [hd[c] EXCEPT !.pc = "execute"]
           r(a) == [hd[c] EXCEPT !.pc = "reply", !.res = a]
<1>1. /\ e \in HandlerType /\ e.pc = "execute"
      /\ \A a \in Answers : r(a) \in HandlerType /\ r(a).pc = "reply" /\ r(a).res = a
  BY Zenon, <1>0 DEF HandlerType
<1>2. ql' = [ql EXCEPT ![c] = ql[c]]
  BY <1>0
<1>3. /\ ql[c].pc # "start" /\ (c \in Powerdowns => ran[c] \in {0, 1})
      /\ (c \in Powerdowns /\ ql[c].pc # "done" => ran[c] = 0)
      /\ (c \notin Powerdowns => ran[c] = 0 /\ ql[c].pc \notin {"dial", "direct"})
  BY <1>0 DEF Allowance, pending
<1>4. /\ "ok" \in Answers /\ "error" \in Answers /\ "notowned" \in Answers
  BY DEF Answers
<1>5. CASE waitOwner(c) \/ ~srv[hd[c].at].owns
  <2>1. PICK h \in {e, r("notowned")} : hd' = [hd EXCEPT ![c] = h]
    BY Zenon, <1>5 DEF handler, waitOwner, executeOwned, handle
  <2>2. ran' = [ran EXCEPT ![c] = ran[c]]
    BY <1>0, <1>5 DEF handler, waitOwner, executeOwned
  <2>3. /\ h \in HandlerType /\ hd'[c] = h /\ ql'[c] = ql[c] /\ ran'[c] = ran[c]
        /\ h.pc \in {"execute", "reply"}
    BY ZenonT(60), <1>0, <1>1, <1>4, <2>1, <2>2
  <2>4. Allowance(c)'
    BY <1>0, <1>3, <2>3 DEF Allowance, pending
  <2> QED
    BY Zenon, <1>0, <1>2, <2>1, <2>2, <2>3, <2>4, CallStep
<1>6. CASE executeOwned(c) /\ srv[hd[c].at].owns
  <2>1. PICK a \in {"ok", "error"} : hd' = [hd EXCEPT ![c] = r(a)]
    BY Zenon, <1>6 DEF executeOwned, handle
  <2>2. ran' = [ran EXCEPT ![c] = ran[c] + 1]
    BY <1>0, <1>6 DEF executeOwned
  <2> DEFINE h == r(a)
  <2>3. h \in HandlerType /\ h.pc = "reply" /\ h.res # "notowned"
    BY Zenon, <1>1, <1>4
  <2>4. hd' = [hd EXCEPT ![c] = h]
    BY <2>1
  <2> HIDE DEF h, r
  <2>5. hd'[c] = h /\ ql'[c] = ql[c] /\ ran'[c] = ran[c] + 1 /\ ran[c] + 1 \in Nat
    BY <1>0, <2>2, <2>4
  <2>6. Allowance(c)'
    BY <1>0, <1>3, <2>3, <2>5 DEF Allowance, pending
  <2> QED
    BY Zenon, <1>0, <1>2, <2>2, <2>3, <2>4, <2>5, <2>6, CallStep
<1> QED
  BY <1>5, <1>6 DEF handler

(* The caller dials the monitor itself only when the daemon did not give    *)
(* the command, or for a powerdown.                                         *)
LEMMA AskStep ==
  ASSUME RouteInv, NEW c \in Calls, viaDaemon(c) \/ daemonReplies(c) \/ daemonSilent(c)
  PROVE  RouteInv'
<1>0. /\ RouteTypeOK /\ Allowance(c) /\ ql \in [Calls -> CallType]
      /\ hd \in [Calls -> HandlerType] /\ ran \in [Calls -> Nat]
      /\ mon' \in Servers \cup Calls \cup {NoServer} /\ hd[c] \in HandlerType
      /\ ql[c] \in CallType /\ ran[c] \in Nat /\ hd[c].res \in Answers
      /\ UNCHANGED <<srv, sock, serves, over, ran>>
  BY ZenonT(60), RouteFields DEF RouteInv, RouteTypeOK, viaDaemon, daemonReplies, daemonSilent
<1> DEFINE to1(p) == [ql[c] EXCEPT !.pc = p]
           done(a) == [ql[c] EXCEPT !.pc = "done", !.res = a]
<1>1. /\ \A p \in {"asked", "dial"} : to1(p) \in CallType /\ to1(p).pc = p
      /\ \A a \in Answers : done(a) \in CallType /\ done(a).pc = "done"
  BY Zenon, <1>0 DEF CallType
<1>2. ran' = [ran EXCEPT ![c] = ran[c]] /\ ran'[c] = ran[c]
  BY <1>0
<1>3. CASE viaDaemon(c)
  <2>0. hd[c].pc = "none" /\ ran[c] = 0
    BY <1>0, <1>3 DEF viaDaemon, Allowance
  <2>1. CASE sock \in Servers /\ listening(sock)
    <3> DEFINE h == [pc |-> "wait", at |-> sock, res |-> ""]
               q == to1("asked")
    <3>1. h \in HandlerType /\ h.pc = "wait" /\ q \in CallType /\ q.pc = "asked"
      BY <1>1, <2>1 DEF HandlerType, Answers
    <3>2. ql' = [ql EXCEPT ![c] = q] /\ hd' = [hd EXCEPT ![c] = h]
      BY Zenon, <1>3, <2>1 DEF viaDaemon, to, handle
    <3> HIDE DEF h, q
    <3>3. ql'[c] = q /\ hd'[c] = h
      BY <1>0, <3>2
    <3>4. Allowance(c)'
      BY <1>2, <2>0, <3>1, <3>3 DEF Allowance, pending
    <3> QED
      BY Zenon, <1>0, <1>2, <3>1, <3>2, <3>4, CallStep
  <2>2. CASE ~(sock \in Servers /\ listening(sock))
    <3> DEFINE q == to1("dial")
    <3>1. q \in CallType /\ q.pc = "dial"
      BY Zenon, <1>1
    <3>2. ql' = [ql EXCEPT ![c] = q] /\ hd' = hd
      BY Zenon, <1>3, <2>2 DEF viaDaemon, to
    <3>3. hd' = [hd EXCEPT ![c] = hd[c]]
      BY <1>0, <3>2
    <3> HIDE DEF q
    <3>4. ql'[c] = q /\ hd'[c] = hd[c]
      BY <1>0, <3>2
    <3>5. Allowance(c)'
      BY <1>2, <2>0, <3>1, <3>4 DEF Allowance, pending
    <3> QED
      BY Zenon, <1>0, <1>2, <3>1, <3>2, <3>3, <3>5, CallStep
  <2> QED
    BY <2>1, <2>2
<1>4. ASSUME NEW a \in Answers, NEW h \in HandlerType, afterDaemon(c, a),
             ql[c].pc = "asked", hd' = [hd EXCEPT ![c] = h],
             \/ h.pc = "none" /\ hd[c].pc = "reply" /\ hd[c].res = a
             \/ h = hd[c] /\ hd[c].pc # "reply" /\ a = "error"
      PROVE  RouteInv'
  <2> DEFINE q == IF fallBack(c, a) THEN to1("dial") ELSE done(a)
  <2>1. ql' = [ql EXCEPT ![c] = q]
    BY Zenon, <1>4 DEF afterDaemon, to
  <2>2. q \in CallType /\ q.pc = IF fallBack(c, a) THEN "dial" ELSE "done"
    BY Zenon, <1>1
  <2> HIDE DEF q
  <2>3. ql'[c] = q /\ hd'[c] = h
    BY <1>0, <1>4, <2>1
  <2>4. Allowance(c)'
    <3>1. /\ ql'[c].pc = (IF fallBack(c, a) THEN "dial" ELSE "done") /\ ran'[c] = ran[c]
          /\ \/ hd'[c].pc = "none" /\ hd[c].pc = "reply" /\ hd[c].res = a
             \/ hd'[c] = hd[c] /\ hd[c].pc # "reply" /\ a = "error"
      BY <1>2, <1>4, <2>2, <2>3
    <3>2. CASE c \in Powerdowns
      <4>1. (pending(c)' => pending(c)) /\ ql[c].pc # "done"
        BY Zenon, <1>4, <3>1 DEF pending
      <4> QED
        BY Zenon, <1>0, <3>1, <3>2, <4>1 DEF Allowance
    <3>3. CASE c \notin Powerdowns
      <4>1. fallBack(c, a) => hd'[c].pc = "none" /\ ran[c] = 0
        BY <1>0, <1>4, <3>1, <3>3 DEF Allowance, fallBack
      <4> QED
        BY ZenonT(60), <1>0, <1>4, <3>1, <3>3, <4>1 DEF Allowance, pending
    <3> QED
      BY <3>2, <3>3
  <2> QED
    BY Zenon, <1>0, <1>2, <1>4, <2>1, <2>2, <2>4, CallStep
<1>5. CASE daemonReplies(c)
  <2>1. /\ NoHandler \in HandlerType /\ NoHandler.pc = "none" /\ hd[c].pc = "reply"
        /\ ql[c].pc = "asked" /\ afterDaemon(c, hd[c].res)
        /\ hd' = [hd EXCEPT ![c] = NoHandler]
    BY <1>0, <1>5, RouteFields DEF daemonReplies
  <2> QED
    BY Zenon, <1>0, <1>4, <2>1
<1>6. CASE daemonSilent(c)
  <2>1. /\ ql[c].pc = "asked" /\ hd[c].pc # "reply" /\ afterDaemon(c, "error")
        /\ hd' = [hd EXCEPT ![c] = hd[c]] /\ "error" \in Answers
    BY <1>0, <1>6 DEF daemonSilent, Answers
  <2> QED
    BY Zenon, <1>0, <1>4, <2>1
<1> QED
  BY <1>3, <1>5, <1>6

(* Without a daemon the command goes to the monitor, once.                  *)
LEMMA DirectStep ==
  ASSUME RouteInv, NEW c \in Calls, dialMonitor(c) \/ noGreeting(c) \/ executeDirect(c)
  PROVE  RouteInv'
<1>0. /\ RouteTypeOK /\ Allowance(c) /\ ql \in [Calls -> CallType]
      /\ hd \in [Calls -> HandlerType] /\ ran \in [Calls -> Nat]
      /\ mon' \in Servers \cup Calls \cup {NoServer} /\ hd[c] \in HandlerType
      /\ ql[c] \in CallType /\ ran[c] \in Nat
      /\ UNCHANGED <<srv, sock, serves, over, hd>>
  BY DEF RouteInv, RouteTypeOK, dialMonitor, noGreeting, executeDirect
<1> DEFINE g == [ql[c] EXCEPT !.pc = "direct"]
           done(a) == [ql[c] EXCEPT !.pc = "done", !.res = a]
<1>1. /\ g \in CallType /\ g.pc = "direct"
      /\ \A a \in {"ok", "event", "error"} : done(a) \in CallType /\ done(a).pc = "done"
  BY <1>0 DEF CallType, Answers
<1>2. hd' = [hd EXCEPT ![c] = hd[c]] /\ hd'[c] = hd[c]
  BY <1>0
<1>3. CASE dialMonitor(c)
  <2>1. ql' = [ql EXCEPT ![c] = g] /\ ran' = [ran EXCEPT ![c] = ran[c]]
        /\ ql[c].pc = "dial"
    BY <1>0, <1>3 DEF dialMonitor, to
  <2> HIDE DEF g
  <2>2. ql'[c] = g /\ ran'[c] = ran[c]
    BY <1>0, <2>1
  <2>3. Allowance(c)'
    BY <1>0, <1>1, <1>2, <2>1, <2>2 DEF Allowance, pending
  <2> QED
    BY Zenon, <1>0, <1>1, <1>2, <2>1, <2>3, CallStep
<1>4. CASE noGreeting(c)
  <2> DEFINE q == done("error")
  <2>1. ql' = [ql EXCEPT ![c] = q] /\ ran' = [ran EXCEPT ![c] = ran[c]]
        /\ ql[c].pc = "dial" /\ q \in CallType /\ q.pc = "done"
    BY <1>0, <1>1, <1>4 DEF noGreeting, to
  <2> HIDE DEF q
  <2>2. ql'[c] = q /\ ran'[c] = ran[c]
    BY <1>0, <2>1
  <2>3. Allowance(c)'
    BY <1>0, <1>2, <2>1, <2>2 DEF Allowance, pending
  <2> QED
    BY Zenon, <1>0, <1>2, <2>1, <2>3, CallStep
<1>5. CASE executeDirect(c)
  <2>1. PICK a \in {"ok", "event", "error"} : ql' = [ql EXCEPT ![c] = done(a)]
    BY Zenon, <1>5 DEF executeDirect, to
  <2> DEFINE q == done(a)
  <2>2. /\ ql' = [ql EXCEPT ![c] = q] /\ ran' = [ran EXCEPT ![c] = ran[c] + 1]
        /\ ql[c].pc = "direct" /\ q \in CallType /\ q.pc = "done"
    BY Zenon, <1>0, <1>1, <1>5, <2>1 DEF executeDirect
  <2> HIDE DEF q
  <2>3. ql'[c] = q /\ ran'[c] = ran[c] + 1 /\ ran[c] + 1 \in Nat
    BY <1>0, <2>2
  <2>4. Allowance(c)'
    BY <1>0, <1>2, <2>2, <2>3 DEF Allowance, pending
  <2> QED
    BY Zenon, <1>0, <1>2, <2>2, <2>3, <2>4, CallStep
<1> QED
  BY <1>3, <1>4, <1>5

(* The invariant of the routing holds throughout.                           *)
LEMMA RouteInductive == RouteSpec => []RouteInv
<1>1. RouteInv /\ [RouteNext]_routeVars => RouteInv'
  <2>1. ASSUME RouteInv, UNCHANGED routeVars PROVE RouteInv'
    BY <2>1 DEF routeVars, RouteInv, RouteTypeOK, OverlapSeen, DaemonReachable, listening,
                Allowance, pending
  <2> QED
    BY <2>1, DaemonStep, HandlerStep, AskStep, DirectStep DEF RouteNext, QMPExecute
<1> QED
  BY <1>1, RouteInitInv, PTL DEF RouteSpec

(* For any number of daemons and calls, QMPExecute gives QEMU a command at  *)
(* most once, and powerdown at most once over each transport, although a    *)
(* daemon may be late, die or deny the connection in between; and a daemon  *)
(* that ran alone is the one its control socket leads to.                   *)
THEOREM CommandsRoutedOnce == RouteSpec => []RoutedOnce
<1>1. ASSUME RouteInv PROVE RoutedOnce
  <2>1. ASSUME NEW c \in Calls PROVE ran[c] <= IF c \in Powerdowns THEN 2 ELSE 1
    <3>1. ran[c] \in Nat /\ Allowance(c)
      BY <1>1 DEF RouteInv, RouteTypeOK
    <3> QED
      BY <3>1 DEF Allowance
  <2> QED
    BY <1>1, <2>1 DEF RouteInv, RoutedOnce, GivenOnce
<1> QED
  BY <1>1, RouteInductive, PTL

=============================================================================
