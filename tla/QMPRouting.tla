----------------------------- MODULE QMPRouting -----------------------------
(***************************************************************************)
(* Sending a QMP command to a VM from any process.  QEMU serves one        *)
(* monitor connection at a time; the daemon usually holds it and runs      *)
(* commands for others through its control socket (control_socket.go,      *)
(* qmp_registry.go); otherwise a command dials the monitor itself with the *)
(* one-shot client (qemu/qmp.go).  "vee qmp" and vm_qmp, and the           *)
(* powerdown of "vee stop", take the same transports in the same order.    *)
(***************************************************************************)
EXTENDS Naturals, FiniteSets

CONSTANTS
  Calls,      \* calls of QMPExecute, of "vee qmp" and of powerdown
  Powerdowns, \* the calls that are powerdown
  Servers,    \* daemon processes
  NoServer,   \* neither a daemon nor a call
  MaxServes   \* bound: how often a daemon is started

ASSUME RoutingAssumption ==
  Powerdowns \subseteq Calls /\ NoServer \notin Servers \cup Calls /\ MaxServes \in Nat

VARIABLES
  mon,    \* who holds the VM's monitor connection
  srv,    \* [d] a daemon: [pc, owns]
  sock,   \* whose listener daemon.sock names (it may be gone)
  serves, \* daemons started so far
  over,   \* history: daemons that ran at the same time as another
  ql,     \* [c] a call: [pc, route, res]
  hd,     \* [c] the daemon's handler of the call's request: [pc, at, res]
  ran     \* [c] how often QEMU has been given the call's command

routeVars == <<mon, srv, sock, serves, over, ql, hd, ran>>

NoHandler == [pc |-> "none", at |-> NoServer, res |-> ""]
listening(d) == srv[d].pc = "up"

to(c, r) == ql' = [ql EXCEPT ![c] = r]

-----------------------------------------------------------------------------
(* The daemon: serveControlSocket removes what a previous daemon left,      *)
(* listens, and removes the socket when it is told to exit.                 *)

listenAt(d) == d

serveControlSocket(d) ==
  /\ srv[d].pc = "off" /\ serves < MaxServes
  /\ serves' = serves + 1
  /\ sock' = listenAt(d)
  /\ srv' = [srv EXCEPT ![d] = [pc |-> "up", owns |-> FALSE]]
  /\ over' = IF \E e \in Servers \ {d} : listening(e)
             THEN over \cup {e \in Servers : listening(e)} \cup {d}
             ELSE over \ {d}
  /\ UNCHANGED <<mon, ql, hd, ran>>

release(d) == mon' = IF mon = d THEN NoServer ELSE mon

(* The listener's close unlinks the path, whoever it now belongs to.        *)
daemonExits(d) ==
  /\ listening(d)
  /\ srv' = [srv EXCEPT ![d] = [pc |-> "off", owns |-> FALSE]]
  /\ sock' = NoServer
  /\ release(d)
  /\ hd' = [c \in Calls |-> IF hd[c].at = d THEN NoHandler ELSE hd[c]]
  /\ UNCHANGED <<serves, over, ql, ran>>

daemonIsKilled(d) ==
  /\ listening(d)
  /\ srv' = [srv EXCEPT ![d] = [pc |-> "off", owns |-> FALSE]]
  /\ release(d)
  /\ hd' = [c \in Calls |-> IF hd[c].at = d THEN NoHandler ELSE hd[c]]
  /\ UNCHANGED <<sock, serves, over, ql, ran>>

(* adoptRunningVMs: the owner connection is registered when the monitor     *)
(* lets it in.                                                              *)
adopt(d) ==
  /\ listening(d) /\ ~srv[d].owns /\ mon = NoServer
  /\ mon' = d
  /\ srv' = [srv EXCEPT ![d].owns = TRUE]
  /\ UNCHANGED <<sock, serves, over, ql, hd, ran>>

(* watchVMConnection ends, because the connection dropped or a SHUTDOWN was *)
(* handled, and deregisters its owner; the next tick may adopt the VM anew. *)
watchEnds(d) ==
  /\ srv[d].owns
  /\ srv' = [srv EXCEPT ![d].owns = FALSE]
  /\ release(d)
  /\ UNCHANGED <<sock, serves, over, ql, hd, ran>>

-----------------------------------------------------------------------------
(* The daemon's handler of one request: waitOwner, ExecuteQMP, the reply.   *)

handle(c, h) == hd' = [hd EXCEPT ![c] = h]

(* The owner is there, or three seconds have passed without it.             *)
waitOwner(c) ==
  /\ hd[c].pc = "wait"
  /\ handle(c, IF srv[hd[c].at].owns THEN [hd[c] EXCEPT !.pc = "execute"]
               ELSE [hd[c] EXCEPT !.pc = "reply", !.res = "notowned"])
  /\ UNCHANGED <<mon, srv, sock, serves, over, ql, ran>>

(* The command is written to QEMU; its response comes in time or does not.  *)
executeOwned(c) ==
  /\ hd[c].pc = "execute"
  /\ IF srv[hd[c].at].owns
     THEN /\ ran' = [ran EXCEPT ![c] = @ + 1]
          /\ \E r \in {"ok", "error"} : handle(c, [hd[c] EXCEPT !.pc = "reply", !.res = r])
     ELSE /\ ran' = ran
          /\ handle(c, [hd[c] EXCEPT !.pc = "reply", !.res = "notowned"])
  /\ UNCHANGED <<mon, srv, sock, serves, over, ql>>

-----------------------------------------------------------------------------
(* A call.                                                                  *)

(* QMPViaDaemon: no daemon answers at the socket, or the request is sent.   *)
viaDaemon(c) ==
  /\ ql[c].pc = "start"
  /\ IF sock \in Servers /\ listening(sock)
     THEN /\ to(c, [ql[c] EXCEPT !.pc = "asked"])
          /\ handle(c, [pc |-> "wait", at |-> sock, res |-> ""])
     ELSE to(c, [ql[c] EXCEPT !.pc = "dial"]) /\ hd' = hd
  /\ UNCHANGED <<mon, srv, sock, serves, over, ran>>

(* Mutant: any failure of the daemon leads to a direct dial.                *)
fallBackAlways(c, res) == res # "ok"

(* QMPExecute and "vee qmp" dial the monitor themselves only when the       *)
(* daemon says it does not own it; powerdown also when it failed.           *)
fallBack(c, res) == res = "notowned" \/ (c \in Powerdowns /\ res # "ok")

afterDaemon(c, res) ==
  to(c, IF fallBack(c, res) THEN [ql[c] EXCEPT !.pc = "dial"]
        ELSE [ql[c] EXCEPT !.pc = "done", !.res = res])

daemonReplies(c) ==
  /\ ql[c].pc = "asked" /\ hd[c].pc = "reply"
  /\ afterDaemon(c, hd[c].res)
  /\ hd' = [hd EXCEPT ![c] = NoHandler]
  /\ UNCHANGED <<mon, srv, sock, serves, over, ran>>

(* Mutant: the call has no deadline of its own.                             *)
daemonSilentNoDeadline(c) ==
  /\ ql[c].pc = "asked" /\ hd[c].pc = "none"
  /\ afterDaemon(c, "error")
  /\ UNCHANGED <<mon, srv, sock, serves, over, hd, ran>>

(* The connection ends without a reply, or the call's deadline passes while *)
(* the handler goes on.                                                     *)
daemonSilent(c) ==
  /\ ql[c].pc = "asked" /\ hd[c].pc # "reply"
  /\ afterDaemon(c, "error")
  /\ UNCHANGED <<mon, srv, sock, serves, over, hd, ran>>

(* NewQMPClient: the monitor greets one client at a time.                   *)
dialMonitor(c) ==
  /\ ql[c].pc = "dial" /\ mon = NoServer
  /\ mon' = c
  /\ to(c, [ql[c] EXCEPT !.pc = "direct"])
  /\ UNCHANGED <<srv, sock, serves, over, hd, ran>>

noGreeting(c) ==
  /\ ql[c].pc = "dial" /\ mon # NoServer
  /\ to(c, [ql[c] EXCEPT !.pc = "done", !.res = "error"])
  /\ UNCHANGED <<mon, srv, sock, serves, over, hd, ran>>

(* execute writes the command and takes the next line for its response,     *)
(* which is an event when one comes first; then the connection is closed.   *)
executeDirect(c) ==
  /\ ql[c].pc = "direct"
  /\ ran' = [ran EXCEPT ![c] = @ + 1]
  /\ \E r \in {"ok", "event", "error"} : to(c, [ql[c] EXCEPT !.pc = "done", !.res = r])
  /\ mon' = NoServer
  /\ UNCHANGED <<srv, sock, serves, over, hd>>

-----------------------------------------------------------------------------
RouteInit ==
  /\ mon = NoServer /\ sock = NoServer /\ serves = 0 /\ over = {}
  /\ srv = [d \in Servers |-> [pc |-> "off", owns |-> FALSE]]
  /\ ql = [c \in Calls |-> [pc |-> "start", res |-> ""]]
  /\ hd = [c \in Calls |-> NoHandler]
  /\ ran = [c \in Calls |-> 0]

handler(c)    == waitOwner(c) \/ executeOwned(c)
QMPExecute(c) == viaDaemon(c) \/ daemonReplies(c) \/ daemonSilent(c) \/ dialMonitor(c)
                   \/ noGreeting(c) \/ executeDirect(c)

RouteNext ==
  \/ \E d \in Servers : \/ serveControlSocket(d) \/ daemonExits(d)
                        \/ daemonIsKilled(d) \/ adopt(d) \/ watchEnds(d)
  \/ \E c \in Calls : handler(c) \/ QMPExecute(c)

RouteSpec == RouteInit /\ [][RouteNext]_routeVars

-----------------------------------------------------------------------------
(* Properties.                                                              *)

(* A command that is not a powerdown reaches QEMU at most once, although    *)
(* the daemon may be late, die or not own the VM and the caller has another *)
(* transport to try (qmp_registry.go: a daemon that answered is terminal    *)
(* unless it does not own the connection).  A powerdown is given at most    *)
(* once by each transport.                                                  *)
GivenOnce ==
  \A c \in Calls : ran[c] <= IF c \in Powerdowns THEN 2 ELSE 1

(* A daemon that runs can be asked: the control socket is its own, unless   *)
(* another daemon ran at the same time.  In particular a daemon that was    *)
(* killed does not keep the next one from listening.                        *)
DaemonReachable ==
  \A d \in Servers : listening(d) /\ d \notin over => sock = d

(* Every call ends whatever the daemons do.                                 *)
CallsAnswered == <>(\A c \in Calls : ql[c].pc = "done")

(* A command finds the daemon that runs, and is given once.                 *)
RoutedOnce == GivenOnce /\ DaemonReachable
=============================================================================
