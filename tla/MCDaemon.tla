------------------------------ MODULE MCDaemon ------------------------------
(***************************************************************************)
(* Two services of the daemon for TLC: the owner of a VM's monitor socket  *)
(* (QMPOwner) and the SSH listeners (SSHProxies).  They share no state, so *)
(* a behaviour runs one of them, chosen at the start.                      *)
(***************************************************************************)
EXTENDS QMPOwner, SSHProxies

VARIABLE service

daemonVars == <<service, vars, proxyVars>>

DaemonInit ==
  /\ service \in {"monitor", "ports"} /\ Init /\ ProxyInit
  /\ service = "monitor" => \A v \in ProxyVMs : pconf[v].port = 1

DaemonNext ==
  \/ service = "monitor" /\ Next /\ UNCHANGED <<service, proxyVars>>
  \/ service = "ports" /\ ProxyNext /\ UNCHANGED <<service, vars>>

(* The fairness QMPOwner argues for, and the daemon's tick, each asked only *)
(* where it is the one that runs.                                           *)
Serving(s, action) == service = s /\ action

DaemonFairness ==
  /\ WF_vars(Serving("monitor", handshake)) /\ WF_vars(Serving("monitor", readLine))
  /\ WF_vars(Serving("monitor", readClosed))
  /\ \A c \in Callers :
       WF_vars(Serving("monitor", drain(c) \/ writeRequest(c) \/ receive(c) \/ abort(c)))
  /\ WF_proxyVars(Serving("ports", reconcileSSHProxies))

DaemonSpec == DaemonInit /\ [][DaemonNext]_daemonVars /\ DaemonFairness

-----------------------------------------------------------------------------
(* A bridge VM that keeps running gets its SSH listener from the daemon's   *)
(* tick (reconcileSSHProxies) while a port of the range is free.            *)
ProxiesAppear == service = "ports" => ProxyAppears
=============================================================================
