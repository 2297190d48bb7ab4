------------------------------ MODULE MCGuests ------------------------------
(***************************************************************************)
(* The concurrent parts around a running guest: the wait for readiness,    *)
(* the routing of monitor commands, the shutdown of the host and the       *)
(* helper of a macOS VM.  They share no state, so a behaviour runs one of  *)
(* them, chosen at the start, and the others stay at one of their initial  *)
(* states.                                                                 *)
(***************************************************************************)
EXTENDS Readiness, QMPRouting, HostShutdown, VZHelper

VARIABLE chosen

guestVars == <<chosen, readyVars, routeVars, hostVars, vzVars>>

ConsoleLines == {{"Init"}, {"Ready"}, {"Failed", "Cloud-init"}}

Init ==
  /\ chosen \in {"ready", "route", "host", "vz"}
  /\ ReadyInit /\ RouteInit /\ HostInit /\ VZInit
  /\ chosen # "ready" => /\ rrec.install = "ready" /\ swait.pc = "start"
                       /\ ralive = {} /\ swait.cloudInit
  /\ chosen # "host"  => plat = "none"

Next ==
  \/ /\ chosen = "ready" /\ ReadyNext
     /\ UNCHANGED <<chosen, routeVars, hostVars, vzVars>>
  \/ /\ chosen = "route" /\ RouteNext
     /\ UNCHANGED <<chosen, readyVars, hostVars, vzVars>>
  \/ /\ chosen = "host" /\ HostNext
     /\ UNCHANGED <<chosen, readyVars, routeVars, vzVars>>
  \/ /\ chosen = "vz" /\ VZNext
     /\ UNCHANGED <<chosen, readyVars, routeVars, hostVars>>

(* The fairness each part's module argues for, asked of a part only where   *)
(* it is the one that runs.                                                 *)
In(p, action) == chosen = p /\ action

Fairness ==
  /\ WF_readyVars(In("ready", watchEmit)) /\ WF_readyVars(In("ready", watchStop))
  /\ WF_readyVars(In("ready", fanout)) /\ WF_readyVars(In("ready", WaitReady))
  /\ WF_readyVars(In("ready", mainLoad \/ mainNoProbe \/ mainFirst \/ markReadyLoad \/ markReady \/ mainEnd))
  /\ WF_readyVars(In("ready", mainTick)) /\ SF_readyVars(In("ready", mainTick /\ errc' # "none"))
  /\ WF_readyVars(In("ready", sshBegin)) /\ SF_readyVars(In("ready", sshAttempt /\ swait'.pc = "done"))
  /\ WF_readyVars(In("ready", sshDial)) /\ WF_readyVars(In("ready", waitCloudInitDone))
  /\ \A c \in Calls : WF_routeVars(In("route", QMPExecute(c)))
  /\ WF_hostVars(In("host", RunDaemon)) /\ WF_hostVars(In("host", powerOff))
  /\ SF_hostVars(In("host", shutdownSignal))
  /\ WF_vzVars(In("vz", helper)) /\ WF_vzVars(In("vz", cleanupStaleVMZ))
  /\ WF_vzVars(In("vz", opStop)) /\ WF_vzVars(In("vz", stopEnd))

Spec == Init /\ [][Next]_guestVars /\ Fairness

-----------------------------------------------------------------------------
(* Every wait for readiness ends, whatever the guest does, and so do the    *)
(* goroutines it started (WaitReadyWithPhases, WaitSSHReady).               *)
WaitsEnd == chosen = "ready" => WaitEnds

(* Every call of QMPExecute returns, whatever the daemons do.               *)
CallsReturn == chosen = "route" => CallsAnswered

(* The shutdown inhibitor comes to be held just while VMs run               *)
(* (reconcileInhibitor), and a host that prepares to go down is let go once *)
(* the daemon has heard of it (handleHostShutdown).                         *)
InhibitorServes == chosen = "host" => InhibitorFollows /\ HostIsLetGo

(* What is reported was so: phases only move forward, the death of a        *)
(* process whose guest had not ended is no end of an install, a start has   *)
(* its machine, and VMs are stopped only for the host's sake.               *)
ReportsAreTrue ==
  [][PhasesForward /\ CrashNotSuccess /\ StartIsTrue /\ PlainStopLeavesVMs]_guestVars

(* A macOS VM whose machine has stopped does not stay on record as running  *)
(* (watchStates, cleanupStaleVM).                                           *)
StopsAreNoticed == chosen = "vz" => StopIsNoticed
=============================================================================
