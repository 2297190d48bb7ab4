------------------------------ MODULE VZHelper ------------------------------
(***************************************************************************)
(* A VM of the vz backend: the detached helper process that owns it        *)
(* (cmd/vee-vz-helper), StartDetached waiting for the helper's control     *)
(* socket, the watchers that wait for its shutdown, a stop, and the stale  *)
(* clean-up that reads the helper's result file (internal/vm/backend_vz.go,*)
(* backend.go, manager.go).  A run is one life of the helper.              *)
(***************************************************************************)
EXTENDS Naturals, FiniteSets

CONSTANTS
  Watchers,   \* watchVZShutdown goroutines of the daemon and of Start
  VsockPorts, \* guest ports that are bridged
  MaxRuns     \* bound: starts of the helper

ASSUME VZAssumption == MaxRuns \in Nat

VARIABLES
  zrun,    \* the helper's number; 0 before the first start
  zh,      \* the helper: pc, the machine's state, stopRequested
  zsock,   \* the control socket's file exists
  zres,    \* the result file: the run that wrote it and its outcome
  zfiles,  \* the bridge sockets' files: <<port, run>>
  zwin,    \* the display: gate and what the main goroutine does with it
  zstart,  \* StartDetached: "idle", "wait", "ok", "failed"
  zw,      \* [w] the watchers: pc, the run they watch
  zstop,   \* a stop: pc and reason
  zrec,    \* the saved record: running, run, desired, reason
  zhist    \* history of this run: off (the guest powered off), asked (a
           \* stop began), late (a watcher of an earlier run wrote)

vzVars == <<zrun, zh, zsock, zres, zfiles, zwin, zstart, zw, zstop, zrec, zhist>>

Unset   == ""   \* a field of the record that has no value
NoWatch == [pc |-> "idle", run |-> 0]
NoHist  == [off |-> FALSE, asked |-> FALSE, late |-> FALSE]
NoWin   == [gate |-> "idle", main |-> "none"]

isAliveZ == zh.pc \notin {"none", "dead"}
serving  == zh.pc \in {"up", "written", "draining"}

-----------------------------------------------------------------------------
(* Manager.Start and StartDetached.  One helper lives at a time: a helper   *)
(* that lost its record to an overlapping stop is VMLifecycle's subject.    *)

startDetached ==
  /\ zstart # "wait" /\ ~isAliveZ /\ ~zrec.running /\ zrun < MaxRuns
  /\ zrun' = zrun + 1
  /\ zh' = [pc |-> "load", st |-> "none", stop |-> FALSE]
  /\ zsock' = FALSE
  /\ zstart' = "wait"
  /\ zhist' = [NoHist EXCEPT !.asked = zstop.pc # "idle"]
  /\ zwin' = NoWin
  /\ UNCHANGED <<zres, zfiles, zw, zstop, zrec>>

(* The socket is there: the VM is up, and Start saves its record.           *)
startSeen ==
  /\ zstart = "wait" /\ zsock
  /\ zstart' = "ok"
  /\ zrec' = [running |-> TRUE, run |-> zrun, desired |-> "running", reason |-> Unset]
  /\ UNCHANGED <<zrun, zh, zsock, zres, zfiles, zwin, zw, zstop, zhist>>

(* The helper has exited (it was reaped), or vzStartTimeout has passed and  *)
(* it is killed.                                                            *)
startExited ==
  /\ zstart = "wait" /\ ~zsock /\ ~isAliveZ
  /\ zstart' = "failed"
  /\ UNCHANGED <<zrun, zh, zsock, zres, zfiles, zwin, zw, zstop, zrec, zhist>>

startTimeout ==
  /\ zstart = "wait"
  /\ zstart' = "failed"
  /\ zh' = [zh EXCEPT !.pc = "dead"]
  /\ UNCHANGED <<zrun, zsock, zres, zfiles, zwin, zw, zstop, zrec, zhist>>

-----------------------------------------------------------------------------
(* The helper's main goroutine: runVM.                                      *)

exitWith(kind) ==
  /\ zh' = [zh EXCEPT !.pc = "dead"]
  /\ zres' = [run |-> zrun, kind |-> kind]

(* The spec is read and the machine configured, or the failure is recorded. *)
(* The stale files of an earlier run go before the machine starts.          *)
runVM ==
  /\ zh.pc = "load"
  /\ \/ exitWith("error") /\ UNCHANGED <<zsock, zfiles>>
     \/ /\ zh' = [zh EXCEPT !.pc = "starting"]
        /\ zsock' = FALSE
        /\ zfiles' = {}
        /\ zres' = [run |-> 0, kind |-> "none"]
  /\ UNCHANGED <<zrun, zwin, zstart, zw, zstop, zrec, zhist>>

(* startWithLockRetry: the start works, at once or after retries, or fails. *)
startWithLockRetry ==
  /\ zh.pc = "starting"
  /\ \/ exitWith("error")
     \/ zh' = [zh EXCEPT !.pc = "listen", !.st = "running"] /\ UNCHANGED zres
  /\ UNCHANGED <<zrun, zsock, zfiles, zwin, zstart, zw, zstop, zrec, zhist>>

(* The socket is bound only now; if that fails the machine is stopped.      *)
listenControl ==
  /\ zh.pc = "listen"
  /\ \/ exitWith("error") /\ UNCHANGED zsock
     \/ zh' = [zh EXCEPT !.pc = "up"] /\ zsock' = TRUE /\ UNCHANGED zres
  /\ UNCHANGED <<zrun, zfiles, zwin, zstart, zw, zstop, zrec, zhist>>

(* watchStates takes a terminal state: WriteResult first.                   *)
outcomeOf == IF zh.st = "error" THEN "error" ELSE IF zh.stop THEN "host" ELSE "guest"

(* Mutant: an error of the machine ends nothing.                            *)
watchStatesStopped ==
  /\ zh.pc = "up" /\ zh.st = "stopped"
  /\ zh' = [zh EXCEPT !.pc = "written"]
  /\ zres' = [run |-> zrun, kind |-> outcomeOf]
  /\ UNCHANGED <<zrun, zsock, zfiles, zwin, zstart, zw, zstop, zrec, zhist>>

watchStates ==
  /\ zh.pc = "up" /\ zh.st \in {"stopped", "error"}
  /\ zh' = [zh EXCEPT !.pc = "written"]
  /\ zres' = [run |-> zrun, kind |-> outcomeOf]
  /\ UNCHANGED <<zrun, zsock, zfiles, zwin, zstart, zw, zstop, zrec, zhist>>

(* Then the outcome is published and the waiters are released.              *)
closeShutdownDone ==
  /\ zh.pc = "written"
  /\ zh' = [zh EXCEPT !.pc = "draining"]
  /\ UNCHANGED <<zrun, zsock, zres, zfiles, zwin, zstart, zw, zstop, zrec, zhist>>

(* The drain ends when no waiter is left, or after two seconds.  The main   *)
(* goroutine returns once it is out of the window; the socket and the       *)
(* bridges go with it.                                                      *)
helperExit ==
  /\ zh.pc = "draining" /\ zwin.main \notin {"checked", "shown", "stuck"}
  /\ zh' = [zh EXCEPT !.pc = "dead"]
  /\ zsock' = FALSE
  /\ zfiles' = {f \in zfiles : f[2] # zrun}
  /\ UNCHANGED <<zrun, zres, zwin, zstart, zw, zstop, zrec, zhist>>

(* OpShowDisplay and displayGate: one window for each run.                  *)
showDisplay ==
  /\ serving /\ zwin.gate = "idle"
  /\ zwin' = [gate |-> "open", main |-> "asked"]
  /\ UNCHANGED <<zrun, zh, zsock, zres, zfiles, zstart, zw, zstop, zrec, zhist>>

(* The main goroutine takes the request, looks whether the machine has      *)
(* stopped, and presents the window; a window over a stopped machine is     *)
(* never told to close.  A window ends when the user closes it or the       *)
(* machine stops under it.                                                  *)
presentCheck ==
  /\ zwin.main = "asked" /\ zh.pc \in {"up", "written", "draining"}
  /\ zwin' = [zwin EXCEPT !.main = "checked"]
  /\ UNCHANGED <<zrun, zh, zsock, zres, zfiles, zstart, zw, zstop, zrec, zhist>>

present ==
  /\ zwin.main = "checked"
  /\ zwin' = [zwin EXCEPT !.main = IF zh.st = "running" THEN "shown" ELSE "stuck"]
  /\ UNCHANGED <<zrun, zh, zsock, zres, zfiles, zstart, zw, zstop, zrec, zhist>>

userCloses ==
  /\ zwin.main \in {"shown", "stuck"}
  /\ zwin' = [gate |-> "closed", main |-> "none"]
  /\ UNCHANGED <<zrun, zh, zsock, zres, zfiles, zstart, zw, zstop, zrec, zhist>>

windowEnds ==
  /\ zwin.main = "shown" /\ zh.st # "running"
  /\ zwin' = [gate |-> "closed", main |-> "none"]
  /\ UNCHANGED <<zrun, zh, zsock, zres, zfiles, zstart, zw, zstop, zrec, zhist>>

(* OpVsockConnect: connectBridge publishes a socket, once for each port.    *)
connectBridge(p) ==
  /\ serving /\ <<p, zrun>> \notin zfiles
  /\ zfiles' = {f \in zfiles : f[1] # p} \cup {<<p, zrun>>}
  /\ UNCHANGED <<zrun, zh, zsock, zres, zwin, zstart, zw, zstop, zrec, zhist>>

-----------------------------------------------------------------------------
(* The guest and the framework.                                             *)

guestOff ==
  /\ zh.st = "running" /\ isAliveZ
  /\ zh' = [zh EXCEPT !.st = "stopped"]
  /\ zhist' = [zhist EXCEPT !.off = TRUE]
  /\ UNCHANGED <<zrun, zsock, zres, zfiles, zwin, zstart, zw, zstop, zrec>>

machineError ==
  /\ zh.st = "running" /\ isAliveZ
  /\ zh' = [zh EXCEPT !.st = "error"]
  /\ UNCHANGED <<zrun, zsock, zres, zfiles, zwin, zstart, zw, zstop, zrec, zhist>>

(* The helper crashes or is killed from outside.                            *)
helperKilled ==
  /\ isAliveZ
  /\ zh' = [zh EXCEPT !.pc = "dead"]
  /\ UNCHANGED <<zrun, zsock, zres, zfiles, zwin, zstart, zw, zstop, zrec, zhist>>

-----------------------------------------------------------------------------
(* watchVZShutdown: by Start, and by every pass of adoptRunningVMs.         *)

watchBegin(w) ==
  /\ zw[w].pc = "idle" /\ zrec.running /\ isAliveZ /\ zrec.run = zrun
  /\ zw' = [zw EXCEPT ![w] = [pc |-> IF serving THEN "asked" ELSE "sleep", run |-> zrun]]
  /\ UNCHANGED <<zrun, zh, zsock, zres, zfiles, zwin, zstart, zstop, zrec, zhist>>

(* Only a guest's shutdown is recorded.                                     *)
learn(w) ==
  zw' = IF zres.kind = "guest" THEN [zw EXCEPT ![w].pc = "record"] ELSE [zw EXCEPT ![w] = NoWatch]

(* The answer arrives.                                                      *)
watchAnswer(w) ==
  /\ zw[w].pc = "asked" /\ zw[w].run = zrun /\ zh.pc = "draining"
  /\ learn(w)
  /\ UNCHANGED <<zrun, zh, zsock, zres, zfiles, zwin, zstart, zstop, zrec, zhist>>

(* The helper is gone before it answered; half a second later the result    *)
(* file says why.                                                           *)
watchLost(w) ==
  /\ zw[w].pc = "asked" /\ (zw[w].run # zrun \/ ~isAliveZ)
  /\ zw' = [zw EXCEPT ![w].pc = "sleep"]
  /\ UNCHANGED <<zrun, zh, zsock, zres, zfiles, zwin, zstart, zstop, zrec, zhist>>

watchResult(w) ==
  /\ zw[w].pc = "sleep"
  /\ learn(w)
  /\ UNCHANGED <<zrun, zh, zsock, zres, zfiles, zwin, zstart, zstop, zrec, zhist>>

(* The record is the one of the time of the write, whichever run it is of.  *)
recordGuestShutdownZ(w) ==
  /\ zw[w].pc = "record"
  /\ zrec' = [zrec EXCEPT !.desired = "stopped",
                          !.reason = IF zrec.reason = Unset THEN "guest" ELSE zrec.reason]
  /\ zhist' = [zhist EXCEPT !.late = @ \/ zw[w].run # zrec.run]
  /\ zw' = [zw EXCEPT ![w] = NoWatch]
  /\ UNCHANGED <<zrun, zh, zsock, zres, zfiles, zwin, zstart, zstop>>

-----------------------------------------------------------------------------
(* A stop: stopWithReason with the vz part of gracefulShutdown.             *)

(* vzShutdownOverSSH: the guest may go down from now on.                    *)
stopBegin(reason) ==
  /\ zstop.pc = "idle" /\ zrec.running
  /\ zstop' = [pc |-> "op", reason |-> reason, run |-> zrec.run]
  /\ zhist' = [zhist EXCEPT !.asked = TRUE]
  /\ UNCHANGED <<zrun, zh, zsock, zres, zfiles, zwin, zstart, zw, zrec>>

(* OpStop: stopRequested is set, whatever the guest makes of the request.   *)
opStop ==
  /\ zstop.pc = "op"
  /\ zh' = IF serving THEN [zh EXCEPT !.stop = TRUE] ELSE zh
  /\ zstop' = [zstop EXCEPT !.pc = "wait"]
  /\ UNCHANGED <<zrun, zsock, zres, zfiles, zwin, zstart, zw, zrec, zhist>>

(* The process is gone, or is killed after 30 s; the record is saved.       *)
stopEnd ==
  /\ zstop.pc = "wait"
  /\ zh' = IF isAliveZ /\ zrun = zstop.run THEN [zh EXCEPT !.pc = "dead"] ELSE zh
  /\ zrec' = [running |-> FALSE, run |-> zstop.run, reason |-> zstop.reason,
              desired |-> IF zstop.reason = "host" THEN "running" ELSE "stopped"]
  /\ zstop' = [pc |-> "idle", reason |-> Unset, run |-> 0]
  /\ UNCHANGED <<zrun, zsock, zres, zfiles, zwin, zstart, zw, zhist>>

(* Mutant: the result file is not consulted.                                *)
cleanupStaleVMZCrash ==
  /\ zrec.running /\ zrec.run = zrun /\ ~isAliveZ
  /\ zrec' = [zrec EXCEPT !.running = FALSE,
                          !.reason = IF zrec.reason # Unset THEN zrec.reason ELSE "crash"]
  /\ UNCHANGED <<zrun, zh, zsock, zres, zfiles, zwin, zstart, zw, zstop, zhist>>

(* List finds the process dead (cleanupStaleVM).                            *)
cleanupStaleVMZ ==
  /\ zrec.running /\ zrec.run = zrun /\ ~isAliveZ
  /\ LET guest == zrec.reason = Unset /\ zres.kind = "guest" IN
     zrec' = [zrec EXCEPT !.running = FALSE,
                !.reason = IF zrec.reason # Unset THEN zrec.reason
                           ELSE IF guest THEN "guest" ELSE "crash",
                !.desired = IF guest THEN "stopped" ELSE zrec.desired]
  /\ UNCHANGED <<zrun, zh, zsock, zres, zfiles, zwin, zstart, zw, zstop, zhist>>

-----------------------------------------------------------------------------

VZInit ==
  /\ zrun = 0
  /\ zh = [pc |-> "none", st |-> "none", stop |-> FALSE]
  /\ zsock = FALSE
  /\ zres = [run |-> 0, kind |-> "none"]
  /\ zfiles = {}
  /\ zwin = NoWin
  /\ zstart = "idle"
  /\ zw = [w \in Watchers |-> NoWatch]
  /\ zstop = [pc |-> "idle", reason |-> Unset, run |-> 0]
  /\ zrec = [running |-> FALSE, run |-> 0, desired |-> Unset, reason |-> Unset]
  /\ zhist = NoHist

helper == \/ runVM \/ startWithLockRetry \/ listenControl
          \/ watchStates \/ closeShutdownDone \/ helperExit
          \/ presentCheck \/ present \/ windowEnds

watchStep(w) == watchAnswer(w) \/ watchLost(w) \/ watchResult(w) \/ recordGuestShutdownZ(w)

VZNext ==
  \/ startDetached \/ startSeen \/ startExited \/ startTimeout
  \/ helper \/ showDisplay \/ userCloses
  \/ \E p \in VsockPorts : connectBridge(p)
  \/ guestOff \/ machineError \/ helperKilled
  \/ \E w \in Watchers : watchBegin(w) \/ watchStep(w)
  \/ \E reason \in {"user", "host"} : stopBegin(reason)
  \/ opStop \/ stopEnd \/ cleanupStaleVMZ

VZSpec == VZInit /\ [][VZNext]_vzVars

-----------------------------------------------------------------------------
(* A guest that powered itself off is on record as such once its process is *)
(* no longer taken to run, whether a watcher got the answer, read the       *)
(* result file, or nobody watched (watchVZShutdown, cleanupStaleVM), so     *)
(* that the daemon does not start it again.                                 *)
GuestOffParks ==
  /\ zres = [run |-> zrun, kind |-> "guest"] /\ ~zhist.asked
  /\ ~zrec.running /\ zrec.run = zrun /\ zstart = "ok"
  => zrec.reason = "guest" /\ zrec.desired = "stopped"

(* A crash of the helper, an error of the machine or a kill is never on     *)
(* record as the guest's shutdown, except when a watcher that has outlived  *)
(* its run writes into the record of the next.                              *)
CrashNotGuest ==
  zrec.reason = "guest" /\ zrec.run = zrun /\ zstart = "ok" /\ ~zhist.late => zhist.off

(* A start that is reported has its machine running, and a start that       *)
(* failed leaves no helper behind that could attach the disks a second time *)
(* (StartDetached).                                                         *)
StartIsTrue ==
  /\ (zstart = "wait" /\ zstart' = "ok" => zh.st # "none")
  /\ (zstart = "wait" /\ zstart' = "failed" => zh'.pc = "dead")

(* While a helper serves, every bridge socket in the VM's directory is its  *)
(* own: connectBridge and runVM remove what earlier runs left.              *)
BridgesServed == serving => \A f \in zfiles : f[2] = zrun

(* A helper whose machine has stopped exits, unless the window was          *)
(* presented over the stopped machine, and then the record stops claiming   *)
(* that the VM runs.                                                        *)
StopIsNoticed ==
  zrec.running /\ zh.pc = "up" /\ zh.st \in {"stopped", "error"}
    ~> ~zrec.running \/ zwin.main = "stuck"

(* Why a macOS VM stopped is on record as it was, and what is left of one   *)
(* run is not taken for the next (watchVZShutdown, cleanupStaleVM, runVM).  *)
ReasonIsTrue == GuestOffParks /\ CrashNotGuest /\ BridgesServed
=============================================================================
