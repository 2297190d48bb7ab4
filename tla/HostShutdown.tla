---------------------------- MODULE HostShutdown ----------------------------
(***************************************************************************)
(* The daemon and the end of the host (internal/vm/daemon.go and           *)
(* internal/shutdown): the daemon holds an inhibitor while VMs run, learns *)
(* of a shutdown from logind's signal or from its own SIGTERM, stops the   *)
(* VMs and only then lets the host go.  Commands start and stop VMs at the *)
(* same time.  On macOS there is no signal but SIGTERM and the lock is a   *)
(* caffeinate process.                                                     *)
(***************************************************************************)
EXTENDS Naturals, FiniteSets

CONSTANTS
  HostVMs,       \* the VMs
  AutoStart,     \* those with auto_start
  MaxHostSteps,  \* bound: starts and stops by commands and crashes of VMs
  MaxFaults      \* bound: calls of the bus or the store that fail

ASSUME HostAssumption == AutoStart \subseteq HostVMs

VARIABLES
  plat,    \* "linux", "darwin", or "none": Connect failed or is a stub
  prep,    \* the host is preparing to power off
  off,     \* it has powered off
  term,    \* SIGTERM: "none", "sent" or "seen" (termCh closed)
  hctx,    \* the daemon's context is cancelled
  shutCh,  \* PrepareForShutdown's channel: "idle", "full", "ended"
  hlock,   \* the inhibitor is held
  hrun,    \* the VMs that run
  hdm,      \* the daemon: pc, the VMs StopAllRunning still waits for
  left,    \* history: VMs whose stop failed, or started after the list
  cause,   \* history: why the daemon may leave VMs running, "" if it may not
  hsteps,
  faults

hostVars == <<plat, prep, off, term, hctx, shutCh, hlock, hrun, hdm, left,
              cause, hsteps, faults>>

fault == faults < MaxFaults /\ faults' = faults + 1

-----------------------------------------------------------------------------
(* The host and the commands.                                               *)

startGuest(v) ==
  /\ ~off /\ v \notin hrun /\ hsteps < MaxHostSteps
  /\ hrun' = hrun \cup {v}
  /\ hsteps' = hsteps + 1
  /\ left' = IF hdm.pc \in {"count", "stopping", "exited"} THEN left \cup {v} ELSE left
  /\ UNCHANGED <<plat, prep, off, term, hctx, shutCh, hlock, hdm, cause, faults>>

(* A command stops the VM, the guest powers off or QEMU crashes.            *)
stopGuest(v) ==
  /\ ~off /\ v \in hrun /\ hsteps < MaxHostSteps
  /\ hrun' = hrun \ {v}
  /\ hsteps' = hsteps + 1
  /\ UNCHANGED <<plat, prep, off, term, hctx, shutCh, hlock, hdm, left, cause, faults>>

hostPrepares ==
  /\ ~prep
  /\ prep' = TRUE
  /\ cause' = IF hdm.pc = "exited" THEN "gone" ELSE cause
  /\ UNCHANGED <<plat, off, term, hctx, shutCh, hlock, hrun, hdm, left, hsteps, faults>>

(* The service manager stops the daemon, on its own or because the host     *)
(* goes down; an interrupt cancels the context alone.                       *)
sigterm ==
  /\ ~hctx
  /\ hctx' = TRUE
  /\ term' = "sent"
  /\ UNCHANGED <<plat, prep, off, shutCh, hlock, hrun, hdm, left, cause, hsteps, faults>>

sigint ==
  /\ ~hctx /\ ~prep
  /\ hctx' = TRUE
  /\ cause' = "interrupted"
  /\ UNCHANGED <<plat, prep, off, term, shutCh, hlock, hrun, hdm, left, hsteps, faults>>

(* The inhibitor holds the host back, and so does the unit's stop timeout   *)
(* (TimeoutStopSec, ExitTimeOut) until the daemon has exited.               *)
powerOff ==
  /\ prep /\ ~off /\ ~hlock /\ hdm.pc = "exited"
  /\ off' = TRUE
  /\ UNCHANGED <<plat, prep, term, hctx, shutCh, hlock, hrun, hdm, left, cause, hsteps, faults>>

-----------------------------------------------------------------------------
(* internal/shutdown: the goroutines behind the channel.                    *)

(* macOS: Connect's goroutine takes the signal and closes termCh.           *)
termSeen ==
  /\ plat = "darwin" /\ term = "sent" /\ hdm.pc # "exited"
  /\ term' = "seen"
  /\ UNCHANGED <<plat, prep, off, hctx, shutCh, hlock, hrun, hdm, left, cause, hsteps, faults>>

announced == IF plat = "linux" THEN prep ELSE plat = "darwin" /\ term = "seen"

PrepareForShutdown ==
  /\ shutCh = "idle" /\ announced
  /\ shutCh' = "full"
  /\ UNCHANGED <<plat, prep, off, term, hctx, hlock, hrun, hdm, left, cause, hsteps, faults>>

(* The goroutine may take ctx.Done although the signal is there too.  The   *)
(* channel is never closed.                                                 *)
subscriptionEnds ==
  /\ shutCh = "idle" /\ hctx
  /\ shutCh' = "ended"
  /\ UNCHANGED <<plat, prep, off, term, hctx, hlock, hrun, hdm, left, cause, hsteps, faults>>

-----------------------------------------------------------------------------
(* RunDaemon.                                                               *)

(* One VM of the auto-start pass, as the first thing of every tick; then    *)
(* the inhibitor, when the pass is over.                                    *)
startAutoStartVMs ==
  /\ hdm.pc = "pass"
  /\ \/ \E v \in AutoStart \ hrun : hrun' = hrun \cup {v}
     \/ hrun' = hrun
  /\ hdm' = [hdm EXCEPT !.pc = "inhibit"]
  /\ UNCHANGED <<plat, prep, off, term, hctx, shutCh, hlock, left, cause, hsteps, faults>>

(* reconcileInhibitor.  runningVMCount reads an error of the store as no    *)
(* VM; Acquire may fail.                                                    *)
reconcileInhibitor ==
  /\ hdm.pc = "inhibit"
  /\ \/ hlock' = (plat # "none" /\ hrun # {}) /\ UNCHANGED faults
     \/ hlock /\ fault /\ hlock' = FALSE
     \/ ~hlock /\ plat # "none" /\ hrun # {} /\ fault /\ hlock' = FALSE
  /\ hdm' = [hdm EXCEPT !.pc = "loop"]
  /\ UNCHANGED <<plat, prep, off, term, hctx, shutCh, hrun, left, cause, hsteps>>

tickDaemon ==
  /\ hdm.pc = "loop"
  /\ hdm' = [hdm EXCEPT !.pc = "pass"]
  /\ UNCHANGED <<plat, prep, off, term, hctx, shutCh, hlock, hrun, left, cause, hsteps, faults>>

(* Mutant: the lock is not released on the way out.                         *)
exitDaemonHolds(why) ==
  /\ hdm' = [hdm EXCEPT !.pc = "exited"]
  /\ hlock' = hlock
  /\ cause' = IF cause = "" THEN why ELSE cause

(* The deferred releases.                                                   *)
exitDaemon(why) ==
  /\ hdm' = [hdm EXCEPT !.pc = "exited"]
  /\ hlock' = FALSE
  /\ cause' = IF cause = "" THEN why ELSE cause

(* Mutant: a cancelled context is always a plain stop.                      *)
ctxDoneStops ==
  /\ hdm.pc = "loop" /\ hctx
  /\ exitDaemon(IF prep THEN "" ELSE "stopped") /\ UNCHANGED <<faults, left>>
  /\ UNCHANGED <<plat, prep, off, term, hctx, shutCh, hrun, hsteps>>

(* ctx.Done: PreparingForShutdown tells a plain stop from a host shutdown.  *)
(* On macOS it waits sigtermGrace for the signal, which may come later.     *)
ctxDone ==
  /\ hdm.pc = "loop" /\ hctx
  /\ \/ /\ announced
        /\ hdm' = [hdm EXCEPT !.pc = "count"]
        /\ UNCHANGED <<hlock, cause, faults, left>>
     \/ ~announced /\ exitDaemon("stopped") /\ UNCHANGED <<faults, left>>
     \/ plat = "linux" /\ fault /\ exitDaemon("fault") /\ UNCHANGED left
  /\ UNCHANGED <<plat, prep, off, term, hctx, shutCh, hrun, hsteps>>

shutdownSignal ==
  /\ hdm.pc = "loop" /\ shutCh = "full"
  /\ shutCh' = "ended"
  /\ hdm' = [hdm EXCEPT !.pc = "count"]
  /\ UNCHANGED <<plat, prep, off, term, hctx, hlock, hrun, left, cause, hsteps, faults>>

(* handleHostShutdown: the VMs are counted and listed; an error of either   *)
(* list ends it.                                                            *)
handleHostShutdown ==
  /\ hdm.pc = "count"
  /\ \/ hrun = {} /\ exitDaemon("") /\ UNCHANGED <<faults, left>>
     \/ hrun # {} /\ fault /\ exitDaemon("fault") /\ UNCHANGED left
     \/ /\ hrun # {}
        /\ hdm' = [pc |-> "stopping", wait |-> hrun]
        /\ left' = left \ hrun
        /\ UNCHANGED <<hlock, cause, faults>>
  /\ UNCHANGED <<plat, prep, off, term, hctx, shutCh, hrun, hsteps>>

(* StopAllRunning: one goroutine for each VM that runs; its stop works, or  *)
(* fails within the time of one VM.                                         *)
stopOne(v) ==
  /\ hdm.pc = "stopping" /\ v \in hdm.wait
  /\ hdm' = [hdm EXCEPT !.wait = @ \ {v}]
  /\ \/ hrun' = hrun \ {v} /\ UNCHANGED <<left, faults>>
     \/ fault /\ left' = left \cup {v} /\ UNCHANGED hrun
  /\ UNCHANGED <<plat, prep, off, term, hctx, shutCh, hlock, cause, hsteps>>

allStopped ==
  /\ hdm.pc = "stopping" /\ hdm.wait = {}
  /\ exitDaemon("")
  /\ UNCHANGED <<plat, prep, off, term, hctx, shutCh, hrun, left, hsteps, faults>>

-----------------------------------------------------------------------------

HostInit ==
  /\ plat \in {"linux", "darwin", "none"}
  /\ prep = FALSE /\ off = FALSE
  /\ term = "none" /\ hctx = FALSE
  /\ shutCh \in IF plat = "none" THEN {"ended"} ELSE {"idle", "ended"}
  /\ hlock = FALSE
  /\ hrun = {}
  /\ hdm = [pc |-> "pass", wait |-> {}]
  /\ left = {}
  /\ cause = IF plat = "none" THEN "noconn" ELSE ""
  /\ hsteps = 0 /\ faults = 0

RunDaemon == \/ startAutoStartVMs \/ reconcileInhibitor \/ tickDaemon
             \/ ctxDone \/ shutdownSignal \/ handleHostShutdown
             \/ \E v \in HostVMs : stopOne(v)
             \/ allStopped

HostNext ==
  \/ \E v \in HostVMs : startGuest(v) \/ stopGuest(v)
  \/ hostPrepares \/ sigterm \/ sigint \/ powerOff
  \/ termSeen \/ PrepareForShutdown \/ subscriptionEnds
  \/ RunDaemon

HostSpec == HostInit /\ [][HostNext]_hostVars

-----------------------------------------------------------------------------
(* A host that waits for the daemon powers off with a VM still running only *)
(* where RunDaemon cannot help it: its stop failed, a command started it    *)
(* after the VMs had been listed, the daemon had been stopped before the    *)
(* host began, or the bus or the store failed it.                           *)
NoVMCutOff == off /\ cause = "" => hrun \subseteq left

(* RunDaemon stops VMs only for the host's sake: on Linux the host prepares *)
(* to go down, on macOS a SIGTERM has come.  A plain stop leaves them.      *)
PlainStopLeavesVMs ==
  hdm.pc # "stopping" /\ hdm'.pc = "stopping" =>
    IF plat = "linux" THEN prep ELSE plat = "darwin" /\ term # "none"

(* As long as the daemon lives and nothing is cut short, the inhibitor      *)
(* comes to be held just while VMs run, whatever commands did between two   *)
(* ticks (reconcileInhibitor).                                              *)
InhibitorFollows ==
  \/ <>(prep \/ hctx \/ plat = "none")
  \/ <>[](hlock <=> hrun # {})

(* A shutdown of the host that reaches the daemon's subscription is         *)
(* answered: the daemon stops the VMs and goes, and the host is let go.     *)
HostIsLetGo == prep /\ plat = "linux" /\ shutCh = "full" ~> off
=============================================================================
