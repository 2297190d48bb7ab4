---------------------------- MODULE VMLifecycle -----------------------------
(***************************************************************************)
(* The life of one QEMU VM under every vee process that touches it: command *)
(* line sessions, the daemon and its five-second pass, the QMP watcher of   *)
(* each QEMU process and the goroutine that power-cycles a rebooting guest. *)
(* They share nothing but the saved state and config, which each of them    *)
(* loads, works on, and saves back whole, with no lock in between.          *)
(*                                                                          *)
(* A load and the save that follows it are separate steps.  Everything a    *)
(* function does between the two that no other process can see is folded    *)
(* into one of them.                                                        *)
(***************************************************************************)
EXTENDS VMState, Naturals, Sequences

CONSTANTS
  Sessions,      \* command-line processes
  Daemon,        \* the daemon's main loop
  Reboot,        \* the powerCycleAfterGuestReset goroutine
  WithDaemon,    \* the daemon service is installed
  AutoStart,     \* the config's auto_start flag
  SkipInstall,   \* the config's skip_install flag
  MaxOps,        \* bound: commands the sessions run
  MaxFaults      \* bound: guest and host events no vee code initiates

Threads == Sessions \cup {Daemon, Reboot}
Hosts   == Sessions \cup {Daemon}

ASSUME LifecycleAssumption ==
  /\ Daemon \notin Sessions /\ Reboot \notin Sessions /\ Daemon # Reboot
  /\ WithDaemon \in BOOLEAN /\ AutoStart \in BOOLEAN
  /\ SkipInstall \in BOOLEAN
  /\ MaxOps \in Nat /\ MaxFaults \in Nat

VARIABLES
  st,        \* the saved VMState
  iso,       \* the saved config still lists the installer ISO
  proc,      \* proc[p]: "up" | "asked" (powerdown requested) | "off" (the
             \* guest is down, QEMU is exiting) | "dying" (killed) | "gone"
  watcher,   \* watcher[p]: the watchVMConnection goroutine of process p, with
             \* the QMP events delivered to it (QEMU sends them to no one else)
  th,        \* th[t]: where thread t is and what it has loaded
  ops, faults,
  \* History, read by properties only:
  intent,    \* who decided last: "run" | "userStop" | "guestOff" | "hostStop"
  lost       \* live processes that a save, a crash or ^C made vee forget

vars == <<st, iso, proc, watcher, th, ops, faults, intent, lost>>

(* "off": the process that runs the thread does not exist.                  *)
Pcs == {"off", "idle", "start", "clean", "prepare", "launch", "launched",
        "foreground", "stopping", "listClean", "touching", "readying",
        "reboot", "list", "haltList", "haltClean", "haltStop", "halted"}

ThreadStates == [pc : Pcs, view : States, pid : Pids \cup {NoPid},
                 iso : BOOLEAN, fg : BOOLEAN, reason : Reasons, host : Hosts]

TypeOK ==
  /\ st \in States
  /\ iso \in BOOLEAN
  /\ proc \in [Pids -> {"up", "asked", "off", "dying", "gone"}]
  /\ watcher \in [Pids -> [pc : {"none", "watching", "recording"},
                           host : Hosts, view : States,
                           events : Seq({"shutdown", "reset"})]]
  /\ th \in [Threads -> ThreadStates]
  /\ ops \in 0..MaxOps /\ faults \in 0..MaxFaults
  /\ intent \in {"run", "userStop", "guestOff", "hostStop"}
  /\ lost \subseteq Pids

(* A thread at pc that has loaded nothing, in process h.                     *)
Fresh(pc, h) == [pc |-> pc, view |-> EmptyState, pid |-> NoPid, iso |-> FALSE,
                 fg |-> FALSE, reason |-> "", host |-> h]

(* A session that is idle has a command to run; the others do not exist.    *)
NoThread(t) == IF t \in Sessions THEN Fresh("idle", t) ELSE Fresh("off", Daemon)

NoWatcher == [pc |-> "none", host |-> Daemon, view |-> EmptyState,
              events |-> << >>]

(* A VM that Create has just saved, with or without an installer ISO; no    *)
(* vee process runs.                                                        *)
Init ==
  /\ st = EmptyState /\ iso \in BOOLEAN
  /\ proc = [p \in Pids |-> "gone"]
  /\ watcher = [p \in Pids |-> NoWatcher]
  /\ th = [t \in Threads |-> NoThread(t)]
  /\ ops = 0 /\ faults = 0
  /\ intent = "run" /\ lost = {}

-----------------------------------------------------------------------------
isAlive(p) == p \in Pids /\ proc[p] # "gone"

(* The process runs the guest and nothing has ended it yet.                 *)
Live(p) == p \in Pids /\ proc[p] \in {"up", "asked"}

(* saveState by a writer whose own record was of process known.  The record *)
(* of any other live process is lost by it.                                 *)
saveState(known, s) ==
  /\ st' = s
  /\ lost' = IF st.running /\ Live(st.pid) /\ st.pid \notin {known, s.pid}
             THEN lost \cup {st.pid} ELSE lost

(* The end of an operation: a session's process goes on, the daemon goes on *)
(* with its pass, the reboot goroutine ends.                                *)
after(t) == CASE t = Daemon -> "list"
              [] t = Reboot -> "off"
              [] OTHER      -> "idle"

goto(t, pc) == th' = [th EXCEPT ![t].pc = pc]
finish(t)   == th' = [th EXCEPT ![t] = Fresh(after(t), @.host)]

kill(p) == IF isAlive(p) THEN [proc EXCEPT ![p] = "dying"] ELSE proc

-----------------------------------------------------------------------------
(* Start.                                                                   *)

startLoad(t) ==
  /\ th[t].pc = "start"
  /\ IF st.running /\ isAlive(st.pid)
     THEN finish(t)
     ELSE th' = [th EXCEPT ![t].pc = IF st.running THEN "clean" ELSE "prepare",
                           ![t].view = st, ![t].iso = iso]
  /\ UNCHANGED <<st, iso, proc, watcher, ops, faults, intent, lost>>

(* The stale record is cleaned up and replaced, in memory, by an empty one. *)
startClean(t) ==
  /\ th[t].pc = "clean"
  /\ saveState(th[t].view.pid, cleanupStaleVM(th[t].view))
  /\ th' = [th EXCEPT ![t].pc = "prepare", ![t].view = EmptyState]
  /\ UNCHANGED <<iso, proc, watcher, ops, faults, intent>>

(* The install state decides whether the installer ISO stays attached.      *)
startPrepare(t) ==
  LET s == th[t].view
      skip == SkipInstall /\ s.install = ""
      first == ~skip /\ s.install = "" /\ th[t].iso
      strip == skip \/ s.install = "ready"
      s2 == [s EXCEPT !.install = IF skip THEN "ready"
                                  ELSE IF first THEN "pending" ELSE @]
  IN /\ th[t].pc = "prepare"
     /\ IF skip \/ first THEN saveState(s.pid, s2) ELSE UNCHANGED <<st, lost>>
     /\ iso' = IF skip \/ (strip /\ th[t].iso) THEN FALSE ELSE iso
     /\ th' = [th EXCEPT ![t].pc = "launch", ![t].view = s2,
                         ![t].iso = @ /\ ~strip]
     /\ UNCHANGED <<proc, watcher, ops, faults, intent>>

(* A pid nobody refers to; the kernel hands it out again.                   *)
Unused == {p \in Pids :
  /\ proc[p] = "gone" /\ st.pid # p
  /\ watcher[p].pc = "none"
  /\ \A t \in Threads : th[t].pid # p /\ th[t].view.pid # p
  /\ \A q \in Pids : watcher[q].view.pid # p}

(* saveConfig, then StartDetached.  QEMU locks its disk image, so a second  *)
(* process exits at once; any process may also fail to come up.             *)
launch(t) ==
  /\ th[t].pc = "launch"
  /\ iso' = th[t].iso
  /\ \E p \in Unused :
       /\ th' = [th EXCEPT ![t].pc = "launched", ![t].pid = p]
       /\ \/ /\ \A q \in Pids : proc[q] = "gone"
             /\ proc' = [proc EXCEPT ![p] = "up"]
             /\ UNCHANGED faults
          \/ /\ \E q \in Pids : proc[q] # "gone"
             /\ UNCHANGED <<proc, faults>>
          \/ /\ faults < MaxFaults /\ faults' = faults + 1
             /\ UNCHANGED proc
  /\ UNCHANGED <<st, watcher, ops, intent, lost>>

(* buildBackendMachine or StartDetached returns an error.                   *)
launchFails(t) ==
  /\ th[t].pc = "launch" /\ faults < MaxFaults
  /\ faults' = faults + 1
  /\ iso' \in {iso, th[t].iso}
  /\ finish(t)
  /\ UNCHANGED <<st, proc, watcher, ops, intent, lost>>

(* The running state is saved.  A detached start leaves a watcher behind, a *)
(* foreground one waits for the process.                                    *)
startRecord(t) ==
  LET p == th[t].pid
      s == startedState(th[t].view, p)
  IN /\ th[t].pc = "launched"
     /\ saveState(th[t].view.pid, s)
     /\ IF th[t].fg
        THEN /\ th' = [th EXCEPT ![t].pc = "foreground", ![t].view = s]
             /\ UNCHANGED watcher
        ELSE /\ finish(t)
             /\ watcher' = IF isAlive(p)
                           THEN [watcher EXCEPT ![p].pc = "watching",
                                                ![p].host = th[t].host]
                           ELSE watcher
     /\ UNCHANGED <<iso, proc, ops, faults, intent>>

(* The foreground wait: the process died, or ^C cancelled the context; the  *)
(* process is detached and survives the latter.                             *)
foregroundEnds(t) ==
  LET p == th[t].pid
      s == [th[t].view EXCEPT !.running = FALSE]
  IN /\ th[t].pc = "foreground"
     /\ \/ ~isAlive(p) /\ UNCHANGED faults
        \/ isAlive(p) /\ faults < MaxFaults /\ faults' = faults + 1
     /\ st' = s
     /\ lost' = lost \cup {q \in {p, st.pid} : Live(q)}
     /\ finish(t)
     /\ UNCHANGED <<iso, proc, watcher, ops, intent>>

Start(t) == startLoad(t) \/ startClean(t) \/ startPrepare(t) \/ launch(t)
              \/ launchFails(t) \/ startRecord(t) \/ foregroundEnds(t)

-----------------------------------------------------------------------------
(* stopWithReason and forceStopWithReason.                                  *)

(* The load and the request: an ACPI powerdown, or a kill.  A thread that   *)
(* finds no running VM gives up with pc; otherwise it goes on to wait.      *)
stopLoad(t, reason, force, giveUp) ==
  IF ~st.running \/ st.pid = NoPid
  THEN goto(t, giveUp) /\ UNCHANGED proc
  ELSE /\ th' = [th EXCEPT ![t].pc = "stopping", ![t].view = st,
                           ![t].reason = reason]
       /\ proc' = IF force THEN kill(st.pid)
                  ELSE IF isAlive(st.pid) /\ proc[st.pid] = "up"
                  THEN [proc EXCEPT ![st.pid] = "asked"] ELSE proc

(* Where a stop leads: the daemon's host-shutdown handling is over, the     *)
(* power-cycle goes on to Start, a session is done.                         *)
afterStop(t) == CASE t = Daemon -> "halted"
                  [] t = Reboot -> "start"
                  [] OTHER      -> "idle"

(* Mutant: the process is not killed when it outlives the wait.             *)
stopSaveNoKill(t) ==
  /\ th[t].pc = "stopping"
  /\ saveState(th[t].view.pid, stoppedState(th[t].view, th[t].reason))
  /\ th' = [th EXCEPT ![t] = Fresh(afterStop(t), @.host)]
  /\ UNCHANGED <<iso, proc, watcher, ops, faults, intent>>

(* The process exited, or the wait ran out and it is killed; then the save. *)
stopSave(t) ==
  /\ th[t].pc = "stopping"
  /\ proc' = kill(th[t].view.pid)
  /\ saveState(th[t].view.pid, stoppedState(th[t].view, th[t].reason))
  /\ th' = [th EXCEPT ![t] = Fresh(afterStop(t), @.host)]
  /\ UNCHANGED <<iso, watcher, ops, faults, intent>>

-----------------------------------------------------------------------------
(* Command-line sessions.                                                   *)

command(s) == th[s].pc = "idle" /\ ops < MaxOps /\ ops' = ops + 1

sessionStart(s) ==
  /\ command(s)
  /\ \E fg \in BOOLEAN : th' = [th EXCEPT ![s].pc = "start", ![s].fg = fg]
  /\ intent' = "run"
  /\ UNCHANGED <<st, iso, proc, watcher, faults, lost>>

Stop(s) ==
  /\ command(s)
  /\ \E force \in BOOLEAN : stopLoad(s, "user", force, "idle")
  /\ intent' = IF st.running /\ st.pid # NoPid THEN "userStop" ELSE intent
  /\ UNCHANGED <<st, iso, watcher, faults, lost>>

(* List: a record of a dead process is cleaned up.                          *)
List(s) ==
  /\ command(s) /\ st.running /\ ~isAlive(st.pid)
  /\ th' = [th EXCEPT ![s].pc = "listClean", ![s].view = st]
  /\ UNCHANGED <<st, iso, proc, watcher, faults, intent, lost>>

listClean(t) ==
  /\ th[t].pc = "listClean"
  /\ saveState(th[t].view.pid, cleanupStaleVM(th[t].view))
  /\ finish(t)
  /\ UNCHANGED <<iso, proc, watcher, ops, faults, intent>>

(* persistPhase, RunHealthCheck and SetSSHPort load a record and save it    *)
(* back with other fields changed; markReady also sets the install state.   *)
touch(s) ==
  /\ command(s) /\ st.running
  /\ \E pc \in {"touching", "readying"} :
       th' = [th EXCEPT ![s].pc = pc, ![s].view = st]
  /\ UNCHANGED <<st, iso, proc, watcher, faults, intent, lost>>

persistPhase(t) ==
  /\ th[t].pc = "touching"
  /\ saveState(th[t].view.pid, th[t].view)
  /\ finish(t)
  /\ UNCHANGED <<iso, proc, watcher, ops, faults, intent>>

markReady(t) ==
  /\ th[t].pc = "readying"
  /\ saveState(th[t].view.pid, readyState(th[t].view))
  /\ finish(t)
  /\ UNCHANGED <<iso, proc, watcher, ops, faults, intent>>

(* The end of process h takes its goroutines along: the watchers it hosts   *)
(* and a power-cycle one of them began.  A process it launched and had not  *)
(* recorded is forgotten.                                                   *)
processEnds(h) ==
  /\ th' = [t \in Threads |->
             IF t = h \/ (t = Reboot /\ th[Reboot].host = h)
             THEN NoThread(t) ELSE th[t]]
  /\ watcher' = [p \in Pids |-> IF watcher[p].host = h THEN NoWatcher
                                ELSE watcher[p]]
  /\ lost' = lost \cup {p \in Pids : Live(p) /\ \E t \in Threads :
               th[t].pid = p /\ th[t].pc = "launched" /\ th[t].host = h}
  /\ UNCHANGED <<st, iso, proc, ops, intent>>

(* A command is over and its process ends.                                  *)
sessionExit(s) == th[s].pc = "idle" /\ processEnds(s) /\ UNCHANGED faults

(* A vee process is killed, or its terminal is closed.                      *)
crashVee(h) ==
  /\ th[h].pc \notin {"off", "halted"}
  /\ faults < MaxFaults /\ faults' = faults + 1
  /\ processEnds(h)

-----------------------------------------------------------------------------
(* RunDaemon.                                                               *)

daemonStart ==
  /\ WithDaemon /\ th[Daemon].pc = "off"
  /\ goto(Daemon, "list")
  /\ UNCHANGED <<st, iso, proc, watcher, ops, faults, intent, lost>>

(* startAutoStartVMs.                                                       *)
tick ==
  /\ th[Daemon].pc = "idle"
  /\ goto(Daemon, IF /\ AutoStart /\ ~(st.running /\ isAlive(st.pid))
                     /\ shouldDaemonStart(st)
                  THEN "start" ELSE "list")
  /\ UNCHANGED <<st, iso, proc, watcher, ops, faults, intent, lost>>

(* adoptRunningVMs: List, then a watcher for a live process none is         *)
(* registered for.  QEMU accepts one QMP client, so the dial fails while a  *)
(* session's watcher holds the socket.                                      *)
adopt ==
  /\ th[Daemon].pc = "list"
  /\ IF st.running /\ ~isAlive(st.pid)
     THEN /\ th' = [th EXCEPT ![Daemon].pc = "listClean", ![Daemon].view = st]
          /\ UNCHANGED watcher
     ELSE /\ goto(Daemon, "idle")
          /\ watcher' =
               IF /\ st.running /\ watcher[st.pid].pc = "none"
                  /\ \A p \in Pids : watcher[p].host = Daemon => watcher[p].pc = "none"
               THEN [watcher EXCEPT ![st.pid].pc = "watching",
                                    ![st.pid].host = Daemon]
               ELSE watcher
  /\ UNCHANGED <<st, iso, proc, ops, faults, intent, lost>>

(* handleHostShutdown: List, then stopWithReason for a VM that runs.        *)
hostShutdown ==
  /\ th[Daemon].pc = "idle" /\ faults < MaxFaults /\ faults' = faults + 1
  /\ goto(Daemon, "haltList")
  /\ UNCHANGED <<st, iso, proc, watcher, ops, intent, lost>>

StopAllRunning ==
  /\ th[Daemon].pc = "haltList"
  /\ th' = [th EXCEPT ![Daemon].view = st, ![Daemon].pc =
              IF ~st.running THEN "halted"
              ELSE IF isAlive(st.pid) THEN "haltStop" ELSE "haltClean"]
  /\ UNCHANGED <<st, iso, proc, watcher, ops, faults, intent, lost>>

haltClean ==
  /\ th[Daemon].pc = "haltClean"
  /\ saveState(th[Daemon].view.pid, cleanupStaleVM(th[Daemon].view))
  /\ goto(Daemon, "halted")
  /\ UNCHANGED <<iso, proc, watcher, ops, faults, intent>>

haltStop ==
  /\ th[Daemon].pc = "haltStop"
  /\ stopLoad(Daemon, "host", FALSE, "halted")
  /\ intent' = IF st.running THEN "hostStop" ELSE intent
  /\ UNCHANGED <<st, iso, watcher, ops, faults, lost>>

(* The inhibitor is released, the host goes down and comes up again.        *)
hostReboot ==
  /\ th[Daemon].pc = "halted"
  /\ proc' = [p \in Pids |-> "gone"]
  /\ watcher' = [p \in Pids |-> NoWatcher]
  /\ th' = [t \in Threads |-> NoThread(t)]
  /\ lost' = {}
  /\ UNCHANGED <<st, iso, ops, faults, intent>>

-----------------------------------------------------------------------------
(* watchVMConnection of process p.                                          *)

pending(p, ev) == /\ watcher[p].pc = "watching" /\ watcher[p].events # << >>
                  /\ Head(watcher[p].events) = ev

(* handleShutdownEvent: the guest is down, by its own decision or because   *)
(* it honoured a powerdown request; QEMU reports both as the guest's.       *)
handleShutdownEvent(p) ==
  /\ pending(p, "shutdown")
  /\ watcher' = [watcher EXCEPT ![p].pc = "recording", ![p].view = st,
                                ![p].events = << >>]
  /\ UNCHANGED <<st, iso, proc, th, ops, faults, intent, lost>>

recordGuestShutdown(p) ==
  /\ watcher[p].pc = "recording"
  /\ saveState(watcher[p].view.pid, guestShutdownState(watcher[p].view))
  /\ watcher' = [watcher EXCEPT ![p] = NoWatcher]
  /\ UNCHANGED <<iso, proc, th, ops, faults, intent>>

(* handleResetEvent: a reboot outside an install pass is answered by a      *)
(* power-cycle in a goroutine of the watcher's process.                     *)
handleResetEvent(p) ==
  /\ pending(p, "reset")
  /\ IF shouldPowerCycleOnGuestReset(st)
     THEN /\ th[Reboot].pc = "off"
          /\ th' = [th EXCEPT ![Reboot].pc = "reboot",
                              ![Reboot].host = watcher[p].host]
          /\ watcher' = [watcher EXCEPT ![p] = NoWatcher]
     ELSE /\ watcher' = [watcher EXCEPT ![p].events = Tail(@)]
          /\ UNCHANGED th
  /\ UNCHANGED <<st, iso, proc, ops, faults, intent, lost>>

(* powerCycleAfterGuestReset: force-stop with reason reboot, then Start.    *)
powerCycleAfterGuestReset ==
  /\ th[Reboot].pc = "reboot"
  /\ stopLoad(Reboot, "reboot", TRUE, "off")
  /\ UNCHANGED <<st, iso, watcher, ops, faults, intent, lost>>

(* The connection is closed.  The select may see this before an event that  *)
(* is still in the channel.                                                 *)
ownerDone(p) ==
  /\ watcher[p].pc = "watching" /\ proc[p] = "gone"
  /\ watcher' = [watcher EXCEPT ![p] = NoWatcher]
  /\ UNCHANGED <<st, iso, proc, th, ops, faults, intent, lost>>

-----------------------------------------------------------------------------
(* QEMU and its guest.                                                      *)

emit(p, ev) ==
  watcher' = IF watcher[p].pc = "watching"
             THEN [watcher EXCEPT ![p].events = Append(@, ev)] ELSE watcher

fault == faults < MaxFaults /\ faults' = faults + 1

guestPoweroff(p) ==
  /\ proc[p] = "up" /\ fault
  /\ proc' = [proc EXCEPT ![p] = "off"]
  /\ emit(p, "shutdown")
  /\ intent' = "guestOff"
  /\ UNCHANGED <<st, iso, th, ops, lost>>

honourPowerdown(p) ==
  /\ proc[p] = "asked"
  /\ proc' = [proc EXCEPT ![p] = "off"]
  /\ emit(p, "shutdown")
  /\ UNCHANGED <<st, iso, th, ops, faults, intent, lost>>

guestReset(p) ==
  /\ Live(p) /\ fault
  /\ emit(p, "reset")
  /\ UNCHANGED <<st, iso, proc, th, ops, intent, lost>>

exit(p) ==
  /\ \/ proc[p] \in {"off", "dying"} /\ UNCHANGED faults
     \/ Live(p) /\ fault
  /\ proc' = [proc EXCEPT ![p] = "gone"]
  /\ lost' = lost \ {p}
  /\ UNCHANGED <<st, iso, watcher, th, ops, intent>>

-----------------------------------------------------------------------------
RunDaemon == daemonStart \/ tick \/ adopt \/ hostShutdown \/ StopAllRunning
               \/ haltClean \/ haltStop

Session(s) == sessionStart(s) \/ Stop(s) \/ List(s) \/ touch(s) \/ sessionExit(s)

Thread(t) == Start(t) \/ stopSave(t) \/ listClean(t) \/ persistPhase(t)
               \/ markReady(t)

watchVMConnection(p) == handleShutdownEvent(p) \/ recordGuestShutdown(p)
                          \/ handleResetEvent(p) \/ ownerDone(p)

Qemu(p) == guestPoweroff(p) \/ honourPowerdown(p) \/ guestReset(p) \/ exit(p)

Next ==
  \/ RunDaemon \/ hostReboot \/ powerCycleAfterGuestReset
  \/ \E s \in Sessions : Session(s)
  \/ \E h \in Hosts : crashVee(h)
  \/ \E t \in Threads : Thread(t)
  \/ \E p \in Pids : watchVMConnection(p) \/ Qemu(p)

Spec == Init /\ [][Next]_vars

(* Processes that exist are scheduled; the service manager keeps the daemon *)
(* running; a killed or powered-off QEMU exits.  Users and guests owe       *)
(* nothing.                                                                 *)
Fairness ==
  /\ WF_vars(daemonStart) /\ WF_vars(tick) /\ WF_vars(adopt)
  /\ WF_vars(StopAllRunning \/ haltClean \/ haltStop) /\ WF_vars(hostReboot)
  /\ WF_vars(powerCycleAfterGuestReset)
  /\ \A t \in Threads : WF_vars(Thread(t))
  /\ \A p \in Pids : WF_vars(watchVMConnection(p)) /\ WF_vars(exit(p) /\ ~Live(p))

FairSpec == Spec /\ Fairness

-----------------------------------------------------------------------------
(* Properties.                                                              *)

(* A live QEMU process is the one in the saved record, or was just launched *)
(* by a thread that is about to record it, or was forgotten in one of the   *)
(* three ways `lost' keeps account of: a save by a writer that had loaded   *)
(* the record of another run, the death of vee between launch and save, and *)
(* ^C of a foreground start.  In particular neither Stop, ForceStop, the    *)
(* power-cycle nor any stale-record cleanup leaves a guest running that vee *)
(* has ceased to track.                                                     *)
NoOrphan ==
  \A p \in Pids : Live(p) =>
    \/ st.running /\ st.pid = p
    \/ \E t \in Threads : th[t].pc = "launched" /\ th[t].pid = p
    \/ p \in lost

(* Thread t is doing nothing that could start the VM, and any record it is  *)
(* about to save says stopped.                                              *)
ThreadParked(t) ==
  /\ th[t].pc \notin {"start", "clean", "prepare", "launch", "launched",
                      "foreground", "reboot", "haltStop"}
  /\ th[t].pc \in {"listClean", "touching", "readying", "haltClean"} =>
       th[t].view.desired = "stopped"
  /\ th[t].pc = "stopping" => t \in Sessions /\ th[t].reason = "user"

(* The VM is parked: recorded as stopped, no process left, and nothing in   *)
(* flight that began from an older record.                                  *)
Parked ==
  /\ st.desired = "stopped"
  /\ \A p \in Pids : proc[p] = "gone"
  /\ \A p \in Pids : \A i \in DOMAIN watcher[p].events :
                        watcher[p].events[i] # "reset"
  /\ \A t \in Threads : ThreadParked(t)

(* A parked VM stays parked through the daemon's passes, daemon restarts,   *)
(* host shutdowns, late watchers and every command until a user starts it.  *)
ParkedStays ==
  [][Parked => Parked' \/ \E s \in Sessions : sessionStart(s)]_vars

(* An auto-start VM that should run is brought back: whatever crashed, it   *)
(* is always the case that later the record names a live process, or says   *)
(* that the user or the guest ended it, or a forgotten process still holds  *)
(* the disk image.                                                          *)
DaemonRevives ==
  []<>(\/ st.desired = "stopped" \/ st.reason = "guest"
       \/ st.running /\ Live(st.pid)
       \/ lost # {})

(* Stop "is recorded as user-initiated, so the daemon will NOT restart the  *)
(* VM on its next autostart pass": no pass decides to start the VM after a  *)
(* user has stopped it and before a user starts it again.                   *)
DaemonHonoursUserStop ==
  [][th[Daemon].pc = "idle" /\ th'[Daemon].pc = "start" =>
       intent # "userStop"]_vars

(* stopWithReason: "ShutdownReasonHost preserves DesiredStateRunning so     *)
(* autostart VMs come back up on the next host boot".                       *)
HostStopKeepsDesired ==
  intent = "hostStop" /\ th[Daemon].pc = "halted" => st.desired = "running"

(* install-iso-lifecycle.md: once the installation completes the guest      *)
(* "never re-enters the installer": no Start of a VM recorded as ready goes *)
(* back to a pending install.                                               *)
InstallNotRepeated ==
  [][\A t \in Threads :
       startPrepare(t) /\ st.install = "ready" => st'.install = "ready"]_vars

=============================================================================
