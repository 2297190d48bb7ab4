----------------------------- MODULE Readiness ------------------------------
(***************************************************************************)
(* Waiting for a VM to come up.  WaitReadyWithPhases (internal/vm/         *)
(* manager.go) starts three goroutines: one tails the serial console and   *)
(* reports boot phases (internal/boot/phasewatcher.go), one writes each    *)
(* phase into the VM's record and forwards it, and the main one probes the *)
(* guest every tick.  WaitReady and the spinner of "vee start" consume the *)
(* result; "vee wait" (waitssh.go) polls the same VM over SSH.  Meanwhile  *)
(* the guest may power off, be power-cycled, or never answer.              *)
(***************************************************************************)
EXTENDS Naturals, Sequences

CONSTANTS
  Lines,      \* console lines: each the set of phases whose pattern it matches
  ReadyPids,  \* process identifiers the VM may run under
  ChanCap,    \* capacity of phaseCh and watcherEvents (16 in the code)
  MaxEvents   \* bound: console lines and what happens to the VM during a wait

ASSUME ReadyAssumption ==
  ChanCap \in Nat \ {0} /\ MaxEvents \in Nat /\ ReadyPids \subseteq Nat \ {0}

VARIABLES
  rrec,    \* the saved record of the VM
  ralive,  \* the processes that are alive
  up,      \* the guest answers a probe
  nlines,  \* console lines read so far
  nevents, \* what has happened to the VM so far
  rctx,    \* [ctx, watch]: the caller's context and the watchers' one are done
  wt,      \* the phase watcher
  wch,     \* watcherEvents
  fan,     \* the fanout goroutine
  pch,     \* phaseCh
  failed,  \* an event waits in failedCh
  mn,      \* the main goroutine
  errc,    \* errCh: "none" or the one value sent
  caller,  \* who called: the last phase it was given and its answer
  swait,   \* a WaitSSHReady call on the same VM
  rvm,     \* the VM's processes: the latest one; the one a Start has launched
           \* and not saved (NoPidR: none) with the install state it loaded;
           \* those whose guest ended itself, and those still to be recorded
  lost     \* history: a save overwrote a newer record of the VM's process

readyVars == <<rrec, ralive, up, nlines, nevents, rctx, wt, wch, fan, pch, failed, mn,
               errc, caller, swait, rvm, lost>>

Order  == <<"Failed", "Installing", "Ready", "Cloud-init", "Init", "KernelBoot",
            "Bootloader", "BIOS/POST">>
Phases == {Order[i] : i \in 1..Len(Order)}

(* A console line matches patterns of phases.                               *)
ASSUME LinesAssumption == Lines \subseteq SUBSET Phases

NoPidR == 0
Blank  == ""   \* no phase, no reason, no install mode
NoRec  == [running |-> FALSE, pid |-> NoPidR, install |-> Blank, reason |-> Blank, phase |-> Blank]

rank(p) == CASE p = "BIOS/POST"  -> 1 [] p = "Bootloader" -> 2
             [] p = "KernelBoot" -> 3 [] p = "Init"       -> 4
             [] p = "Cloud-init" -> 5 [] p = "Installing" -> 6
             [] p = "Ready"      -> 7 [] OTHER            -> 0

(* The patterns are tried in order and the first match wins.                *)
classify(line) ==
  IF line = {} THEN Blank
  ELSE Order[CHOOSE i \in 1..Len(Order) :
               Order[i] \in line /\ \A j \in 1..(i-1) : Order[j] \notin line]

(* A copy of the record; its phase is written before it is read.            *)
loaded == [rrec EXCEPT !.phase = Blank]

(* A copy of the record that is older than a change of the VM's process.    *)
overwrites(copy) ==
  <<copy.running, copy.pid, copy.reason>> # <<rrec.running, rrec.pid, rrec.reason>>

watchCtxDone == rctx.ctx \/ rctx.watch
running      == caller.pc # "exited"   \* the process of the caller is there

-----------------------------------------------------------------------------
(* The phase watcher (phasewatcher.go).                                     *)

ended == [pc |-> "done", last |-> Blank, ev |-> Blank]

(* Mutant: a phase that is not ahead of the last one is reported too.       *)
worthTellingAny(phase, last) == phase # Blank

worthTelling(phase, last) ==
  phase \in {"Failed", "Installing"} \/ (phase # Blank /\ rank(phase) > rank(last))

(* One line is read and classified; an event waits to be sent.              *)
watchLine ==
  /\ running /\ wt.pc = "run" /\ ~watchCtxDone /\ nlines + nevents < MaxEvents
  /\ nlines' = nlines + 1
  /\ \E l \in Lines :
       LET ph == classify(l) IN
       wt' = IF worthTelling(ph, wt.last)
             THEN [wt EXCEPT !.pc = "emit", !.ev = ph,
                             !.last = IF ph = "Failed" THEN @ ELSE ph]
             ELSE wt
  /\ UNCHANGED <<rrec, ralive, up, nevents, rctx, wch, fan, pch, failed, mn, errc, caller, swait, lost, rvm>>

(* Nothing was written for IdleTimeout.                                     *)
watchIdle ==
  /\ running /\ wt.pc = "run" /\ ~watchCtxDone /\ wt.last # "Ready"
  /\ wt' = [wt EXCEPT !.pc = "emit", !.ev = "Failed"]
  /\ UNCHANGED <<rrec, ralive, up, nlines, nevents, rctx, wch, fan, pch, failed, mn, errc, caller, swait, lost, rvm>>

(* emit: the event is sent, or dropped when the context is done; a terminal *)
(* phase ends the watcher and closes watcherEvents.                         *)
watchEmit ==
  /\ running /\ wt.pc = "emit"
  /\ \/ Len(wch) < ChanCap /\ wch' = Append(wch, wt.ev)
     \/ watchCtxDone /\ wch' = wch
  /\ wt' = IF wt.ev \in {"Failed", "Ready"} THEN ended
           ELSE [wt EXCEPT !.pc = "run", !.ev = Blank]
  /\ UNCHANGED <<rrec, ralive, up, nlines, nevents, rctx, fan, pch, failed, mn, errc, caller, swait, lost, rvm>>

(* Mutant: the context is only looked at between two lines.                 *)
watchStopBetweenLines ==
  /\ running /\ wt.pc = "run" /\ watchCtxDone /\ nlines > 0
  /\ wt' = ended
  /\ UNCHANGED <<rrec, ralive, up, nlines, nevents, rctx, wch, fan, pch, failed, mn, errc, caller, swait, lost, rvm>>

watchStop ==
  /\ running /\ wt.pc = "run" /\ watchCtxDone
  /\ wt' = ended
  /\ UNCHANGED <<rrec, ralive, up, nlines, nevents, rctx, wch, fan, pch, failed, mn, errc, caller, swait, lost, rvm>>

-----------------------------------------------------------------------------
(* The fanout goroutine.                                                    *)

fanTo(f) == fan' = f

fanReceive ==
  /\ running /\ fan.pc = "recv" /\ wch # << >>
  /\ wch' = Tail(wch)
  /\ fanTo([fan EXCEPT !.pc = "save", !.ev = Head(wch), !.copy = loaded])
  /\ UNCHANGED <<rrec, ralive, up, nlines, nevents, rctx, wt, pch, failed, mn, errc, caller, swait, lost, rvm>>

(* persistPhase: the record loaded before is written back with the phase.   *)
persistPhase ==
  /\ running /\ fan.pc = "save"
  /\ rrec' = [fan.copy EXCEPT !.phase = fan.ev]
  /\ lost' = (lost \/ overwrites(fan.copy))
  /\ fanTo([fan EXCEPT !.pc = "send", !.copy = NoRec])
  /\ UNCHANGED <<ralive, up, nlines, nevents, rctx, wt, wch, pch, failed, mn, errc, caller, swait, rvm>>

fanSend ==
  /\ running /\ fan.pc = "send"
  /\ \/ /\ Len(pch) < ChanCap
        /\ pch' = Append(pch, fan.ev)
        /\ failed' = (failed \/ fan.ev = "Failed")
        /\ fanTo([fan EXCEPT !.pc = "recv", !.ev = Blank])
     \/ watchCtxDone /\ fanTo([fan EXCEPT !.pc = "drain", !.ev = Blank]) /\ UNCHANGED <<pch, failed>>
  /\ UNCHANGED <<rrec, ralive, up, nlines, nevents, rctx, wt, wch, mn, errc, caller, swait, lost, rvm>>

(* The rest of watcherEvents is thrown away.                                *)
fanDrain ==
  /\ running /\ fan.pc = "drain" /\ wch # << >>
  /\ wch' = Tail(wch)
  /\ UNCHANGED <<rrec, ralive, up, nlines, nevents, rctx, wt, fan, pch, failed, mn, errc, caller, swait, lost, rvm>>

(* watcherEvents is closed and empty: the goroutine closes phaseCh.         *)
fanClose ==
  /\ running /\ fan.pc \in {"recv", "drain"} /\ wch = << >> /\ wt.pc = "done"
  /\ fanTo([fan EXCEPT !.pc = "done"])
  /\ UNCHANGED <<rrec, ralive, up, nlines, nevents, rctx, wt, wch, pch, failed, mn, errc, caller, swait, lost, rvm>>

-----------------------------------------------------------------------------
(* The main goroutine.                                                      *)

(* It sends its one answer; the deferred call cancels the watchers.         *)
answer(v) ==
  /\ errc' = v
  /\ rctx' = [rctx EXCEPT !.watch = TRUE]
  /\ mn' = [mn EXCEPT !.pc = "await", !.view = NoRec, !.copy = NoRec]

(* The VM is not running: phaseCh is closed before any goroutine starts.    *)
mainLoad ==
  /\ running /\ mn.pc = "load"
  /\ LET v == loaded IN
     IF ~v.running \/ v.pid = NoPidR
     THEN /\ errc' = "notrunning" /\ mn' = [mn EXCEPT !.pc = "done"]
          /\ fan' = [fan EXCEPT !.pc = "done"] /\ wt' = wt
     ELSE /\ mn' = [mn EXCEPT !.pc = IF mn.backend = "vz" THEN "vz"
                                     ELSE IF mn.probed THEN "first" ELSE "alive",
                              !.view = v]
          /\ wt' = [wt EXCEPT !.pc = IF mn.backend = "vz" THEN "done" ELSE "run"]
          /\ fan' = [fan EXCEPT !.pc = IF mn.backend = "vz" THEN "done" ELSE "recv"]
          /\ errc' = errc
  /\ UNCHANGED <<rrec, ralive, up, nlines, nevents, rctx, wch, pch, failed, caller, swait, lost, rvm>>

isAliveR(p) == p \in ralive

(* No probe is configured, or (vz) the guest has no MAC to look up.         *)
mainNoProbe ==
  /\ running /\ (mn.pc = "alive" \/ (mn.pc = "vz" /\ ~mn.probed))
  /\ IF ~isAliveR(mn.view.pid) THEN answer("exited")
     ELSE IF mn.pc = "alive" /\ mn.view.install = "pending" THEN answer("ok")
     ELSE mn' = [mn EXCEPT !.pc = "mark"] /\ UNCHANGED <<errc, rctx>>
  /\ UNCHANGED <<rrec, ralive, up, nlines, nevents, wt, wch, fan, pch, failed, caller, swait, lost, rvm>>

(* The first probe of a QEMU guest; a vz guest is only checked to be alive. *)
mainFirst ==
  /\ running
  /\ \/ /\ mn.pc = "first"
        /\ mn' = [mn EXCEPT !.pc = IF up THEN "mark" ELSE "loop"]
        /\ UNCHANGED <<errc, rctx>>
     \/ /\ mn.pc = "vz" /\ mn.probed
        /\ IF isAliveR(mn.view.pid)
           THEN mn' = [mn EXCEPT !.pc = "loop"] /\ UNCHANGED <<errc, rctx>>
           ELSE answer("exited")
  /\ UNCHANGED <<rrec, ralive, up, nlines, nevents, wt, wch, fan, pch, failed, caller, swait, lost, rvm>>

mainCancelled ==
  /\ running /\ mn.pc = "loop" /\ rctx.ctx
  /\ answer("cancelled")
  /\ UNCHANGED <<rrec, ralive, up, nlines, nevents, wt, wch, fan, pch, failed, caller, swait, lost, rvm>>

mainFailed ==
  /\ running /\ mn.pc = "loop" /\ failed
  /\ failed' = FALSE
  /\ answer("failed")
  /\ UNCHANGED <<rrec, ralive, up, nlines, nevents, wt, wch, fan, pch, caller, swait, lost, rvm>>

(* A vz wait keeps the record it was given; a QEMU wait reads it again.     *)
tickReload(view) == IF mn.backend = "vz" THEN view ELSE loaded

(* The record read by the previous tick says the guest ended its install.   *)
installEnd(view) == view.install = "pending" /\ view.reason = "guest"

(* A tick: is the process still the one of the record read by the previous  *)
(* tick, has the deadline passed, and does the guest answer?  Whether the   *)
(* deadline has passed is left open.                                        *)
mainTick ==
  /\ running /\ mn.pc = "loop"
  /\ \/ /\ ~isAliveR(mn.view.pid)
        /\ answer(IF mn.backend = "qemu" /\ installEnd(mn.view) THEN "ok" ELSE "exited")
     \/ /\ isAliveR(mn.view.pid) /\ (mn.backend = "vz" => ~up)
        /\ answer("timeout")
     \/ /\ isAliveR(mn.view.pid)
        /\ mn' = [mn EXCEPT !.view = tickReload(mn.view),
                            !.pc = IF up THEN "mark" ELSE "loop"]
        /\ UNCHANGED <<errc, rctx>>
  /\ UNCHANGED <<rrec, ralive, up, nlines, nevents, wt, wch, fan, pch, failed, caller, swait, lost, rvm>>

(* markReady: load, then save the record with the install and the boot      *)
(* marked as finished.                                                      *)
markReadyLoad ==
  /\ running /\ mn.pc = "mark"
  /\ mn' = [mn EXCEPT !.pc = "save", !.copy = loaded]
  /\ UNCHANGED <<rrec, ralive, up, nlines, nevents, rctx, wt, wch, fan, pch, failed, errc, caller, swait, lost, rvm>>

markReady ==
  /\ running /\ mn.pc = "save"
  /\ rrec' = [mn.copy EXCEPT !.install = "ready", !.phase = "Ready"]
  /\ lost' = (lost \/ overwrites(mn.copy))
  /\ answer("ok")
  /\ UNCHANGED <<ralive, up, nlines, nevents, wt, wch, fan, pch, failed, caller, swait, rvm>>

(* Mutant: the answer is the end of it; the fanout is not waited for.       *)
mainEndAtOnce ==
  /\ running /\ mn.pc = "await"
  /\ mn' = [mn EXCEPT !.pc = "done"]
  /\ fan' = [fan EXCEPT !.pc = "done"]
  /\ UNCHANGED <<rrec, ralive, up, nlines, nevents, rctx, wt, wch, pch, failed, errc, caller, swait, lost, rvm>>

(* fanoutDone.Wait() of the deferred call.                                  *)
mainEnd ==
  /\ running /\ mn.pc = "await" /\ fan.pc = "done"
  /\ mn' = [mn EXCEPT !.pc = "done"]
  /\ UNCHANGED <<rrec, ralive, up, nlines, nevents, rctx, wt, wch, fan, pch, failed, errc, caller, swait, lost, rvm>>

-----------------------------------------------------------------------------
(* The callers.                                                             *)

(* WaitReady and the spinner read phaseCh.                                  *)
callerPhase ==
  /\ caller.pc = "wait" /\ pch # << >>
  /\ pch' = Tail(pch)
  /\ caller' = [caller EXCEPT !.last = Head(pch)]
  /\ UNCHANGED <<rrec, ralive, up, nlines, nevents, rctx, wt, wch, fan, failed, mn, errc, swait, lost, rvm>>

(* WaitReady takes the answer once phaseCh is closed and empty and its      *)
(* process goes on; runStartSpinner takes it at once and its process ends   *)
(* with the goroutines wherever they are.                                   *)
callerAnswer ==
  /\ caller.pc = "wait" /\ errc # "none"
  /\ caller.kind = "WaitReady" => fan.pc = "done" /\ pch = << >>
  /\ caller' = [caller EXCEPT !.res = errc,
                !.pc = IF caller.kind = "WaitReady" THEN "returned" ELSE "exited"]
  /\ errc' = "none"
  /\ UNCHANGED <<rrec, ralive, up, nlines, nevents, rctx, wt, wch, fan, pch, failed, mn, swait, lost, rvm>>

(* ^C in the spinner leaves without an answer; elsewhere it cancels the     *)
(* context of the call.                                                     *)
interrupt ==
  /\ caller.pc = "wait" /\ ~rctx.ctx
  /\ \/ caller.kind = "spinner" /\ rctx' = rctx
        /\ caller' = [caller EXCEPT !.pc = "exited", !.res = "interrupted"]
     \/ rctx' = [rctx EXCEPT !.ctx = TRUE] /\ caller' = caller
  /\ UNCHANGED <<rrec, ralive, up, nlines, nevents, wt, wch, fan, pch, failed, mn, errc, swait, lost, rvm>>

-----------------------------------------------------------------------------
(* WaitSSHReady, in a process of its own.                                   *)

swaitTo(s) ==
  /\ swait' = s
  /\ UNCHANGED <<rrec, ralive, up, nlines, nevents, rctx, wt, wch, fan, pch, failed, mn, errc, caller, lost, rvm>>

sshBegin ==
  /\ swait.pc = "start"
  /\ swaitTo(IF rrec.running THEN [swait EXCEPT !.pc = "try"]
             ELSE [swait EXCEPT !.pc = "done", !.res = "notrunning"])

(* Mutant: the record is not read again, so the first process is the VM.    *)
sshViewOnce == [rrec EXCEPT !.running = TRUE, !.pid = 1]

(* The record is read again by every attempt.                               *)
sshView == rrec

sshAttempt ==
  /\ swait.pc = "try"
  /\ \/ swaitTo([swait EXCEPT !.pc = "done", !.res = "timeout"])
     \/ LET v == sshView IN
        IF v.running /\ isAliveR(v.pid) THEN swaitTo([swait EXCEPT !.pc = "dial"])
        ELSE IF v.reason = "reboot" THEN swaitTo(swait)
        ELSE swaitTo([swait EXCEPT !.pc = "done", !.res = "exited",
                                   !.moved = ralive \ {rvm.new} # {}])

(* Resolve, dial, run the probe; then wait for cloud-init over the same     *)
(* connection if asked to.                                                  *)
sshDial ==
  /\ swait.pc = "dial"
  /\ swaitTo([swait EXCEPT !.pc = IF ~up THEN "try"
                                  ELSE IF swait.cloudInit THEN "cloud" ELSE "done",
                           !.res = IF up /\ ~swait.cloudInit THEN "ok" ELSE @])

waitCloudInitDone ==
  /\ swait.pc = "cloud"
  /\ \/ ~up /\ swaitTo([swait EXCEPT !.pc = "try"])
     \/ up /\ swaitTo([swait EXCEPT !.pc = "done", !.res = "ok"])
     \/ up /\ swaitTo([swait EXCEPT !.pc = "done", !.res = "failed"])

-----------------------------------------------------------------------------
(* The VM (its own processes and the watchers of the daemon).               *)

(* The VM is followed while somebody waits for it.                          *)
followed == caller.pc = "wait" \/ swait.pc # "done"
waited   == followed /\ nlines + nevents < MaxEvents /\ nevents' = nevents + 1
follows  == followed /\ nevents' = nevents   \* the course of what has happened
envOnly  == UNCHANGED <<nlines, rctx, wt, wch, fan, pch, failed, mn, errc, caller, swait, lost>>

guestUp ==
  /\ ralive # {} /\ ~up /\ up' = TRUE
  /\ UNCHANGED <<rrec, ralive, rvm>> /\ waited /\ envOnly

(* The guest powers off, or resets where the monitor calls that a shutdown: *)
(* the watcher of the process is told.                                      *)
guestEnds ==
  /\ \E p \in ralive \ rvm.off :
       rvm' = [rvm EXCEPT !.off = @ \cup {p}, !.untold = @ \cup {p}]
  /\ up' = FALSE
  /\ UNCHANGED <<rrec, ralive>> /\ waited /\ envOnly

(* A process ends, by a crash or since its guest has.                       *)
processExit ==
  /\ \E p \in ralive :
       /\ ralive' = ralive \ {p}
       /\ IF p \in rvm.off THEN follows ELSE waited
  /\ up' = FALSE
  /\ UNCHANGED <<rrec, rvm>> /\ envOnly

(* recordGuestShutdown: the reason goes on whatever record there is by now. *)
recordGuestShutdownR ==
  /\ \E p \in rvm.untold : rvm' = [rvm EXCEPT !.untold = @ \ {p}]
  /\ rrec' = [rrec EXCEPT !.reason = IF @ = Blank THEN "guest" ELSE @]
  /\ UNCHANGED <<ralive, up>> /\ follows /\ envOnly

(* The power-cycle after a guest reset: the stop is recorded as a reboot,   *)
(* then, as after a crash, the VM is started under a new process.           *)
rebootStop ==
  /\ rrec.running /\ ~isAliveR(rrec.pid) /\ rrec.reason = Blank
  /\ rrec.install # "pending"
  /\ rrec' = [rrec EXCEPT !.running = FALSE, !.pid = NoPidR, !.reason = "reboot",
                          !.phase = Blank]
  /\ UNCHANGED <<ralive, up, rvm>> /\ waited /\ envOnly

(* The daemon's tick finds the record of a process that is gone.            *)
cleanupStaleVMR ==
  /\ rrec.running /\ ~isAliveR(rrec.pid)
  /\ rrec' = [rrec EXCEPT !.running = FALSE, !.pid = NoPidR, !.phase = Blank,
                          !.reason = IF @ = Blank THEN "crash" ELSE @,
                          !.install = IF @ = "pending" THEN "ready" ELSE @]
  /\ UNCHANGED <<ralive, up, rvm>> /\ waited /\ envOnly

(* Start, up to the launch: the process may exit at once.                   *)
rebootStart ==
  /\ ~rrec.running /\ rrec.reason \in {"reboot", "crash"} /\ rvm.new = NoPidR
  /\ \E p \in ReadyPids :
       /\ p > rvm.last
       /\ ralive' \in {ralive, ralive \cup {p}}
       /\ rvm' = [rvm EXCEPT !.last = p, !.new = p, !.install = rrec.install]
  /\ UNCHANGED <<rrec, up>> /\ waited /\ envOnly

(* Such a process is launched again, without GL.                            *)
retryStartWithoutGLR ==
  /\ rvm.new # NoPidR /\ ~isAliveR(rvm.new)
  /\ \E p \in ReadyPids :
       /\ p > rvm.last
       /\ ralive' = ralive \cup {p}
       /\ rvm' = [rvm EXCEPT !.last = p, !.new = p]
  /\ UNCHANGED <<rrec, up>> /\ follows /\ envOnly

(* Start's record.                                                          *)
startSaveR ==
  /\ rvm.new # NoPidR
  /\ rrec' = [running |-> TRUE, pid |-> rvm.new, install |-> rvm.install,
              reason |-> Blank, phase |-> Blank]
  /\ rvm' = [rvm EXCEPT !.new = NoPidR, !.install = Blank]
  /\ UNCHANGED <<ralive, up>> /\ follows /\ envOnly

-----------------------------------------------------------------------------
(* A wait begins on a running VM.                                           *)
waitBegins ==
  /\ ralive = {1}
  /\ wt = [pc |-> "new", last |-> Blank, ev |-> Blank]
  /\ rctx = [ctx |-> FALSE, watch |-> FALSE]
  /\ fan = [pc |-> "new", ev |-> Blank, copy |-> NoRec]
  /\ \E b \in {"qemu", "vz"}, p \in BOOLEAN :
       mn = [pc |-> "load", backend |-> b, probed |-> p, view |-> NoRec, copy |-> NoRec]
  /\ errc = "none"
  /\ \E k \in {"WaitReady", "spinner"} :
       caller = [pc |-> "wait", kind |-> k, last |-> Blank, res |-> "none"]
  /\ swait = [pc |-> "done", cloudInit |-> FALSE, res |-> "none", moved |-> FALSE]

(* "vee wait" begins while another wait, already answered, is still writing *)
(* the last phase it saw; the VM's process may just have gone.              *)
sshWaitBegins ==
  /\ ralive \in {{1}, {}} /\ wt = ended
  /\ rctx = [ctx |-> FALSE, watch |-> TRUE]
  /\ fan = [pc |-> "save", ev |-> "Init", copy |-> loaded]
  /\ mn = [pc |-> "await", backend |-> "qemu", probed |-> TRUE, view |-> NoRec, copy |-> NoRec]
  /\ errc = "timeout"
  /\ caller = [pc |-> "wait", kind |-> "WaitReady", last |-> Blank, res |-> "none"]
  /\ \E c \in BOOLEAN :
       swait = [pc |-> "start", cloudInit |-> c, res |-> "none", moved |-> FALSE]

ReadyInit ==
  /\ \E i \in {"pending", "ready"} :
       rrec = [running |-> TRUE, pid |-> 1, install |-> i, reason |-> Blank, phase |-> Blank]
  /\ up = FALSE /\ nlines = 0 /\ nevents = 0
  /\ wch = << >> /\ pch = << >> /\ failed = FALSE /\ lost = FALSE
  /\ rvm = [last |-> 1, new |-> NoPidR, install |-> Blank, off |-> {}, untold |-> {}]
  /\ waitBegins \/ sshWaitBegins

watcher == watchLine \/ watchIdle \/ watchEmit \/ watchStop
fanout  == fanReceive \/ persistPhase \/ fanSend \/ fanDrain \/ fanClose
WaitReadyWithPhases ==
  mainLoad \/ mainNoProbe \/ mainFirst \/ mainCancelled \/ mainFailed \/ mainTick
    \/ markReadyLoad \/ markReady \/ mainEnd
WaitReady    == callerPhase \/ callerAnswer
WaitSSHReady == sshBegin \/ sshAttempt \/ sshDial \/ waitCloudInitDone
guestEnv     == guestUp \/ guestEnds \/ processExit \/ recordGuestShutdownR \/ cleanupStaleVMR
                  \/ rebootStop \/ rebootStart \/ retryStartWithoutGLR \/ startSaveR

ReadyNext == watcher \/ fanout \/ WaitReadyWithPhases \/ WaitReady \/ interrupt
               \/ WaitSSHReady \/ guestEnv

ReadySpec == ReadyInit /\ [][ReadyNext]_readyVars

-----------------------------------------------------------------------------
(* Properties.                                                              *)

(* No goroutine outlives the wait it serves, and none can send on a channel *)
(* the other end has closed: when the main goroutine of WaitReadyWithPhases *)
(* is done, or WaitReady has returned, the fanout has closed phaseCh, the   *)
(* watcher has closed watcherEvents and nothing is left in it.              *)
NothingLeftBehind ==
  mn.pc = "done" \/ caller.pc = "returned"
    => /\ fan.pc = "done"
       /\ wt.pc \in {"done", "new"}
       /\ wch = << >>

(* What the caller is shown only moves forward: a phase is followed by one  *)
(* of a higher rank (or another install stage) or by Failed, and nothing    *)
(* follows Ready or Failed (phasewatcher.go: "Failed and Ready are          *)
(* terminals and never transition back").                                   *)
PhasesForward ==
  callerPhase =>
    /\ caller.last \notin {"Ready", "Failed"}
    /\ \/ caller'.last = "Failed"
       \/ rank(caller'.last) > rank(caller.last)
       \/ caller'.last = caller.last /\ caller.last = "Installing"

(* A dead process is taken for the expected end of an install pass only     *)
(* where its own guest had ended itself: not after a crash, and not because *)
(* the shutdown of another run is recorded late; the exception is a record  *)
(* reverted to an older one.                                                *)
CrashNotSuccess == mainTick /\ errc' = "ok" => mn.view.pid \in rvm.off \/ lost

(* "vee wait" says the VM's process exited only when no process of the VM   *)
(* is alive, although the VM may have been relaunched under a new process   *)
(* while it waited.  The exceptions are the process of a Start that has yet *)
(* to save its record, and a record that a concurrent save of a boot phase  *)
(* has reverted to the old process.                                         *)
ExitedIsTrue == swait.res = "exited" /\ swait.moved => lost

(* Every wait ends, whatever the guest does, and so do the goroutines it    *)
(* started unless their process ends first.                                 *)
WaitEnds ==
  <>(/\ caller.pc # "wait" /\ swait.pc = "done"
     /\ caller.pc = "exited" \/ (mn.pc = "done" /\ fan.pc = "done"))
=============================================================================
