-------------------------- MODULE VMLifecycleTypes --------------------------
(***************************************************************************)
(* VMLifecycle keeps its types, for any sets of pids and sessions and any   *)
(* bounds.                                                                  *)
(***************************************************************************)
EXTENDS VMLifecycle, TLAPS

(* The records that the operations of internal/vm save are well formed.     *)
LEMMA StateOps ==
  ASSUME NEW s \in States, NEW reason \in Reasons, NEW p \in Pids \cup {NoPid},
         NEW i \in Installs
  PROVE  /\ EmptyState \in States
         /\ stoppedState(s, reason) \in States
         /\ cleanupStaleVM(s) \in States
         /\ startedState(s, p) \in States
         /\ guestShutdownState(s) \in States
         /\ readyState(s) \in States
         /\ [s EXCEPT !.running = FALSE] \in States
         /\ [s EXCEPT !.install = i] \in States
<1>1. promoted(s.install) \in Installs
  BY Zenon DEF States, Installs, promoted
<1>2. desiredStateForReason(reason) \in Desired
  BY DEF desiredStateForReason, Desired
<1>3. EmptyState \in States
  BY Zenon DEF States, EmptyState, Desired, Reasons, Installs
<1>4. stoppedState(s, reason) \in States
  BY Zenon, <1>1, <1>2, <1>3 DEF States, stoppedState
<1>5. (IF s.reason = "" THEN "crash" ELSE s.reason) \in Reasons
  BY Zenon DEF States, Reasons
<1>6. cleanupStaleVM(s) \in States
  BY Zenon, <1>1, <1>3, <1>5 DEF States, cleanupStaleVM
<1>7. startedState(s, p) \in States
  BY Zenon, <1>3 DEF States, startedState, Desired
<1>8. (IF s.reason = "" THEN "guest" ELSE s.reason) \in Reasons
  BY Zenon DEF States, Reasons
<1>9. guestShutdownState(s) \in States
  BY Zenon, <1>8 DEF States, guestShutdownState, Desired
<1>10. readyState(s) \in States
  BY Zenon DEF States, readyState, Installs
<1>11. /\ [s EXCEPT !.running = FALSE] \in States
       /\ [s EXCEPT !.install = i] \in States
  BY Zenon DEF States
<1> QED
  BY <1>3, <1>4, <1>6, <1>7, <1>9, <1>10, <1>11

(* What the operations of internal/vm do to the fields the proofs follow.   *)
LEMMA StateFields ==
  ASSUME NEW s \in States, NEW reason \in Reasons, NEW p \in Pids \cup {NoPid}
  PROVE  /\ EmptyState.pid = NoPid /\ ~EmptyState.running
         /\ stoppedState(s, reason).pid = NoPid /\ ~stoppedState(s, reason).running
         /\ stoppedState(s, reason).desired = desiredStateForReason(reason)
         /\ cleanupStaleVM(s).pid = NoPid /\ ~cleanupStaleVM(s).running
         /\ cleanupStaleVM(s).desired = s.desired
         /\ startedState(s, p).pid = p /\ startedState(s, p).running
         /\ guestShutdownState(s).pid = s.pid
         /\ guestShutdownState(s).running = s.running
         /\ guestShutdownState(s).desired = "stopped"
         /\ readyState(s).pid = s.pid /\ readyState(s).running = s.running
         /\ readyState(s).desired = s.desired
BY DEF States, EmptyState, stoppedState, cleanupStaleVM, startedState,
   guestShutdownState, readyState

(* The thread records that vee's processes begin with.                      *)
LEMMA FreshThread ==
  ASSUME NEW pc \in Pcs, NEW h \in Hosts
  PROVE  /\ Fresh(pc, h) \in ThreadStates
         /\ Fresh(pc, h).pc = pc /\ Fresh(pc, h).host = h
         /\ Fresh(pc, h).pid = NoPid /\ Fresh(pc, h).view = EmptyState
<1>1. EmptyState \in States
  BY DEF EmptyState, States, Desired, Reasons, Installs
<1> QED
  BY <1>1 DEF Fresh, ThreadStates, Reasons

LEMMA NoThreadType ==
  ASSUME NEW t \in Threads
  PROVE  /\ NoThread(t) \in ThreadStates
         /\ NoThread(t).pc \in {"idle", "off"}
         /\ t \in Hosts => NoThread(t).host = t
<1>1. {"idle", "off"} \subseteq Pcs /\ Daemon \in Hosts
  BY DEF Pcs, Hosts
<1>2. CASE t \in Sessions
  BY <1>1, <1>2, FreshThread DEF NoThread, Hosts
<1>3. CASE t \notin Sessions
  BY <1>1, <1>3, FreshThread, LifecycleAssumption DEF NoThread, Hosts, Threads
<1> QED
  BY <1>2, <1>3

LEMMA AfterPcs ==
  ASSUME NEW t \in Threads
  PROVE  /\ after(t) \in {"list", "off", "idle"}
         /\ afterStop(t) \in {"halted", "start", "idle"}
         /\ after(t) \in Pcs /\ afterStop(t) \in Pcs
         /\ afterStop(t) = "start" => t = Reboot
<1>1. CASE t = Daemon
  BY <1>1, LifecycleAssumption DEF after, afterStop, Pcs
<1>2. CASE t = Reboot
  BY <1>2, LifecycleAssumption DEF after, afterStop, Pcs
<1>3. CASE t # Daemon /\ t # Reboot
  BY <1>3 DEF after, afterStop, Pcs
<1> QED
  BY <1>1, <1>2, <1>3

Watchers == [pc : {"none", "watching", "recording"}, host : Hosts,
             view : States, events : Seq({"shutdown", "reset"})]

LEMMA NoWatcherType == NoWatcher \in Watchers
<1>1. EmptyState \in States
  BY DEF EmptyState, States, Desired, Reasons, Installs
<1> QED
  BY <1>1 DEF NoWatcher, Watchers, Hosts

-----------------------------------------------------------------------------
(* How the shared helpers keep their types.                                 *)

LEMMA SaveType ==
  ASSUME TypeOK, NEW known, NEW s \in States, saveState(known, s)
  PROVE  st' \in States /\ lost' \subseteq Pids
BY DEF TypeOK, saveState, Live

LEMMA KillType ==
  ASSUME TypeOK, NEW p
  PROVE  kill(p) \in [Pids -> {"up", "asked", "off", "dying", "gone"}]
BY DEF TypeOK, kill, isAlive

LEMMA GotoType ==
  ASSUME TypeOK, NEW t \in Threads, NEW pc \in Pcs, goto(t, pc)
  PROVE  th' \in [Threads -> ThreadStates]
<1>1. [th[t] EXCEPT !.pc = pc] \in ThreadStates
  BY Zenon DEF TypeOK, ThreadStates
<1> QED
  BY <1>1 DEF TypeOK, goto

LEMMA ViewType ==
  ASSUME TypeOK, NEW t \in Threads, NEW pc \in Pcs, NEW v \in States,
         th' = [th EXCEPT ![t].pc = pc, ![t].view = v]
  PROVE  th' \in [Threads -> ThreadStates]
<1>1. [th[t] EXCEPT !.pc = pc, !.view = v] \in ThreadStates
  BY ZenonT(60) DEF TypeOK, ThreadStates
<1> QED
  BY <1>1 DEF TypeOK

LEMMA FinishType ==
  ASSUME TypeOK, NEW t \in Threads, finish(t)
  PROVE  th' \in [Threads -> ThreadStates]
<1>1. th[t].host \in Hosts
  BY DEF TypeOK, ThreadStates
<1>2. Fresh(after(t), th[t].host) \in ThreadStates
  BY <1>1, AfterPcs, FreshThread
<1> QED
  BY <1>2 DEF TypeOK, finish

LEMMA StopLoadType ==
  ASSUME TypeOK, NEW t \in Threads, NEW reason \in Reasons, NEW force \in BOOLEAN,
         NEW giveUp \in Pcs, stopLoad(t, reason, force, giveUp)
  PROVE  /\ th' \in [Threads -> ThreadStates]
         /\ proc' \in [Pids -> {"up", "asked", "off", "dying", "gone"}]
<1>1. CASE ~st.running \/ st.pid = NoPid
  BY <1>1, GotoType DEF stopLoad, TypeOK
<1>2. CASE ~(~st.running \/ st.pid = NoPid)
  <2>0. th[t] \in ThreadStates /\ st \in States /\ "stopping" \in Pcs
    BY DEF TypeOK, Pcs
  <2>1. [th[t] EXCEPT !.pc = "stopping", !.view = st, !.reason = reason]
          \in ThreadStates
    BY Zenon, <2>0 DEF ThreadStates
  <2>2. th' = [th EXCEPT ![t].pc = "stopping", ![t].view = st, ![t].reason = reason]
    BY <1>2 DEF stopLoad
  <2>3. proc' \in {kill(st.pid), [proc EXCEPT ![st.pid] = "asked"], proc}
    BY <1>2 DEF stopLoad
  <2> QED
    BY Zenon, <2>1, <2>2, <2>3, KillType DEF TypeOK
<1> QED
  BY <1>1, <1>2

LEMMA ProcessEndsType ==
  ASSUME TypeOK, NEW h \in Hosts, processEnds(h)
  PROVE  /\ th' \in [Threads -> ThreadStates]
         /\ watcher' \in [Pids -> Watchers]
         /\ lost' \subseteq Pids
         /\ UNCHANGED <<st, iso, proc, ops, intent>>
<1>1. th' \in [Threads -> ThreadStates]
  BY NoThreadType DEF TypeOK, processEnds
<1>2. watcher' \in [Pids -> Watchers]
  BY NoWatcherType DEF TypeOK, processEnds, Watchers
<1> QED
  BY <1>1, <1>2 DEF TypeOK, processEnds

LEMMA EmitType ==
  ASSUME TypeOK, NEW p \in Pids, NEW ev \in {"shutdown", "reset"}, emit(p, ev)
  PROVE  watcher' \in [Pids -> Watchers]
<1>1. watcher[p] \in Watchers
  BY DEF TypeOK, Watchers
<1>2. Append(watcher[p].events, ev) \in Seq({"shutdown", "reset"})
  BY <1>1 DEF Watchers
<1>3. [watcher[p] EXCEPT !.events = Append(watcher[p].events, ev)] \in Watchers
  BY ZenonT(60), <1>1, <1>2 DEF Watchers
<1> QED
  BY <1>1, <1>3 DEF TypeOK, emit, Watchers

-----------------------------------------------------------------------------
(* Type correctness.                                                        *)

LEMMA InitType == Init => TypeOK
<1> SUFFICES ASSUME Init PROVE TypeOK
  OBVIOUS
<1>1. st \in States /\ iso \in BOOLEAN
  BY Zenon DEF Init, EmptyState, States, Desired, Reasons, Installs
<1>2. proc \in [Pids -> {"up", "asked", "off", "dying", "gone"}]
  BY DEF Init
<1>3. watcher \in [Pids -> Watchers]
  BY NoWatcherType DEF Init
<1>4. th \in [Threads -> ThreadStates]
  BY NoThreadType DEF Init
<1>5. ops \in 0..MaxOps /\ faults \in 0..MaxFaults
  BY LifecycleAssumption DEF Init
<1> QED
  BY <1>1, <1>2, <1>3, <1>4, <1>5 DEF Init, TypeOK, Watchers

(* Start keeps the types.                                                   *)
LEMMA StartType ==
  ASSUME TypeOK, NEW t \in Threads, Start(t)
  PROVE  TypeOK'
<1> DEFINE ProcStates == {"up", "asked", "off", "dying", "gone"}
<1>0. th[t] \in ThreadStates /\ th[t].view \in States /\ th[t].iso \in BOOLEAN
      /\ th[t].host \in Hosts /\ st \in States
  BY DEF TypeOK, ThreadStates
<1>f. \A f : f = faults + 1 /\ faults < MaxFaults => f \in 0..MaxFaults
  BY LifecycleAssumption DEF TypeOK
<1>1. CASE startLoad(t)
  <2>1. CASE st.running /\ isAlive(st.pid)
    BY <1>1, <2>1, FinishType DEF startLoad, TypeOK
  <2>2. CASE ~(st.running /\ isAlive(st.pid))
    <3> DEFINE pc == IF st.running THEN "clean" ELSE "prepare"
    <3>1. pc \in Pcs
      BY DEF Pcs
    <3>2. iso \in BOOLEAN
      BY DEF TypeOK
    <3>3. [th[t] EXCEPT !.pc = pc, !.view = st, !.iso = iso] \in ThreadStates
      BY Zenon, <1>0, <3>1, <3>2 DEF ThreadStates
    <3>4. th' = [th EXCEPT ![t].pc = pc, ![t].view = st, ![t].iso = iso]
      BY <1>1, <2>2 DEF startLoad
    <3>5. th' \in [Threads -> ThreadStates]
      BY <3>3, <3>4 DEF TypeOK
    <3> QED
      BY <1>1, <3>5 DEF startLoad, TypeOK
  <2> QED
    BY <2>1, <2>2
<1>2. CASE startClean(t)
  <2>1. cleanupStaleVM(th[t].view) \in States /\ EmptyState \in States
    BY Zenon, <1>0, StateOps DEF Reasons, Installs
  <2>2. st' \in States /\ lost' \subseteq Pids
    BY <1>2, <2>1, SaveType DEF startClean
  <2>3. th' \in [Threads -> ThreadStates]
    BY Zenon, <1>2, <2>1, ViewType DEF startClean, Pcs
  <2> QED
    BY <1>2, <2>2, <2>3 DEF startClean, TypeOK
<1>3. CASE startPrepare(t)
  <2> DEFINE s == th[t].view
             skip == SkipInstall /\ s.install = ""
             first == ~skip /\ s.install = "" /\ th[t].iso
             strip == skip \/ s.install = "ready"
             i == IF skip THEN "ready" ELSE IF first THEN "pending" ELSE s.install
             s2 == [s EXCEPT !.install = i]
  <2>1. i \in Installs
    BY Zenon, <1>0 DEF Installs, States
  <2>2. s2 \in States
    BY Zenon, <1>0, <2>1 DEF States
  <2>3. /\ IF skip \/ first THEN saveState(s.pid, s2) ELSE UNCHANGED <<st, lost>>
        /\ iso' = IF skip \/ (strip /\ th[t].iso) THEN FALSE ELSE iso
        /\ th' = [th EXCEPT ![t].pc = "launch", ![t].view = s2,
                            ![t].iso = th[t].iso /\ ~strip]
        /\ UNCHANGED <<proc, watcher, ops, faults, intent>>
    BY Zenon, <1>3 DEF startPrepare
  <2> HIDE DEF i, s2, strip, skip, first
  <2>4. st' \in States /\ lost' \subseteq Pids
    <3>1. CASE skip \/ first
      BY <2>2, <2>3, <3>1, SaveType
    <3>2. CASE ~(skip \/ first)
      BY <2>3, <3>2 DEF TypeOK
    <3> QED
      BY <3>1, <3>2
  <2>5. "launch" \in Pcs /\ (th[t].iso /\ ~strip) \in BOOLEAN
    BY DEF Pcs
  <2>6. [th[t] EXCEPT !.pc = "launch", !.view = s2, !.iso = th[t].iso /\ ~strip]
          \in ThreadStates
    BY Zenon, <1>0, <2>2, <2>5 DEF ThreadStates
  <2>7. th' \in [Threads -> ThreadStates]
    BY <2>3, <2>6 DEF TypeOK
  <2>8. iso' \in BOOLEAN
    BY Zenon, <2>3 DEF TypeOK
  <2> QED
    BY Zenon, <2>3, <2>4, <2>7, <2>8 DEF TypeOK
<1>4. CASE launch(t)
  <2>1. PICK p \in Unused :
          /\ th' = [th EXCEPT ![t].pc = "launched", ![t].pid = p]
          /\ proc' \in {proc, [proc EXCEPT ![p] = "up"]}
          /\ faults' = faults \/ (faults < MaxFaults /\ faults' = faults + 1)
    BY Zenon, <1>4 DEF launch
  <2>2. p \in Pids /\ "launched" \in Pcs
    BY DEF Unused, Pcs
  <2>3. [th[t] EXCEPT !.pc = "launched", !.pid = p] \in ThreadStates
    BY Zenon, <1>0, <2>2 DEF ThreadStates
  <2>4. th' \in [Threads -> ThreadStates]
    BY <2>1, <2>3 DEF TypeOK
  <2>5. proc' \in [Pids -> ProcStates]
    BY Zenon, <2>1, <2>2 DEF TypeOK
  <2>6. faults' \in 0..MaxFaults
    BY <2>1, <1>f DEF TypeOK
  <2> QED
    BY <1>4, <1>0, <2>4, <2>5, <2>6 DEF launch, TypeOK
<1>5. CASE launchFails(t)
  <2>1. th' \in [Threads -> ThreadStates]
    BY <1>5, FinishType DEF launchFails
  <2> QED
    BY <1>0, <1>5, <1>f, <2>1 DEF launchFails, TypeOK
<1>6. CASE startRecord(t)
  <2> DEFINE p == th[t].pid
             s == startedState(th[t].view, p)
  <2>1. s \in States
    BY Zenon, <1>0, StateOps DEF Reasons, Installs, ThreadStates
  <2>2. st' \in States /\ lost' \subseteq Pids
    BY <1>6, <2>1, SaveType DEF startRecord
  <2>3. th' \in [Threads -> ThreadStates]
    <3>1. CASE th[t].fg
      BY Zenon, <1>6, <2>1, <3>1, ViewType DEF startRecord, Pcs
    <3>2. CASE ~th[t].fg
      BY <1>6, <3>2, FinishType DEF startRecord
    <3> QED
      BY <3>1, <3>2
  <2>4. watcher' = watcher \/ (p \in Pids /\
          watcher' = [watcher EXCEPT ![p].pc = "watching", ![p].host = th[t].host])
    BY <1>6 DEF startRecord, isAlive
  <2>5. watcher' \in [Pids -> Watchers]
    <3>1. CASE watcher' = watcher
      BY <3>1 DEF TypeOK, Watchers
    <3>2. CASE p \in Pids /\
            watcher' = [watcher EXCEPT ![p].pc = "watching", ![p].host = th[t].host]
      <4>1. [watcher[p] EXCEPT !.pc = "watching", !.host = th[t].host] \in Watchers
        BY ZenonT(60), <1>0, <3>2 DEF TypeOK, Watchers
      <4> QED
        BY Zenon, <3>2, <4>1 DEF TypeOK, Watchers
    <3> QED
      BY <2>4, <3>1, <3>2
  <2> QED
    BY <1>6, <2>2, <2>3, <2>5 DEF startRecord, TypeOK, Watchers
<1>7. CASE foregroundEnds(t)
  <2>1. st' \in States
    BY Zenon, <1>0, <1>7 DEF foregroundEnds, States
  <2>2. lost' \subseteq Pids
    BY <1>7 DEF foregroundEnds, TypeOK, Live
  <2>3. th' \in [Threads -> ThreadStates]
    BY <1>7, FinishType DEF foregroundEnds
  <2>4. faults' \in 0..MaxFaults
    BY <1>7, <1>f DEF foregroundEnds, TypeOK
  <2> QED
    BY <1>7, <2>1, <2>2, <2>3, <2>4 DEF foregroundEnds, TypeOK
<1> QED
  BY <1>1, <1>2, <1>3, <1>4, <1>5, <1>6, <1>7 DEF Start

(* The saves that end an operation, and the commands of a session.          *)
LEMMA ThreadType ==
  ASSUME TypeOK, NEW t \in Threads,
         stopSave(t) \/ listClean(t) \/ persistPhase(t) \/ markReady(t)
  PROVE  TypeOK'
<1>0. /\ th[t].view \in States /\ th[t].host \in Hosts /\ th[t].reason \in Reasons
      /\ st \in States
  BY DEF TypeOK, ThreadStates
<1>1. /\ stoppedState(th[t].view, th[t].reason) \in States
      /\ cleanupStaleVM(th[t].view) \in States
      /\ readyState(th[t].view) \in States
  BY Zenon, <1>0, StateOps DEF Installs
<1>2. CASE stopSave(t)
  <2>1. st' \in States /\ lost' \subseteq Pids
    BY <1>1, <1>2, SaveType DEF stopSave
  <2>2. Fresh(afterStop(t), th[t].host) \in ThreadStates
    BY <1>0, AfterPcs, FreshThread
  <2>3. th' \in [Threads -> ThreadStates]
    BY <1>2, <2>2 DEF stopSave, TypeOK
  <2>4. proc' \in [Pids -> {"up", "asked", "off", "dying", "gone"}]
    BY <1>2, KillType DEF stopSave
  <2> QED
    BY <1>2, <2>1, <2>3, <2>4 DEF stopSave, TypeOK
<1>3. CASE listClean(t)
  <2>1. st' \in States /\ lost' \subseteq Pids
    BY <1>1, <1>3, SaveType DEF listClean
  <2> QED
    BY <1>3, <2>1, FinishType DEF listClean, TypeOK
<1>4. CASE persistPhase(t)
  <2>1. st' \in States /\ lost' \subseteq Pids
    BY <1>0, <1>4, SaveType DEF persistPhase
  <2> QED
    BY <1>4, <2>1, FinishType DEF persistPhase, TypeOK
<1>5. CASE markReady(t)
  <2>1. st' \in States /\ lost' \subseteq Pids
    BY <1>1, <1>5, SaveType DEF markReady
  <2> QED
    BY <1>5, <2>1, FinishType DEF markReady, TypeOK
<1> QED
  BY <1>2, <1>3, <1>4, <1>5

LEMMA SessionType ==
  ASSUME TypeOK, NEW s \in Sessions, Session(s)
  PROVE  TypeOK'
<1>0. s \in Threads /\ s \in Hosts /\ st \in States /\ th[s] \in ThreadStates
  BY DEF Threads, Hosts, TypeOK
<1>c. command(s) => ops' \in 0..MaxOps
  BY LifecycleAssumption DEF command, TypeOK
<1>1. CASE sessionStart(s)
  <2>1. PICK fg \in BOOLEAN : th' = [th EXCEPT ![s].pc = "start", ![s].fg = fg]
    BY Zenon, <1>1 DEF sessionStart
  <2>2. [th[s] EXCEPT !.pc = "start", !.fg = fg] \in ThreadStates
    BY Zenon, <1>0 DEF ThreadStates, Pcs
  <2>3. th' \in [Threads -> ThreadStates]
    BY Zenon, <2>1, <2>2 DEF TypeOK
  <2> QED
    BY <1>1, <1>c, <2>3 DEF sessionStart, TypeOK
<1>2. CASE Stop(s)
  <2>1. PICK force \in BOOLEAN : stopLoad(s, "user", force, "idle")
    BY <1>2 DEF Stop
  <2>2. "user" \in Reasons /\ "idle" \in Pcs
    BY DEF Reasons, Pcs
  <2>3. /\ th' \in [Threads -> ThreadStates]
        /\ proc' \in [Pids -> {"up", "asked", "off", "dying", "gone"}]
    BY <1>0, <2>1, <2>2, StopLoadType
  <2> QED
    BY <1>2, <1>c, <2>3 DEF Stop, TypeOK
<1>3. CASE List(s)
  BY Zenon, <1>0, <1>3, <1>c, ViewType DEF List, TypeOK, Pcs
<1>4. CASE touch(s)
  <2>1. PICK pc \in {"touching", "readying"} :
          th' = [th EXCEPT ![s].pc = pc, ![s].view = st]
    BY Zenon, <1>4 DEF touch
  <2>2. pc \in Pcs
    BY DEF Pcs
  <2>3. th' \in [Threads -> ThreadStates]
    BY Zenon, <1>0, <2>1, <2>2, ViewType
  <2> QED
    BY <1>4, <1>c, <2>3 DEF touch, TypeOK
<1>5. CASE sessionExit(s)
  BY <1>0, <1>5, ProcessEndsType DEF sessionExit, TypeOK, Watchers
<1> QED
  BY <1>1, <1>2, <1>3, <1>4, <1>5 DEF Session

LEMMA DaemonType ==
  ASSUME TypeOK, RunDaemon \/ hostReboot \/ powerCycleAfterGuestReset
  PROVE  TypeOK'
<1>0. /\ Daemon \in Threads /\ Reboot \in Threads /\ st \in States
      /\ th[Daemon].view \in States
  BY DEF Threads, TypeOK, ThreadStates
<1>1. /\ {"list", "idle", "start", "listClean", "haltList", "haltClean", "haltStop",
          "halted", "off"} \subseteq Pcs
      /\ {"host", "reboot"} \subseteq Reasons
      /\ {TRUE, FALSE} \subseteq BOOLEAN
  BY DEF Pcs, Reasons
<1>2. CASE daemonStart
  BY <1>0, <1>1, <1>2, GotoType DEF daemonStart, TypeOK
<1>3. CASE tick
  <2>1. \E pc \in Pcs : goto(Daemon, pc)
    BY <1>1, <1>3 DEF tick
  <2> QED
    BY <1>0, <1>3, <2>1, GotoType DEF tick, TypeOK
<1>4. CASE adopt
  <2>1. CASE st.running /\ ~isAlive(st.pid)
    BY Zenon, <1>0, <1>1, <1>4, <2>1, ViewType DEF adopt, TypeOK
  <2>2. CASE ~(st.running /\ ~isAlive(st.pid))
    <3>1. th' \in [Threads -> ThreadStates]
      BY <1>0, <1>1, <1>4, <2>2, GotoType DEF adopt
    <3>2. watcher' = watcher \/ (st.pid \in Pids /\ watcher' =
            [watcher EXCEPT ![st.pid].pc = "watching", ![st.pid].host = Daemon])
      BY <1>4, <2>2 DEF adopt, isAlive
    <3>3. watcher' \in [Pids -> Watchers]
      <4>1. CASE watcher' = watcher
        BY <4>1 DEF TypeOK, Watchers
      <4>2. CASE st.pid \in Pids /\ watcher' =
              [watcher EXCEPT ![st.pid].pc = "watching", ![st.pid].host = Daemon]
        <5>1. [watcher[st.pid] EXCEPT !.pc = "watching", !.host = Daemon] \in Watchers
          BY Zenon, <4>2 DEF TypeOK, Watchers, Hosts
        <5> QED
          BY Zenon, <4>2, <5>1 DEF TypeOK, Watchers
      <4> QED
        BY <3>2, <4>1, <4>2
    <3> QED
      BY <1>4, <3>1, <3>3 DEF adopt, TypeOK, Watchers
  <2> QED
    BY <2>1, <2>2
<1>5. CASE hostShutdown
  <2>1. faults' \in 0..MaxFaults
    BY <1>5, LifecycleAssumption DEF hostShutdown, TypeOK
  <2> QED
    BY <1>0, <1>1, <1>5, <2>1, GotoType DEF hostShutdown, TypeOK
<1>6. CASE StopAllRunning
  <2>1. PICK pc \in Pcs : th' = [th EXCEPT ![Daemon].view = st, ![Daemon].pc = pc]
    BY Zenon, <1>1, <1>6 DEF StopAllRunning
  <2>2. [th[Daemon] EXCEPT !.view = st, !.pc = pc] \in ThreadStates
    BY ZenonT(60), <1>0 DEF TypeOK, ThreadStates
  <2>3. th' \in [Threads -> ThreadStates]
    BY Zenon, <2>1, <2>2 DEF TypeOK
  <2> QED
    BY <1>6, <2>3 DEF StopAllRunning, TypeOK
<1>7. CASE haltClean
  <2>1. cleanupStaleVM(th[Daemon].view) \in States
    BY Zenon, <1>0, StateOps DEF Reasons, Installs
  <2>2. st' \in States /\ lost' \subseteq Pids
    BY <1>7, <2>1, SaveType DEF haltClean
  <2> QED
    BY <1>0, <1>1, <1>7, <2>2, GotoType DEF haltClean, TypeOK
<1>8. CASE haltStop
  <2>1. stopLoad(Daemon, "host", FALSE, "halted")
    BY Zenon, <1>8 DEF haltStop
  <2>2. /\ th' \in [Threads -> ThreadStates]
        /\ proc' \in [Pids -> {"up", "asked", "off", "dying", "gone"}]
    BY Zenon, <1>0, <1>1, <2>1, StopLoadType
  <2> QED
    BY <1>8, <2>2 DEF haltStop, TypeOK
<1>9. CASE hostReboot
  <2>1. watcher' \in [Pids -> Watchers]
    BY <1>9, NoWatcherType DEF hostReboot
  <2>2. th' \in [Threads -> ThreadStates]
    BY <1>9, NoThreadType DEF hostReboot
  <2>3. /\ proc' \in [Pids -> {"up", "asked", "off", "dying", "gone"}]
        /\ lost' \subseteq Pids
    BY <1>9 DEF hostReboot
  <2> QED
    BY <1>9, <2>1, <2>2, <2>3 DEF hostReboot, TypeOK, Watchers
<1>10. CASE powerCycleAfterGuestReset
  <2>1. stopLoad(Reboot, "reboot", TRUE, "off")
    BY Zenon, <1>10 DEF powerCycleAfterGuestReset
  <2>2. /\ th' \in [Threads -> ThreadStates]
        /\ proc' \in [Pids -> {"up", "asked", "off", "dying", "gone"}]
    BY Zenon, <1>0, <1>1, <2>1, StopLoadType
  <2> QED
    BY <1>10, <2>2 DEF powerCycleAfterGuestReset, TypeOK
<1> QED
  BY <1>2, <1>3, <1>4, <1>5, <1>6, <1>7, <1>8, <1>9, <1>10 DEF RunDaemon

LEMMA WatcherType ==
  ASSUME TypeOK, NEW p \in Pids, watchVMConnection(p)
  PROVE  TypeOK'
<1>0. watcher[p] \in Watchers /\ watcher[p].view \in States /\ st \in States
  BY DEF TypeOK, Watchers
<1>n. [watcher EXCEPT ![p] = NoWatcher] \in [Pids -> Watchers]
  BY NoWatcherType DEF TypeOK, Watchers
<1>1. CASE handleShutdownEvent(p)
  <2>1. << >> \in Seq({"shutdown", "reset"})
    OBVIOUS
  <2>2. [watcher[p] EXCEPT !.pc = "recording", !.view = st, !.events = << >>]
          \in Watchers
    BY Zenon, <1>0, <2>1 DEF Watchers
  <2>3. watcher' \in [Pids -> Watchers]
    BY <1>1, <2>2 DEF handleShutdownEvent, TypeOK, Watchers
  <2> QED
    BY <1>1, <2>3 DEF handleShutdownEvent, TypeOK, Watchers
<1>2. CASE recordGuestShutdown(p)
  <2>1. guestShutdownState(watcher[p].view) \in States
    BY Zenon, <1>0, StateOps DEF Reasons, Installs
  <2>2. st' \in States /\ lost' \subseteq Pids
    BY <1>2, <2>1, SaveType DEF recordGuestShutdown
  <2> QED
    BY <1>2, <1>n, <2>2 DEF recordGuestShutdown, TypeOK, Watchers
<1>3. CASE handleResetEvent(p)
  <2>1. CASE shouldPowerCycleOnGuestReset(st)
    <3>1. watcher[p].host \in Hosts /\ "reboot" \in Pcs /\ Reboot \in Threads
      BY <1>0 DEF Watchers, Pcs, Threads
    <3>2. [th[Reboot] EXCEPT !.pc = "reboot", !.host = watcher[p].host] \in ThreadStates
      BY Zenon, <3>1 DEF TypeOK, ThreadStates
    <3>3. th' \in [Threads -> ThreadStates]
      BY Zenon, <1>3, <2>1, <3>2 DEF handleResetEvent, TypeOK
    <3> QED
      BY Zenon, <1>3, <1>n, <2>1, <3>3 DEF handleResetEvent, TypeOK, Watchers
  <2>2. CASE ~shouldPowerCycleOnGuestReset(st)
    <3>1. watcher[p].events \in Seq({"shutdown", "reset"}) /\ watcher[p].events # << >>
      BY <1>0, <1>3 DEF Watchers, handleResetEvent, pending
    <3>2. Tail(watcher[p].events) \in Seq({"shutdown", "reset"})
      BY <3>1
    <3>3. [watcher[p] EXCEPT !.events = Tail(watcher[p].events)] \in Watchers
      BY SMTT(30), <1>0, <3>2 DEF Watchers
    <3>4. watcher' \in [Pids -> Watchers]
      BY Zenon, <1>3, <2>2, <3>3 DEF handleResetEvent, TypeOK, Watchers
    <3> QED
      BY <1>3, <2>2, <3>4 DEF handleResetEvent, TypeOK, Watchers
  <2> QED
    BY <2>1, <2>2
<1>4. CASE ownerDone(p)
  BY <1>4, <1>n DEF ownerDone, TypeOK, Watchers
<1> QED
  BY <1>1, <1>2, <1>3, <1>4 DEF watchVMConnection

LEMMA QemuType ==
  ASSUME TypeOK, NEW p \in Pids, Qemu(p)
  PROVE  TypeOK'
<1>f. fault => faults' \in 0..MaxFaults
  BY LifecycleAssumption DEF fault, TypeOK
<1>p. \A s \in {"off", "gone"} :
        [proc EXCEPT ![p] = s] \in [Pids -> {"up", "asked", "off", "dying", "gone"}]
  BY DEF TypeOK
<1>1. CASE guestPoweroff(p)
  <2>1. watcher' \in [Pids -> Watchers]
    BY <1>1, EmitType DEF guestPoweroff
  <2> QED
    BY <1>1, <1>f, <1>p, <2>1 DEF guestPoweroff, TypeOK, Watchers
<1>2. CASE honourPowerdown(p)
  <2>1. watcher' \in [Pids -> Watchers]
    BY <1>2, EmitType DEF honourPowerdown
  <2> QED
    BY <1>2, <1>p, <2>1 DEF honourPowerdown, TypeOK, Watchers
<1>3. CASE guestReset(p)
  <2>1. watcher' \in [Pids -> Watchers]
    BY <1>3, EmitType DEF guestReset
  <2> QED
    BY <1>3, <1>f, <2>1 DEF guestReset, TypeOK, Watchers
<1>4. CASE exit(p)
  <2>1. faults' \in 0..MaxFaults
    BY <1>4, <1>f DEF exit, TypeOK
  <2> QED
    BY <1>4, <1>p, <2>1 DEF exit, TypeOK
<1> QED
  BY <1>1, <1>2, <1>3, <1>4 DEF Qemu

LEMMA TypeStep == TypeOK /\ [Next]_vars => TypeOK'
<1> SUFFICES ASSUME TypeOK, [Next]_vars PROVE TypeOK'
  OBVIOUS
<1>1. CASE UNCHANGED vars
  BY <1>1 DEF vars, TypeOK
<1>2. ASSUME NEW h \in Hosts, crashVee(h) PROVE TypeOK'
  <2>1. faults' \in 0..MaxFaults
    BY <1>2, LifecycleAssumption DEF crashVee, TypeOK
  <2> QED
    BY <1>2, <2>1, ProcessEndsType DEF crashVee, TypeOK, Watchers
<1> QED
  BY <1>1, <1>2, StartType, ThreadType, SessionType, DaemonType, WatcherType, QemuType
     DEF Next, Thread

(* The saved record, every loaded copy of it, the processes and the         *)
(* watchers keep their types.                                               *)
THEOREM TypeCorrect == Spec => []TypeOK
BY InitType, TypeStep, PTL DEF Spec

=============================================================================
