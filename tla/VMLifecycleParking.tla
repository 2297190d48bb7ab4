------------------------- MODULE VMLifecycleParking -------------------------
(***************************************************************************)
(* A parked VM stays parked: ParkedStays holds of VMLifecycle, for any sets *)
(* of pids and sessions and any bounds.                                     *)
(***************************************************************************)
EXTENDS VMLifecycleTypes

(* ParkedStays.                                                             *)

LEMMA ParkedMove ==
  ASSUME TypeOK, Parked, st'.desired = "stopped", proc' = proc,
         \A p \in Pids : watcher'[p].events \in {watcher[p].events, << >>},
         \A u \in Threads : th'[u] = th[u] \/ ThreadParked(u)'
  PROVE  Parked'
<1>1. \A p \in Pids : \A i \in DOMAIN watcher'[p].events :
                         watcher'[p].events[i] # "reset"
  BY DEF Parked
<1>2. \A t \in Threads : ThreadParked(t)'
  BY DEF Parked, ThreadParked
<1> QED
  BY <1>1, <1>2 DEF Parked

(* Where a thread may be while the VM is parked and it holds no record.     *)
Resting == {"off", "idle", "list", "haltList", "halted"}

LEMMA RestingParked ==
  ASSUME NEW t \in Threads, th'[t].pc \in Resting
  PROVE  ThreadParked(t)'
BY DEF Resting, ThreadParked

LEMMA FinishParked ==
  ASSUME TypeOK, NEW t \in Threads, finish(t)
  PROVE  \A u \in Threads : th'[u] = th[u] \/ ThreadParked(u)'
<1>0. th[t].host \in Hosts
  BY DEF TypeOK, ThreadStates
<1>1. th'[t] = Fresh(after(t), th[t].host)
  BY DEF finish, TypeOK
<1>2. th'[t].pc \in Resting
  BY <1>0, <1>1, FreshThread, AfterPcs DEF Resting
<1>3. \A u \in Threads \ {t} : th'[u] = th[u]
  BY DEF finish, TypeOK
<1> QED
  BY <1>2, <1>3, RestingParked

LEMMA ParkedSave ==
  ASSUME TypeOK, Parked, NEW t \in Threads, NEW known, NEW s, saveState(known, s),
         s.desired = "stopped", finish(t), UNCHANGED <<proc, watcher>>
  PROVE  Parked'
<1>1. st'.desired = "stopped"
  BY DEF saveState
<1>2. \A u \in Threads : th'[u] = th[u] \/ ThreadParked(u)'
  BY FinishParked
<1> QED
  BY <1>1, <1>2, ParkedMove

LEMMA ParkedSaves ==
  ASSUME TypeOK, Parked, NEW t \in Threads, Thread(t)
  PROVE  Parked'
<1>0. /\ ThreadParked(t) /\ th[t].view \in States /\ th[t].reason \in Reasons
      /\ th[t].host \in Hosts
  BY DEF Parked, TypeOK, ThreadStates
<1>1. ~Start(t)
  BY Zenon, <1>0 DEF ThreadParked, Start, startLoad, startClean, startPrepare, launch,
     launchFails, startRecord, foregroundEnds
<1>2. CASE stopSave(t)
  <2>1. t \in Sessions /\ th[t].reason = "user"
    BY <1>0, <1>2 DEF stopSave, ThreadParked
  <2>2. st'.desired = "stopped"
    BY <1>2, <2>1 DEF stopSave, saveState, stoppedState, desiredStateForReason, EmptyState
  <2>3. proc' = proc
    BY Zenon, <1>2 DEF stopSave, kill, isAlive, Parked
  <2>4. afterStop(t) = "idle" /\ "idle" \in Pcs
    BY <2>1, LifecycleAssumption DEF afterStop, Pcs
  <2>5. th'[t].pc \in Resting /\ \A u \in Threads \ {t} : th'[u] = th[u]
    BY <1>0, <1>2, <2>4, FreshThread DEF stopSave, TypeOK, Resting
  <2>6. watcher' = watcher
    BY <1>2 DEF stopSave
  <2> QED
    BY <2>2, <2>3, <2>5, <2>6, RestingParked, ParkedMove
<1>3. CASE listClean(t)
  <2>1. cleanupStaleVM(th[t].view).desired = "stopped"
    BY <1>0, <1>3 DEF listClean, ThreadParked, cleanupStaleVM, EmptyState
  <2> QED
    BY <1>3, <2>1, ParkedSave DEF listClean
<1>4. CASE persistPhase(t)
  <2>1. th[t].view.desired = "stopped"
    BY <1>0, <1>4 DEF persistPhase, ThreadParked
  <2> QED
    BY <1>4, <2>1, ParkedSave DEF persistPhase
<1>5. CASE markReady(t)
  <2>1. readyState(th[t].view).desired = "stopped"
    BY <1>0, <1>5 DEF markReady, ThreadParked, readyState, States
  <2> QED
    BY <1>5, <2>1, ParkedSave DEF markReady
<1> QED
  BY <1>1, <1>2, <1>3, <1>4, <1>5 DEF Thread

LEMMA ParkedEnds ==
  ASSUME TypeOK, Parked, NEW h \in Hosts, processEnds(h)
  PROVE  Parked'
<1>1. UNCHANGED <<st, proc>>
  BY DEF processEnds
<1>2. \A p \in Pids : watcher'[p].events \in {watcher[p].events, << >>}
  BY DEF processEnds, NoWatcher
<1>3. \A t \in Threads : th'[t] = th[t] \/ th'[t].pc \in Resting
  BY NoThreadType DEF processEnds, Resting
<1> QED
  BY <1>1, <1>2, <1>3, RestingParked, ParkedMove DEF Parked

LEMMA ParkedSession ==
  ASSUME TypeOK, Parked, NEW s \in Sessions, Session(s), ~sessionStart(s)
  PROVE  Parked'
<1>0. s \in Threads /\ s \in Hosts /\ st.desired = "stopped"
  BY DEF Threads, Hosts, Parked
<1>1. CASE Stop(s)
  <2>1. PICK force \in BOOLEAN : stopLoad(s, "user", force, "idle")
    BY <1>1 DEF Stop
  <2>2. UNCHANGED <<st, watcher>>
    BY <1>1 DEF Stop
  <2>3. proc' = proc
    BY <2>1 DEF stopLoad, kill, isAlive, Parked
  <2>4. /\ \A u \in Threads \ {s} : th'[u] = th[u]
        /\ \/ th'[s].pc = "idle"
           \/ th'[s].pc = "stopping" /\ th'[s].reason = "user"
    BY <1>0, <2>1 DEF stopLoad, goto, TypeOK, ThreadStates
  <2>5. ThreadParked(s)'
    BY <2>4 DEF ThreadParked
  <2> QED
    BY <1>0, <2>2, <2>3, <2>4, <2>5, ParkedMove
<1>2. CASE List(s)
  <2>1. /\ UNCHANGED <<st, proc, watcher>>
        /\ \A u \in Threads \ {s} : th'[u] = th[u]
        /\ th'[s].pc = "listClean" /\ th'[s].view = st
    BY <1>0, <1>2 DEF List, TypeOK, ThreadStates
  <2>2. ThreadParked(s)'
    BY <1>0, <2>1 DEF ThreadParked
  <2> QED
    BY <1>0, <2>1, <2>2, ParkedMove
<1>3. CASE touch(s)
  <2>1. /\ UNCHANGED <<st, proc, watcher>>
        /\ \A u \in Threads \ {s} : th'[u] = th[u]
        /\ th'[s].pc \in {"touching", "readying"} /\ th'[s].view = st
    BY <1>0, <1>3 DEF touch, TypeOK, ThreadStates
  <2>2. ThreadParked(s)'
    BY <1>0, <2>1 DEF ThreadParked
  <2> QED
    BY <1>0, <2>1, <2>2, ParkedMove
<1>4. CASE sessionExit(s)
  BY <1>0, <1>4, ParkedEnds DEF sessionExit
<1> QED
  BY <1>1, <1>2, <1>3, <1>4 DEF Session

LEMMA ParkedDaemon ==
  ASSUME TypeOK, Parked, RunDaemon \/ hostReboot \/ powerCycleAfterGuestReset
  PROVE  Parked'
<1>0. /\ Daemon \in Threads /\ Reboot \in Threads /\ st.desired = "stopped"
      /\ ThreadParked(Daemon) /\ ThreadParked(Reboot)
  BY DEF Threads, Parked
<1>1. \A p : ~isAlive(p)
  BY Zenon DEF Parked, isAlive
<1>2. ASSUME NEW pc \in Resting, goto(Daemon, pc), st'.desired = "stopped",
             UNCHANGED <<proc, watcher>>
      PROVE  Parked'
  <2>1. th'[Daemon].pc = pc /\ \A u \in Threads \ {Daemon} : th'[u] = th[u]
    BY <1>0, <1>2 DEF goto, TypeOK, ThreadStates
  <2> QED
    BY <1>0, <1>2, <2>1, RestingParked, ParkedMove
<1>3. CASE daemonStart
  BY <1>0, <1>2, <1>3 DEF daemonStart, Resting
<1>4. CASE tick
  BY <1>0, <1>2, <1>4 DEF tick, shouldDaemonStart, Resting
<1>5. CASE adopt
  <2>1. CASE st.running
    <3>1. /\ UNCHANGED <<st, proc, watcher>>
          /\ \A u \in Threads \ {Daemon} : th'[u] = th[u]
          /\ th'[Daemon].pc = "listClean" /\ th'[Daemon].view = st
      BY <1>0, <1>1, <1>5, <2>1 DEF adopt, TypeOK, ThreadStates
    <3>2. ThreadParked(Daemon)'
      BY <1>0, <3>1 DEF ThreadParked
    <3> QED
      BY <1>0, <3>1, <3>2, ParkedMove
  <2>2. CASE ~st.running
    BY <1>0, <1>2, <1>5, <2>2 DEF adopt, Resting
  <2> QED
    BY <2>1, <2>2
<1>6. CASE hostShutdown
  BY <1>0, <1>2, <1>6 DEF hostShutdown, Resting
<1>7. CASE StopAllRunning
  <2>1. /\ UNCHANGED <<st, proc, watcher>>
        /\ \A u \in Threads \ {Daemon} : th'[u] = th[u]
        /\ th'[Daemon].pc \in {"halted", "haltClean"} /\ th'[Daemon].view = st
    BY <1>0, <1>1, <1>7 DEF StopAllRunning, TypeOK, ThreadStates
  <2>2. ThreadParked(Daemon)'
    BY <1>0, <2>1 DEF ThreadParked
  <2> QED
    BY <1>0, <2>1, <2>2, ParkedMove
<1>8. CASE haltClean
  <2>1. cleanupStaleVM(th[Daemon].view).desired = "stopped"
    BY <1>0, <1>8 DEF haltClean, ThreadParked, cleanupStaleVM, EmptyState
  <2> QED
    BY <1>2, <1>8, <2>1 DEF haltClean, saveState, Resting
<1>9. CASE hostReboot
  <2>1. /\ st' = st /\ \A p \in Pids : proc'[p] = "gone" /\ watcher'[p].events = << >>
        /\ \A t \in Threads : th'[t].pc \in Resting
    BY <1>9, NoThreadType DEF hostReboot, NoWatcher, Resting
  <2> QED
    BY <1>0, <2>1, RestingParked DEF Parked
<1>10. ~haltStop /\ ~powerCycleAfterGuestReset
  BY Zenon, <1>0 DEF haltStop, powerCycleAfterGuestReset, ThreadParked
<1> QED
  BY <1>3, <1>4, <1>5, <1>6, <1>7, <1>8, <1>9, <1>10 DEF RunDaemon

LEMMA ParkedWatcher ==
  ASSUME TypeOK, Parked, NEW p \in Pids, watchVMConnection(p)
  PROVE  Parked'
<1>0. st.desired = "stopped" /\ watcher[p].view \in States
      /\ watcher[p].events \in Seq({"shutdown", "reset"})
  BY DEF Parked, TypeOK
<1>1. CASE handleShutdownEvent(p)
  BY <1>0, <1>1, ParkedMove DEF handleShutdownEvent, TypeOK
<1>2. CASE recordGuestShutdown(p)
  <2>1. guestShutdownState(watcher[p].view).desired = "stopped"
    BY <1>0 DEF guestShutdownState, States
  <2>2. UNCHANGED <<proc, th>> /\ st'.desired = "stopped"
    BY Zenon, <1>2, <2>1 DEF recordGuestShutdown, saveState
  <2>3. \A q \in Pids : watcher'[q].events \in {watcher[q].events, << >>}
    BY <1>2 DEF recordGuestShutdown, NoWatcher, TypeOK
  <2> QED
    BY <2>2, <2>3, ParkedMove
<1>3. ~handleResetEvent(p)
  <2>1. watcher[p].events # << >> => 1 \in DOMAIN watcher[p].events
    BY <1>0
  <2> QED
    BY <1>0, <2>1 DEF handleResetEvent, pending, Parked
<1>4. CASE ownerDone(p)
  BY Zenon, <1>0, <1>4, ParkedMove DEF ownerDone, NoWatcher, TypeOK
<1> QED
  BY <1>1, <1>2, <1>3, <1>4 DEF watchVMConnection

(* A parked VM stays parked until a user starts it, whatever the daemon,    *)
(* late watchers, other commands, crashes and host reboots do.              *)
THEOREM ParkingHolds == Spec => ParkedStays
<1>1. TypeOK /\ [Next]_vars =>
        [Parked => Parked' \/ \E s \in Sessions : sessionStart(s)]_vars
  <2> SUFFICES ASSUME TypeOK, Next, Parked, ~(\E s \in Sessions : sessionStart(s))
               PROVE  Parked'
    OBVIOUS
  <2>1. ASSUME NEW h \in Hosts, crashVee(h) PROVE Parked'
    BY <2>1, ParkedEnds DEF crashVee
  <2>2. ASSUME NEW p \in Pids, Qemu(p) PROVE Parked'
    <3>1. proc[p] = "gone"
      BY DEF Parked
    <3>2. FALSE
      BY <2>2, <3>1 DEF Qemu, guestPoweroff, honourPowerdown, guestReset, exit, Live
    <3> QED
      BY <3>2
  <2> QED
    BY <2>1, <2>2, ParkedSaves, ParkedSession, ParkedDaemon, ParkedWatcher DEF Next
<1> QED
  BY <1>1, TypeCorrect, PTL DEF Spec, ParkedStays

=============================================================================
