------------------------- MODULE VMLifecycleOrphans -------------------------
(***************************************************************************)
(* vee loses no live guest in an unaccounted way: NoOrphan is an invariant  *)
(* of VMLifecycle, for any sets of pids and sessions and any bounds.        *)
(***************************************************************************)
EXTENDS VMLifecycleTypes

(* NoOrphan.  It is not inductive: a save that replaces the record of the   *)
(* process the writer itself had loaded is harmless only because of what    *)
(* the writer's loaded record says of that process.                         *)

(* Process p is not running a guest, or is one of those known to be lost.   *)
Settled(p) == Live(p) => p \in lost

(* A thread at one of these steps has found its process dead, or no process *)
(* recorded as running.                                                     *)
FoundDown == {"clean", "listClean", "haltClean", "prepare", "launch", "launched"}

ThreadAccounted(t) ==
  /\ th[t].pc \in FoundDown => Settled(th[t].view.pid)
  /\ th[t].pc \in {"touching", "readying"} => th[t].view.running
  /\ th[t].pc = "foreground" => th[t].view.pid = th[t].pid

WatcherAccounted(p) ==
  watcher[p].pc = "recording" /\ ~watcher[p].view.running
    => Settled(watcher[p].view.pid)

Accounted ==
  /\ \A h \in Hosts : th[h].host = h
  /\ ~st.running => Settled(st.pid)
  /\ \A t \in Threads : ThreadAccounted(t)
  /\ \A p \in Pids : WatcherAccounted(p)

IInv == TypeOK /\ NoOrphan /\ Accounted

(* A step in which no process comes to life keeps NoOrphan if it loses      *)
(* neither the recorded process, nor a lost one, nor a launched one.        *)
LEMMA CalmStep ==
  ASSUME IInv,
         \A p \in Pids : Live(p)' => Live(p),
         \A p \in Pids : Live(p)' /\ p \in lost => p \in lost',
         \A p \in Pids : Live(p)' /\ st.running /\ st.pid = p =>
                           (st'.running /\ st'.pid = p) \/ p \in lost',
         \A p \in Pids, t \in Threads :
           Live(p)' /\ th[t].pc = "launched" /\ th[t].pid = p =>
             \/ th'[t].pc = "launched" /\ th'[t].pid = p
             \/ st'.running /\ st'.pid = p
             \/ p \in lost'
  PROVE  /\ NoOrphan'
         /\ \A p : Settled(p) => Settled(p)'
<1>1. NoOrphan'
  BY DEF IInv, NoOrphan
<1>2. ASSUME NEW p, Settled(p) PROVE Settled(p)'
  <2>1. Live(p)' => p \in Pids
    BY DEF Live
  <2> QED
    BY <1>2, <2>1 DEF Settled
<1> QED
  BY <1>1, <1>2

(* A save keeps NoOrphan when the process its writer knew of is settled, or *)
(* the saved record still names it.                                         *)
LEMMA SaveStep ==
  ASSUME IInv, NEW known, NEW s \in States, saveState(known, s),
         \A p \in Pids : Live(p)' => Live(p),
         \A p \in Pids : Live(p)' /\ p \in {known, s.pid} =>
                           (s.running /\ s.pid = p) \/ p \in lost,
         \A p \in Pids, t \in Threads :
           Live(p)' /\ th[t].pc = "launched" /\ th[t].pid = p =>
             \/ th'[t].pc = "launched" /\ th'[t].pid = p
             \/ s.running /\ s.pid = p
  PROVE  /\ NoOrphan'
         /\ \A p : Settled(p) => Settled(p)'
         /\ (~st.running => Settled(st.pid))'
<1>1. st' = s /\ lost \subseteq lost'
  BY DEF saveState
<1>2. \A p \in Pids : Live(p)' /\ st.running /\ st.pid = p =>
                        (st'.running /\ st'.pid = p) \/ p \in lost'
  <2> SUFFICES ASSUME NEW p \in Pids, Live(p)', st.running, st.pid = p
               PROVE  (st'.running /\ st'.pid = p) \/ p \in lost'
    OBVIOUS
  <2>1. CASE p \in {known, s.pid}
    BY <1>1, <2>1
  <2>2. CASE p \notin {known, s.pid}
    BY <2>2 DEF saveState
  <2> QED
    BY <2>1, <2>2
<1>3. NoOrphan' /\ \A p : Settled(p) => Settled(p)'
  BY <1>1, <1>2, CalmStep
<1>4. (~st.running => Settled(st.pid))'
  <2>1. \A p \in Pids : Live(p)' /\ p = s.pid /\ ~s.running => p \in lost'
    BY <1>1
  <2> QED
    BY <1>1, <2>1 DEF Settled, Live
<1> QED
  BY <1>3, <1>4

(* What a step leaves alone stays accounted for.                            *)
LEMMA OthersStay ==
  ASSUME IInv, \A p : Settled(p) => Settled(p)'
  PROVE  /\ \A u \in Threads : th'[u] = th[u] =>
              ThreadAccounted(u)' /\ (u \in Hosts => th'[u].host = u)
         /\ \A p \in Pids : watcher'[p] = watcher[p] => WatcherAccounted(p)'
         /\ st' = st => ((~st.running => Settled(st.pid))')
BY DEF IInv, Accounted, ThreadAccounted, WatcherAccounted, Settled, Live

(* A thread that holds no record it will save is accounted for.             *)
Careless == Pcs \ (FoundDown \cup {"touching", "readying", "foreground"})

LEMMA CarelessThread ==
  ASSUME NEW t \in Threads, th'[t].pc \in Careless
  PROVE  ThreadAccounted(t)'
BY DEF Careless, ThreadAccounted

LEMMA CarelessPcs ==
  {"off", "idle", "start", "stopping", "reboot", "list", "haltList", "haltStop",
   "halted"} \subseteq Careless
BY DEF Careless, Pcs, FoundDown

LEMMA InitAccounted == Init => NoOrphan /\ Accounted
<1> SUFFICES ASSUME Init PROVE NoOrphan /\ Accounted
  OBVIOUS
<1>1. \A p : ~Live(p)
  BY Zenon DEF Init, Live
<1>2. \A h \in Hosts : th[h].host = h
  BY NoThreadType DEF Init, Hosts, Threads
<1>3. \A t \in Threads : th[t].pc \in {"idle", "off"}
  BY NoThreadType DEF Init
<1> QED
  BY <1>1, <1>2, <1>3 DEF NoOrphan, Accounted, ThreadAccounted, WatcherAccounted,
     Settled, FoundDown

(* The thread t that a step of its own moved, and the others.               *)
LEMMA OneThread ==
  ASSUME IInv, \A p : Settled(p) => Settled(p)', NEW t \in Threads,
         \A u \in Threads \ {t} : th'[u] = th[u],
         t \in Hosts => th'[t].host = th[t].host, ThreadAccounted(t)',
         \A p \in Pids : WatcherAccounted(p)',
         (~st.running => Settled(st.pid))'
  PROVE  Accounted'
<1>1. \A u \in Threads : ThreadAccounted(u)'
  BY OthersStay
<1>2. \A h \in Hosts : th'[h].host = h
  BY OthersStay DEF IInv, Accounted, Hosts, Threads
<1> QED
  BY <1>1, <1>2 DEF Accounted

(* A thread saves a record with nothing or with its own process in it.      *)
LEMMA ThreadSave ==
  ASSUME IInv, NEW t \in Threads, NEW s \in States,
         saveState(th[t].view.pid, s), UNCHANGED <<proc, watcher>>,
         \A u \in Threads \ {t} : th'[u] = th[u],
         th'[t].host = th[t].host, th[t].pc # "launched", ThreadAccounted(t)',
         \/ Settled(th[t].view.pid) /\ s.pid \in {NoPid, th[t].view.pid}
         \/ s.running /\ s.pid = th[t].view.pid
  PROVE  NoOrphan' /\ Accounted'
<1>1. \A p \in Pids : Live(p)' => Live(p)
  BY DEF Live
<1>2. \A p \in Pids : Live(p)' /\ p \in {th[t].view.pid, s.pid} =>
                        (s.running /\ s.pid = p) \/ p \in lost
  BY <1>1, PidAssumption DEF Settled
<1>3. \A p \in Pids, u \in Threads :
        Live(p)' /\ th[u].pc = "launched" /\ th[u].pid = p =>
          \/ th'[u].pc = "launched" /\ th'[u].pid = p
          \/ s.running /\ s.pid = p
  OBVIOUS
<1>4. /\ NoOrphan' /\ \A p : Settled(p) => Settled(p)'
      /\ (~st.running => Settled(st.pid))'
  BY <1>1, <1>2, <1>3, SaveStep
<1> QED
  BY <1>4, OthersStay, OneThread

LEMMA FinishAccounted ==
  ASSUME TypeOK, NEW t \in Threads, finish(t)
  PROVE  /\ \A u \in Threads \ {t} : th'[u] = th[u]
         /\ th'[t].host = th[t].host
         /\ ThreadAccounted(t)'
<1>0. th[t].host \in Hosts
  BY DEF TypeOK, ThreadStates
<1>1. th'[t] = Fresh(after(t), th[t].host)
  BY DEF finish, TypeOK
<1>2. th'[t].pc = after(t) /\ th'[t].host = th[t].host
  BY <1>0, <1>1, FreshThread, AfterPcs
<1>3. ThreadAccounted(t)'
  BY <1>2, AfterPcs, CarelessPcs, CarelessThread
<1> QED
  BY <1>2, <1>3 DEF finish, TypeOK

LEMMA StartAccounted ==
  ASSUME IInv, NEW t \in Threads, Start(t)
  PROVE  NoOrphan' /\ Accounted'
<1>0. /\ TypeOK /\ TypeOK' /\ th[t] \in ThreadStates /\ th[t].view \in States
      /\ th[t].host \in Hosts /\ st \in States /\ ThreadAccounted(t)
      /\ NoPid \notin Pids
  BY StartType, PidAssumption DEF IInv, TypeOK, ThreadStates, Accounted
<1>g. finish(t) => /\ \A u \in Threads \ {t} : th'[u] = th[u]
                   /\ th'[t].host = th[t].host /\ ThreadAccounted(t)'
  BY <1>0, FinishAccounted
<1>1. CASE startLoad(t)
  <2>1. /\ UNCHANGED <<st, proc, watcher, lost>>
        /\ \A u \in Threads \ {t} : th'[u] = th[u]
        /\ th'[t].host = th[t].host
        /\ th[t].pc = "start"
    BY <1>0, <1>1, <1>g DEF startLoad, TypeOK, ThreadStates
  <2>2. NoOrphan' /\ \A p : Settled(p) => Settled(p)'
    BY <2>1, CalmStep DEF Live
  <2>3. ThreadAccounted(t)'
    <3>1. CASE st.running /\ isAlive(st.pid)
      BY <1>1, <1>g, <3>1 DEF startLoad
    <3>2. CASE ~(st.running /\ isAlive(st.pid))
      <4>1. Settled(st.pid)
        BY <3>2 DEF IInv, Accounted, Settled, Live, isAlive
      <4>2. th'[t].view = st /\ th'[t].pc \in {"clean", "prepare"}
        BY <1>0, <1>1, <3>2 DEF startLoad, TypeOK, ThreadStates
      <4>3. Settled(st.pid)'
        BY <2>1, <4>1 DEF Settled, Live
      <4> QED
        BY <2>1, <4>2, <4>3 DEF ThreadAccounted
    <3> QED
      BY <3>1, <3>2
  <2> QED
    BY <2>1, <2>2, <2>3, OthersStay, OneThread
<1>2. CASE startClean(t)
  <2> DEFINE s == cleanupStaleVM(th[t].view)
  <2>0. s \in States
    BY Zenon, <1>0, StateOps DEF Reasons, Installs
  <2>1. s \in States /\ s.pid = NoPid
    BY <2>0 DEF cleanupStaleVM, EmptyState
  <2>2. /\ UNCHANGED <<proc, watcher>>
        /\ \A u \in Threads \ {t} : th'[u] = th[u]
        /\ th'[t].host = th[t].host /\ th'[t].view = EmptyState
        /\ th[t].pc = "clean" /\ saveState(th[t].view.pid, s)
        /\ th'[t].pc = "prepare"
    BY <1>0, <1>2 DEF startClean, TypeOK, ThreadStates
  <2>3. Settled(th[t].view.pid)
    BY <1>0, <2>2 DEF ThreadAccounted, FoundDown
  <2> HIDE DEF s
  <2>4. ThreadAccounted(t)'
    <3>0. EmptyState.pid = NoPid
      BY DEF EmptyState
    <3>1. th'[t].view.pid = NoPid
      BY <2>2, <3>0
    <3> QED
      BY <1>0, <2>2, <3>1 DEF ThreadAccounted, Settled, Live
  <2> QED
    BY <2>1, <2>2, <2>3, <2>4, ThreadSave
<1>3. CASE startPrepare(t)
  <2> DEFINE s == th[t].view
             s2 == th'[t].view
  <2> DEFINE skip == SkipInstall /\ s.install = ""
             first == ~skip /\ s.install = "" /\ th[t].iso
             strip == skip \/ s.install = "ready"
             i == IF skip THEN "ready" ELSE IF first THEN "pending" ELSE s.install
             b == th[t].iso /\ ~strip
  <2>0. /\ th' = [th EXCEPT ![t].pc = "launch", ![t].iso = b,
                            ![t].view = [s EXCEPT !.install = i]]
        /\ saveState(s.pid, [s EXCEPT !.install = i]) \/ UNCHANGED <<st, lost>>
    BY ZenonT(60), <1>3 DEF startPrepare
  <2> HIDE DEF i, b
  <2>a. s2 = [s EXCEPT !.install = i]
    BY <1>0, <2>0 DEF TypeOK, ThreadStates
  <2>b. s2 \in States
    BY <1>0 DEF TypeOK, ThreadStates
  <2>1. /\ UNCHANGED <<proc, watcher>>
        /\ \A u \in Threads \ {t} : th'[u] = th[u]
        /\ th'[t].host = th[t].host /\ th[t].pc = "prepare"
        /\ th'[t].pc = "launch"
        /\ saveState(s.pid, s2) \/ UNCHANGED <<st, lost>>
        /\ s2 \in States /\ s2.pid = s.pid
    <3>1. s2.pid = s.pid
      BY <1>0, <2>a DEF States
    <3>2. /\ \A u \in Threads \ {t} : th'[u] = th[u]
          /\ th'[t].host = th[t].host /\ th'[t].pc = "launch"
      BY <1>0, <2>0 DEF TypeOK, ThreadStates
    <3> QED
      BY Zenon, <1>3, <2>0, <2>a, <2>b, <3>1, <3>2 DEF startPrepare
  <2>2. Settled(s.pid)
    BY <1>0, <2>1 DEF ThreadAccounted, FoundDown
  <2> HIDE DEF s2
  <2>3. CASE saveState(s.pid, s2)
    <3>1. lost \subseteq lost'
      BY <2>3 DEF saveState
    <3>2. ThreadAccounted(t)'
      BY <2>1, <2>2, <3>1 DEF s2, ThreadAccounted, Settled, Live
    <3> QED
      BY <2>1, <2>2, <2>3, <3>2, ThreadSave
  <2>4. CASE UNCHANGED <<st, lost>>
    <3>1. ThreadAccounted(t)'
      BY <2>1, <2>2, <2>4 DEF s2, ThreadAccounted, Settled, Live
    <3>2. NoOrphan' /\ \A p : Settled(p) => Settled(p)'
      BY <2>1, <2>4, CalmStep DEF Live
    <3> QED
      BY <2>1, <2>4, <3>1, <3>2, OthersStay, OneThread
  <2> QED
    BY <2>1, <2>3, <2>4
<1>5. CASE launchFails(t)
  <2>1. /\ UNCHANGED <<st, proc, watcher, lost>> /\ th[t].pc = "launch"
    BY <1>5 DEF launchFails
  <2>2. /\ \A u \in Threads \ {t} : th'[u] = th[u]
        /\ th'[t].host = th[t].host /\ ThreadAccounted(t)'
    BY <1>5, <1>g DEF launchFails
  <2>3. NoOrphan' /\ \A p : Settled(p) => Settled(p)'
    BY <2>1, <2>2, CalmStep DEF Live
  <2> QED
    BY <2>1, <2>2, <2>3, OthersStay, OneThread
<1>6. CASE startRecord(t)
  <2> DEFINE p0 == th[t].pid
             s == startedState(th[t].view, p0)
  <2>0. s \in States
    BY Zenon, <1>0, StateOps DEF Reasons, Installs, ThreadStates
  <2>1. s \in States /\ s.pid = p0 /\ s.running
    BY <2>0 DEF startedState, EmptyState
  <2>2. proc' = proc /\ th[t].pc = "launched" /\ saveState(th[t].view.pid, s)
    BY <1>6 DEF startRecord
  <2>3. Settled(th[t].view.pid)
    BY <1>0, <2>2 DEF ThreadAccounted, FoundDown
  <2>4. /\ \A u \in Threads \ {t} : th'[u] = th[u]
        /\ th'[t].host = th[t].host /\ ThreadAccounted(t)'
    <3>1. CASE th[t].fg
      <4>1. /\ \A u \in Threads \ {t} : th'[u] = th[u]
            /\ th'[t].host = th[t].host /\ th'[t].pc = "foreground"
            /\ th'[t].view = s /\ th'[t].pid = p0
        BY <1>0, <1>6, <3>1 DEF startRecord, TypeOK, ThreadStates
      <4> QED
        BY <2>1, <4>1 DEF ThreadAccounted, FoundDown
    <3>2. CASE ~th[t].fg
      BY <1>6, <1>g, <3>2 DEF startRecord
    <3> QED
      BY <3>1, <3>2
  <2> HIDE DEF s
  <2>5. /\ NoOrphan' /\ \A p : Settled(p) => Settled(p)'
        /\ (~st.running => Settled(st.pid))'
    BY <1>0, <2>1, <2>2, <2>3, <2>4, SaveStep DEF Live, Settled
  <2>6. \A p \in Pids : watcher'[p] = watcher[p] \/ watcher'[p].pc = "watching"
    BY <1>0, <1>6 DEF startRecord, TypeOK
  <2>7. \A p \in Pids : WatcherAccounted(p)'
    BY <2>5, <2>6, OthersStay DEF WatcherAccounted
  <2> QED
    BY <2>4, <2>5, <2>7, OneThread
<1>7. CASE foregroundEnds(t)
  <2> DEFINE p0 == th[t].pid
  <2>1. /\ UNCHANGED <<proc, watcher>> /\ th[t].pc = "foreground"
        /\ st' = [th[t].view EXCEPT !.running = FALSE]
        /\ lost' = lost \cup {q \in {p0, st.pid} : Live(q)}
    BY <1>7 DEF foregroundEnds
  <2>2. /\ \A u \in Threads \ {t} : th'[u] = th[u]
        /\ th'[t].host = th[t].host /\ ThreadAccounted(t)'
    BY <1>7, <1>g DEF foregroundEnds
  <2>3. st'.pid = p0
    BY <1>0, <2>1 DEF ThreadAccounted, States
  <2>4. NoOrphan' /\ \A p : Settled(p) => Settled(p)'
    BY <2>1, <2>2, CalmStep DEF Live
  <2>5. (~st.running => Settled(st.pid))'
    BY <2>1, <2>3 DEF Settled, Live
  <2> QED
    BY <2>1, <2>2, <2>4, <2>5, OthersStay, OneThread
<1>8. CASE launch(t)
  <2>1. PICK p \in Unused :
          /\ th' = [th EXCEPT ![t].pc = "launched", ![t].pid = p]
          /\ proc' \in {proc, [proc EXCEPT ![p] = "up"]}
    BY Zenon, <1>8 DEF launch
  <2>2. UNCHANGED <<st, watcher, lost>> /\ th[t].pc = "launch"
    BY <1>8 DEF launch
  <2>3. /\ p \in Pids /\ st.pid # p
        /\ \A u \in Threads : th[u].pid # p /\ th[u].view.pid # p
        /\ \A q \in Pids : watcher[q].view.pid # p
    BY DEF Unused
  <2>4. /\ \A u \in Threads \ {t} : th'[u] = th[u]
        /\ th'[t].pc = "launched" /\ th'[t].pid = p /\ th'[t].host = th[t].host
        /\ th'[t].view = th[t].view
    BY <1>0, <2>1 DEF TypeOK, ThreadStates
  <2>5. \A q : q # p => (Live(q)' <=> Live(q))
    BY <1>0, <2>1 DEF Live, TypeOK
  <2>6. NoOrphan'
    BY <2>2, <2>4, <2>5 DEF IInv, NoOrphan
  <2>7. \A q : q # p /\ Settled(q) => Settled(q)'
    BY <2>2, <2>5 DEF Settled
  <2>8. \A u \in Threads : ThreadAccounted(u)'
    <3>1. ThreadAccounted(t)'
      BY <1>0, <2>2, <2>3, <2>4, <2>7 DEF ThreadAccounted, FoundDown, Settled, Live
    <3>2. ASSUME NEW u \in Threads \ {t} PROVE ThreadAccounted(u)'
      BY <2>3, <2>4, <2>7 DEF IInv, Accounted, ThreadAccounted, Settled, Live
    <3> QED
      BY <3>1, <3>2
  <2>9. \A q \in Pids : WatcherAccounted(q)'
    BY <2>2, <2>3, <2>7 DEF IInv, Accounted, WatcherAccounted, Settled, Live
  <2>10. (~st.running => Settled(st.pid))'
    BY <2>2, <2>3, <2>7 DEF IInv, Accounted, Settled, Live
  <2>11. \A h \in Hosts : th'[h].host = h
    BY <2>4 DEF IInv, Accounted, Hosts, Threads
  <2> QED
    BY <2>6, <2>8, <2>9, <2>10, <2>11 DEF Accounted
<1> QED
  BY <1>1, <1>2, <1>3, <1>5, <1>6, <1>7, <1>8 DEF Start

LEMMA SavesAccounted ==
  ASSUME IInv, NEW t \in Threads,
         stopSave(t) \/ listClean(t) \/ persistPhase(t) \/ markReady(t)
  PROVE  NoOrphan' /\ Accounted'
<1>0. /\ TypeOK /\ th[t].view \in States /\ th[t].host \in Hosts
      /\ th[t].reason \in Reasons /\ ThreadAccounted(t)
  BY DEF IInv, TypeOK, ThreadStates, Accounted
<1>p. NoPid \notin Pids
  BY PidAssumption
<1>1. CASE stopSave(t)
  <2> DEFINE s == stoppedState(th[t].view, th[t].reason)
  <2>0. s \in States
    BY Zenon, <1>0, StateOps DEF Installs
  <2>1. s.pid = NoPid
    BY DEF stoppedState, EmptyState
  <2>2. /\ saveState(th[t].view.pid, s) /\ watcher' = watcher
        /\ th[t].pc = "stopping" /\ proc' = kill(th[t].view.pid)
        /\ th' = [th EXCEPT ![t] = Fresh(afterStop(t), th[t].host)]
    BY <1>1 DEF stopSave
  <2> HIDE DEF s
  <2>3. \A p \in Pids : Live(p)' => Live(p) /\ p # th[t].view.pid
    BY <1>0, <2>2 DEF Live, kill, isAlive, TypeOK
  <2>4. \A u \in Threads \ {t} : th'[u] = th[u]
    BY <2>2
  <2>5. th'[t].pc = afterStop(t) /\ th'[t].host = th[t].host
    BY <1>0, <2>2, FreshThread, AfterPcs DEF TypeOK
  <2>6. ThreadAccounted(t)'
    BY SMTT(30), <2>5, AfterPcs, CarelessPcs, CarelessThread
  <2>7. /\ NoOrphan' /\ \A p : Settled(p) => Settled(p)'
        /\ (~st.running => Settled(st.pid))'
    BY <1>p, <2>0, <2>1, <2>2, <2>3, <2>4, SaveStep
  <2> QED
    BY <2>2, <2>4, <2>5, <2>6, <2>7, OthersStay, OneThread
<1>2. CASE listClean(t)
  <2> DEFINE s == cleanupStaleVM(th[t].view)
  <2>0. s \in States
    BY Zenon, <1>0, StateOps DEF Reasons, Installs
  <2>1. s.pid = NoPid
    BY DEF cleanupStaleVM, EmptyState
  <2>2. /\ saveState(th[t].view.pid, s) /\ UNCHANGED <<proc, watcher>>
        /\ th[t].pc = "listClean"
    BY <1>2 DEF listClean
  <2> HIDE DEF s
  <2>3. Settled(th[t].view.pid)
    BY <1>0, <2>2 DEF ThreadAccounted, FoundDown
  <2>4. /\ \A u \in Threads \ {t} : th'[u] = th[u]
        /\ th'[t].host = th[t].host /\ ThreadAccounted(t)'
    BY SMTT(30), <1>0, <1>2, FinishAccounted DEF listClean
  <2> QED
    BY <2>0, <2>1, <2>2, <2>3, <2>4, ThreadSave
<1>3. ASSUME NEW s \in States, s.pid = th[t].view.pid, s.running = th[t].view.running,
             th[t].pc \in {"touching", "readying"},
             saveState(th[t].view.pid, s), UNCHANGED <<proc, watcher>>, finish(t)
      PROVE  NoOrphan' /\ Accounted'
  <2>1. s.running
    BY <1>0, <1>3 DEF ThreadAccounted
  <2>2. /\ \A u \in Threads \ {t} : th'[u] = th[u]
        /\ th'[t].host = th[t].host /\ ThreadAccounted(t)'
    BY <1>0, <1>3, FinishAccounted
  <2> QED
    BY SMTT(30), <1>3, <2>1, <2>2, ThreadSave
<1>4. CASE persistPhase(t)
  BY <1>0, <1>3, <1>4 DEF persistPhase
<1>5. CASE markReady(t)
  <2>1. readyState(th[t].view) \in States
    BY Zenon, <1>0, StateOps DEF Reasons, Installs
  <2>2. /\ readyState(th[t].view).pid = th[t].view.pid
        /\ readyState(th[t].view).running = th[t].view.running
    BY <1>0 DEF readyState, States
  <2> QED
    BY Zenon, <1>3, <1>5, <2>1, <2>2 DEF markReady
<1> QED
  BY <1>1, <1>2, <1>4, <1>5

(* A step that only moves thread t, to a place where it has loaded nothing  *)
(* that it will save, and asks or kills processes.                          *)
LEMMA MoveAccounted ==
  ASSUME IInv, NEW t \in Threads, UNCHANGED <<st, watcher, lost>>,
         \A u \in Threads \ {t} : th'[u] = th[u],
         th'[t].host = th[t].host, ThreadAccounted(t)', th[t].pc # "launched",
         \A p \in Pids : Live(p)' => Live(p)
  PROVE  NoOrphan' /\ Accounted'
<1>1. NoOrphan' /\ \A p : Settled(p) => Settled(p)'
  BY CalmStep
<1> QED
  BY Zenon, <1>1, OthersStay, OneThread

LEMMA GotoAccounted ==
  ASSUME TypeOK, NEW t \in Threads, NEW pc \in Careless, goto(t, pc)
  PROVE  /\ \A u \in Threads \ {t} : th'[u] = th[u]
         /\ th'[t].host = th[t].host /\ th'[t].pc = pc
         /\ ThreadAccounted(t)'
<1>1. /\ \A u \in Threads \ {t} : th'[u] = th[u]
      /\ th'[t].host = th[t].host /\ th'[t].pc = pc
  BY DEF goto, TypeOK, ThreadStates
<1> QED
  BY <1>1, CarelessThread

LEMMA StopLoadAccounted ==
  ASSUME IInv, NEW t \in Threads, NEW reason \in Reasons, NEW force \in BOOLEAN,
         NEW giveUp \in Careless, stopLoad(t, reason, force, giveUp),
         th[t].pc # "launched", UNCHANGED <<st, watcher, lost>>
  PROVE  NoOrphan' /\ Accounted'
<1>0. TypeOK
  BY DEF IInv
<1>1. \A p \in Pids : Live(p)' => Live(p)
  <2>1. proc' \in {proc, kill(st.pid)} \/
          (isAlive(st.pid) /\ proc[st.pid] = "up"
             /\ proc' = [proc EXCEPT ![st.pid] = "asked"])
    BY DEF stopLoad
  <2> QED
    BY <1>0, <2>1 DEF Live, kill, isAlive, TypeOK
<1>2. CASE ~st.running \/ st.pid = NoPid
  BY <1>0, <1>1, <1>2, GotoAccounted, MoveAccounted DEF stopLoad
<1>3. CASE ~(~st.running \/ st.pid = NoPid)
  <2>1. /\ \A u \in Threads \ {t} : th'[u] = th[u]
        /\ th'[t].host = th[t].host /\ th'[t].pc = "stopping"
    BY <1>0, <1>3 DEF stopLoad, TypeOK, ThreadStates
  <2>2. ThreadAccounted(t)'
    BY <2>1, CarelessPcs, CarelessThread
  <2> QED
    BY <1>1, <2>1, <2>2, MoveAccounted
<1> QED
  BY <1>2, <1>3

LEMMA ProcessEndsAccounted ==
  ASSUME IInv, NEW h \in Hosts, processEnds(h)
  PROVE  NoOrphan' /\ Accounted'
<1>0. TypeOK /\ \A u \in Hosts : th[u].host = u /\ u \in Threads
  BY DEF IInv, Accounted, Hosts, Threads
<1>1. UNCHANGED <<st, proc>>
  BY DEF processEnds
<1>2. \A t \in Threads : th'[t] = th[t] \/ (th'[t] = NoThread(t) /\ th[t].host = h)
  BY <1>0 DEF processEnds
<1>3. \A p \in Pids : watcher'[p] = watcher[p] \/ watcher'[p] = NoWatcher
  BY DEF processEnds
<1>4. \A p \in Pids, t \in Threads :
        Live(p) /\ th[t].pc = "launched" /\ th[t].pid = p /\ th[t].host = h
          => p \in lost'
  BY DEF processEnds
<1>5. lost \subseteq lost'
  BY DEF processEnds
<1>6. \A p : Live(p)' <=> Live(p)
  BY <1>1 DEF Live
<1>7. NoOrphan' /\ \A p : Settled(p) => Settled(p)'
  BY <1>1, <1>2, <1>4, <1>5, <1>6, CalmStep
<1>8. \A t \in Threads : ThreadAccounted(t)'
  <2> SUFFICES ASSUME NEW t \in Threads PROVE ThreadAccounted(t)'
    OBVIOUS
  <2>1. CASE th'[t] = th[t]
    BY <1>7, <2>1, OthersStay
  <2>2. CASE th'[t] = NoThread(t)
    BY <2>2, NoThreadType, CarelessPcs, CarelessThread
  <2> QED
    BY <1>2, <2>1, <2>2
<1>9. \A u \in Hosts : th'[u].host = u
  BY <1>0, <1>2, NoThreadType
<1>10. \A p \in Pids : WatcherAccounted(p)'
  <2> SUFFICES ASSUME NEW p \in Pids PROVE WatcherAccounted(p)'
    OBVIOUS
  <2>1. CASE watcher'[p] = watcher[p]
    BY <1>7, <2>1, OthersStay
  <2>2. CASE watcher'[p] = NoWatcher
    BY <2>2 DEF WatcherAccounted, NoWatcher
  <2> QED
    BY <1>3, <2>1, <2>2
<1> QED
  BY <1>1, <1>7, <1>8, <1>9, <1>10, OthersStay DEF Accounted

LEMMA SessionAccounted ==
  ASSUME IInv, NEW s \in Sessions, Session(s)
  PROVE  NoOrphan' /\ Accounted'
<1>0. s \in Threads /\ s \in Hosts /\ TypeOK
  BY DEF Threads, Hosts, IInv
<1>1. CASE sessionStart(s)
  <2>1. /\ UNCHANGED <<st, proc, watcher, lost>> /\ th[s].pc = "idle"
        /\ \A u \in Threads \ {s} : th'[u] = th[u]
        /\ th'[s].host = th[s].host /\ th'[s].pc = "start"
    BY <1>0, <1>1 DEF sessionStart, command, TypeOK, ThreadStates
  <2>2. ThreadAccounted(s)'
    BY <1>0, <2>1, CarelessPcs, CarelessThread
  <2> QED
    BY <1>0, <2>1, <2>2, MoveAccounted DEF Live
<1>2. CASE Stop(s)
  <2>1. PICK force \in BOOLEAN : stopLoad(s, "user", force, "idle")
    BY <1>2 DEF Stop
  <2>2. UNCHANGED <<st, watcher, lost>> /\ th[s].pc = "idle"
    BY <1>2 DEF Stop, command
  <2>3. "user" \in Reasons
    BY DEF Reasons
  <2> QED
    BY <1>0, <2>1, <2>2, <2>3, CarelessPcs, StopLoadAccounted
<1>3. CASE List(s)
  <2>1. /\ UNCHANGED <<st, proc, watcher, lost>> /\ th[s].pc = "idle"
        /\ \A u \in Threads \ {s} : th'[u] = th[u]
        /\ th'[s].host = th[s].host /\ th'[s].pc = "listClean" /\ th'[s].view = st
        /\ ~isAlive(st.pid)
    BY <1>0, <1>3 DEF List, command, TypeOK, ThreadStates
  <2>2. ThreadAccounted(s)'
    BY <2>1 DEF ThreadAccounted, Settled, Live, isAlive
  <2> QED
    BY <1>0, <2>1, <2>2, MoveAccounted DEF Live
<1>4. CASE touch(s)
  <2>1. /\ UNCHANGED <<st, proc, watcher, lost>> /\ th[s].pc = "idle" /\ st.running
        /\ \A u \in Threads \ {s} : th'[u] = th[u]
        /\ th'[s].host = th[s].host /\ th'[s].pc \in {"touching", "readying"}
        /\ th'[s].view = st
    BY <1>0, <1>4 DEF touch, command, TypeOK, ThreadStates
  <2>2. ThreadAccounted(s)'
    BY <2>1 DEF ThreadAccounted, FoundDown
  <2> QED
    BY <1>0, <2>1, <2>2, MoveAccounted DEF Live
<1>5. CASE sessionExit(s)
  BY <1>0, <1>5, ProcessEndsAccounted DEF sessionExit
<1> QED
  BY <1>1, <1>2, <1>3, <1>4, <1>5 DEF Session

LEMMA DaemonAccounted ==
  ASSUME IInv, RunDaemon \/ hostReboot \/ powerCycleAfterGuestReset
  PROVE  NoOrphan' /\ Accounted'
<1>0. /\ Daemon \in Threads /\ Reboot \in Threads /\ TypeOK
      /\ th[Daemon].view \in States /\ ThreadAccounted(Daemon)
  BY DEF Threads, IInv, TypeOK, ThreadStates, Accounted
<1>p. NoPid \notin Pids
  BY PidAssumption
<1>r. "host" \in Reasons /\ "reboot" \in Reasons /\ {TRUE, FALSE} \subseteq BOOLEAN
  BY SMTT(30) DEF Reasons
<1>1. ASSUME NEW pc \in Careless, goto(Daemon, pc), UNCHANGED <<st, proc, watcher, lost>>,
             th[Daemon].pc # "launched"
      PROVE  NoOrphan' /\ Accounted'
  BY SMTT(30), <1>0, <1>1, GotoAccounted, MoveAccounted DEF Live
<1>2. CASE daemonStart
  BY <1>1, <1>2, CarelessPcs DEF daemonStart
<1>3. CASE tick
  BY <1>1, <1>3, CarelessPcs DEF tick
<1>4. CASE adopt
  <2>1. CASE st.running /\ ~isAlive(st.pid)
    <3>1. /\ UNCHANGED <<st, proc, watcher, lost>> /\ th[Daemon].pc = "list"
          /\ \A u \in Threads \ {Daemon} : th'[u] = th[u]
          /\ th'[Daemon].host = th[Daemon].host /\ th'[Daemon].pc = "listClean"
          /\ th'[Daemon].view = st
      BY <1>0, <1>4, <2>1 DEF adopt, TypeOK, ThreadStates
    <3>2. ThreadAccounted(Daemon)'
      BY <2>1, <3>1 DEF ThreadAccounted, Settled, Live, isAlive
    <3> QED
      BY <1>0, <3>1, <3>2, MoveAccounted DEF Live
  <2>2. CASE ~(st.running /\ ~isAlive(st.pid))
    <3>1. UNCHANGED <<st, proc, lost>> /\ th[Daemon].pc = "list" /\ goto(Daemon, "idle")
      BY <1>4, <2>2 DEF adopt
    <3>2. /\ \A u \in Threads \ {Daemon} : th'[u] = th[u]
          /\ th'[Daemon].host = th[Daemon].host /\ ThreadAccounted(Daemon)'
      BY <1>0, <3>1, CarelessPcs, GotoAccounted
    <3>3. \A p \in Pids : watcher'[p] = watcher[p] \/ watcher'[p].pc = "watching"
      BY <1>0, <1>4, <2>2 DEF adopt, TypeOK
    <3>4. NoOrphan' /\ \A p : Settled(p) => Settled(p)'
      BY <3>1, <3>2, CalmStep DEF Live
    <3>5. \A p \in Pids : WatcherAccounted(p)'
      BY <3>3, <3>4, OthersStay DEF WatcherAccounted
    <3> QED
      BY Zenon, <1>0, <3>1, <3>2, <3>4, <3>5, OthersStay, OneThread
  <2> QED
    BY <2>1, <2>2
<1>5. CASE hostShutdown
  BY <1>1, <1>5, CarelessPcs DEF hostShutdown
<1>6. CASE StopAllRunning
  <2>1. /\ UNCHANGED <<st, proc, watcher, lost>> /\ th[Daemon].pc = "haltList"
        /\ \A u \in Threads \ {Daemon} : th'[u] = th[u]
        /\ th'[Daemon].host = th[Daemon].host /\ th'[Daemon].view = st
        /\ \/ th'[Daemon].pc \in {"halted", "haltStop"}
           \/ th'[Daemon].pc = "haltClean" /\ ~isAlive(st.pid)
    BY <1>0, <1>6 DEF StopAllRunning, TypeOK, ThreadStates
  <2>2. ThreadAccounted(Daemon)'
    <3>1. CASE th'[Daemon].pc \in {"halted", "haltStop"}
      BY <1>0, <3>1, CarelessPcs, CarelessThread
    <3>2. CASE th'[Daemon].pc = "haltClean" /\ ~isAlive(st.pid)
      BY <2>1, <3>2 DEF ThreadAccounted, Settled, Live, isAlive
    <3> QED
      BY <2>1, <3>1, <3>2
  <2> QED
    BY <1>0, <2>1, <2>2, MoveAccounted DEF Live
<1>7. CASE haltClean
  <2> DEFINE s == cleanupStaleVM(th[Daemon].view)
  <2>0. s \in States
    BY Zenon, <1>0, StateOps DEF Reasons, Installs
  <2>1. s.pid = NoPid
    BY DEF cleanupStaleVM, EmptyState
  <2>2. /\ saveState(th[Daemon].view.pid, s) /\ UNCHANGED <<proc, watcher>>
        /\ th[Daemon].pc = "haltClean" /\ goto(Daemon, "halted")
    BY <1>7 DEF haltClean
  <2> HIDE DEF s
  <2>3. Settled(th[Daemon].view.pid)
    BY <1>0, <2>2 DEF ThreadAccounted, FoundDown
  <2>4. /\ \A u \in Threads \ {Daemon} : th'[u] = th[u]
        /\ th'[Daemon].host = th[Daemon].host /\ ThreadAccounted(Daemon)'
    BY <1>0, <2>2, CarelessPcs, GotoAccounted
  <2> QED
    BY Zenon, <1>0, <2>0, <2>1, <2>2, <2>3, <2>4, ThreadSave
<1>8. CASE haltStop
  <2>1. stopLoad(Daemon, "host", FALSE, "halted")
    BY Zenon, <1>8 DEF haltStop
  <2>2. UNCHANGED <<st, watcher, lost>> /\ th[Daemon].pc = "haltStop"
    BY <1>8 DEF haltStop
  <2> QED
    BY Zenon, <1>0, <1>r, <2>1, <2>2, CarelessPcs, StopLoadAccounted
<1>9. CASE hostReboot
  <2>1. \A p : ~Live(p)'
    BY <1>9 DEF hostReboot, Live
  <2>2. \A t \in Threads : th'[t] = NoThread(t)
    BY <1>9 DEF hostReboot
  <2>3. \A t \in Threads : ThreadAccounted(t)'
    BY <2>2, NoThreadType, CarelessPcs, CarelessThread
  <2>4. \A h \in Hosts : th'[h].host = h
    BY <2>2, NoThreadType DEF Hosts, Threads
  <2> QED
    BY <2>1, <2>3, <2>4 DEF NoOrphan, Accounted, WatcherAccounted, Settled
<1>10. CASE powerCycleAfterGuestReset
  <2>1. stopLoad(Reboot, "reboot", TRUE, "off")
    BY Zenon, <1>10 DEF powerCycleAfterGuestReset
  <2>2. UNCHANGED <<st, watcher, lost>> /\ th[Reboot].pc = "reboot"
    BY SMTT(30), <1>10 DEF powerCycleAfterGuestReset
  <2> QED
    BY Zenon, <1>0, <1>r, <2>1, <2>2, CarelessPcs, StopLoadAccounted
<1> QED
  BY SMTT(30), <1>2, <1>3, <1>4, <1>5, <1>6, <1>7, <1>8, <1>9, <1>10 DEF RunDaemon

(* A watcher saves back the record it loaded, its own PID still in it.      *)
LEMMA WatcherSave ==
  ASSUME IInv, NEW p \in Pids, NEW s \in States,
         saveState(watcher[p].view.pid, s), UNCHANGED <<proc, th>>,
         s.pid = watcher[p].view.pid, ~s.running => Settled(s.pid)
  PROVE  /\ NoOrphan' /\ \A q : Settled(q) => Settled(q)'
         /\ (~st.running => Settled(st.pid))'
<1>1. \A q \in Pids : Live(q)' => Live(q)
  BY DEF Live
<1>2. \A q \in Pids : Live(q)' /\ q \in {watcher[p].view.pid, s.pid} =>
                        (s.running /\ s.pid = q) \/ q \in lost
  BY <1>1 DEF Settled
<1>3. \A q \in Pids, t \in Threads :
        Live(q)' /\ th[t].pc = "launched" /\ th[t].pid = q =>
          \/ th'[t].pc = "launched" /\ th'[t].pid = q
          \/ s.running /\ s.pid = q
  OBVIOUS
<1> QED
  BY <1>1, <1>2, <1>3, SaveStep

LEMMA WatcherStepAccounted ==
  ASSUME IInv, NEW p \in Pids, watchVMConnection(p)
  PROVE  NoOrphan' /\ Accounted'
<1>0. /\ TypeOK /\ watcher[p].view \in States /\ WatcherAccounted(p)
      /\ Reboot \in Threads /\ Reboot \notin Hosts
  BY SMTT(30), LifecycleAssumption DEF IInv, TypeOK, Accounted, Threads, Hosts
<1>1. ASSUME UNCHANGED <<st, proc, th, lost>>,
             \A q \in Pids : watcher'[q] = watcher[q] \/ WatcherAccounted(q)'
      PROVE  NoOrphan' /\ Accounted'
  <2>1. NoOrphan' /\ \A q : Settled(q) => Settled(q)'
    BY <1>1, CalmStep DEF Live
  <2> QED
    BY <1>1, <2>1, OthersStay DEF Accounted, Hosts, Threads
<1>2. CASE handleShutdownEvent(p)
  <2>1. UNCHANGED <<st, proc, th, lost>>
    BY <1>2 DEF handleShutdownEvent
  <2>2. /\ watcher'[p].view = st
        /\ \A q \in Pids \ {p} : watcher'[q] = watcher[q]
    BY <1>0, <1>2 DEF handleShutdownEvent, TypeOK
  <2>3. WatcherAccounted(p)'
    BY <2>1, <2>2 DEF WatcherAccounted, IInv, Accounted, Settled, Live
  <2> QED
    BY <1>1, <2>1, <2>2, <2>3
<1>3. CASE recordGuestShutdown(p)
  <2> DEFINE s == guestShutdownState(watcher[p].view)
  <2>0. s \in States
    BY Zenon, <1>0, StateOps DEF Reasons, Installs
  <2>1. s.pid = watcher[p].view.pid /\ s.running = watcher[p].view.running
    BY <1>0 DEF guestShutdownState, States
  <2>2. /\ saveState(watcher[p].view.pid, s) /\ UNCHANGED <<proc, th>>
        /\ watcher[p].pc = "recording"
    BY <1>3 DEF recordGuestShutdown
  <2> HIDE DEF s
  <2>3. ~s.running => Settled(s.pid)
    BY SMTT(30), <1>0, <2>1, <2>2 DEF WatcherAccounted
  <2>4. /\ NoOrphan' /\ \A q : Settled(q) => Settled(q)'
        /\ (~st.running => Settled(st.pid))'
    BY SMTT(20), <2>0, <2>1, <2>2, <2>3, WatcherSave
  <2>5. \A q \in Pids : WatcherAccounted(q)'
    <3>1. WatcherAccounted(p)'
      BY Zenon, <1>0, <1>3 DEF recordGuestShutdown, WatcherAccounted, NoWatcher, TypeOK
    <3>2. \A q \in Pids \ {p} : watcher'[q] = watcher[q]
      BY <1>0, <1>3 DEF recordGuestShutdown, TypeOK
    <3> QED
      BY <2>4, <3>1, <3>2, OthersStay
  <2> QED
    BY Zenon, <2>2, <2>4, <2>5, OthersStay DEF Accounted, Hosts, Threads
<1>4. CASE handleResetEvent(p)
  <2>1. /\ UNCHANGED <<st, proc, lost>>
        /\ \A q \in Pids \ {p} : watcher'[q] = watcher[q]
        /\ watcher'[p].pc # "recording"
    <3>1. UNCHANGED <<st, proc, lost>> /\ watcher[p].pc = "watching"
      BY <1>4 DEF handleResetEvent, pending
    <3>2. CASE shouldPowerCycleOnGuestReset(st)
      BY <1>0, <1>4, <3>1, <3>2 DEF handleResetEvent, NoWatcher, TypeOK
    <3>3. CASE ~shouldPowerCycleOnGuestReset(st)
      BY Zenon, <1>0, <1>4, <3>1, <3>3 DEF handleResetEvent, TypeOK
    <3> QED
      BY <3>1, <3>2, <3>3
  <2>2. \A q \in Pids : watcher'[q] = watcher[q] \/ WatcherAccounted(q)'
    BY <2>1 DEF WatcherAccounted
  <2>3. CASE th' = th
    BY <1>1, <2>1, <2>2, <2>3
  <2>4. CASE th' # th
    <3>1. /\ th[Reboot].pc = "off" /\ th'[Reboot].pc = "reboot"
          /\ \A u \in Threads \ {Reboot} : th'[u] = th[u]
      BY <1>0, <1>4, <2>4 DEF handleResetEvent, TypeOK, ThreadStates
    <3>2. ThreadAccounted(Reboot)'
      BY <1>0, <3>1, CarelessPcs, CarelessThread
    <3>3. NoOrphan' /\ \A q : Settled(q) => Settled(q)'
      BY SMTT(30), <2>1, <3>1, CalmStep DEF Live
    <3>4. \A q \in Pids : WatcherAccounted(q)'
      BY <2>2, <3>3, OthersStay
    <3> QED
      BY <1>0, <2>1, <3>1, <3>2, <3>3, <3>4, OthersStay, OneThread
  <2> QED
    BY <2>3, <2>4
<1>5. CASE ownerDone(p)
  <2>1. /\ UNCHANGED <<st, proc, th, lost>>
        /\ \A q \in Pids \ {p} : watcher'[q] = watcher[q]
        /\ watcher'[p].pc # "recording"
    BY <1>0, <1>5 DEF ownerDone, NoWatcher, TypeOK
  <2> QED
    BY SMTT(30), <1>1, <2>1 DEF WatcherAccounted
<1> QED
  BY SMTT(30), <1>2, <1>3, <1>4, <1>5 DEF watchVMConnection

LEMMA QemuAccounted ==
  ASSUME IInv, NEW p \in Pids, Qemu(p)
  PROVE  NoOrphan' /\ Accounted'
<1>0. TypeOK
  BY DEF IInv
<1>1. UNCHANGED <<st, th>> /\ \A q \in Pids : Live(q)' => Live(q)
  BY <1>0 DEF Qemu, guestPoweroff, honourPowerdown, guestReset, exit, Live, TypeOK
<1>2. \A q \in Pids : Live(q)' /\ q \in lost => q \in lost'
  BY <1>0 DEF Qemu, guestPoweroff, honourPowerdown, guestReset, exit, Live, TypeOK
<1>3. NoOrphan' /\ \A q : Settled(q) => Settled(q)'
  BY Zenon, <1>1, <1>2, CalmStep
<1>4. watcher' = watcher \/ (watcher[p].pc = "watching" /\ \E ev :
        watcher' = [watcher EXCEPT ![p].events = Append(watcher[p].events, ev)])
  BY Zenon DEF Qemu, guestPoweroff, honourPowerdown, guestReset, exit, emit
<1>5. \A q \in Pids : watcher'[q] = watcher[q] \/ watcher'[q].pc = "watching"
  BY SMTT(30), <1>0, <1>4 DEF TypeOK
<1>6. \A q \in Pids : WatcherAccounted(q)'
  BY <1>3, <1>5, OthersStay DEF WatcherAccounted
<1> QED
  BY Zenon, <1>1, <1>3, <1>6, OthersStay DEF Accounted, Hosts, Threads

LEMMA InductiveStep == IInv /\ [Next]_vars => IInv'
<1> SUFFICES ASSUME IInv, [Next]_vars PROVE IInv'
  OBVIOUS
<1>1. TypeOK'
  BY TypeStep DEF IInv
<1>2. NoOrphan' /\ Accounted'
  <2>1. CASE UNCHANGED vars
    BY Zenon, <2>1 DEF vars, IInv, NoOrphan, Accounted, ThreadAccounted, WatcherAccounted,
       Settled, Live
  <2>2. ASSUME NEW h \in Hosts, crashVee(h) PROVE NoOrphan' /\ Accounted'
    BY <2>2, ProcessEndsAccounted DEF crashVee
  <2> QED
    BY <2>1, <2>2, StartAccounted, SavesAccounted, SessionAccounted, DaemonAccounted,
       WatcherStepAccounted, QemuAccounted DEF Next, Thread
<1> QED
  BY <1>1, <1>2 DEF IInv

(* vee loses track of a live guest in no other way than the three that      *)
(* `lost' records, whatever the interleaving of sessions, daemon, watchers  *)
(* and QEMU processes.                                                      *)
THEOREM NothingOrphaned == Spec => []NoOrphan
<1>1. Init => IInv
  BY InitType, InitAccounted DEF IInv
<1>2. IInv => NoOrphan
  BY DEF IInv
<1> QED
  BY <1>1, <1>2, InductiveStep, PTL DEF Spec

=============================================================================
