----------------------------- MODULE GuestProofs ----------------------------
(***************************************************************************)
(* What is proved of the helper of a macOS VM and of the wait for a guest:  *)
(* why a VM stopped is on record as it was, a start is reported as it went,*)
(* no goroutine outlives a wait, the phases shown only move forward, and    *)
(* the verdicts of a wait are true.  All for any number of runs, watchers,  *)
(* bridges, console lines, process identifiers and channel capacities.      *)
(***************************************************************************)
EXTENDS VZHelper, Readiness, TLAPS

-----------------------------------------------------------------------------
(* The helper of a macOS VM.                                                *)

Helper  == [pc : {"none", "load", "starting", "listen", "up", "written", "draining", "dead"},
            st : {"none", "running", "stopped", "error"}, stop : BOOLEAN]
Result  == [run : Nat, kind : {"none", "error", "host", "guest"}]
Stop    == [pc : {"idle", "op", "wait"}, reason : {Unset, "user", "host"}, run : Nat]
Record  == [running : BOOLEAN, run : Nat, desired : {Unset, "running", "stopped"},
            reason : {Unset, "user", "host", "guest", "crash"}]
Watcher == [pc : {"idle", "asked", "sleep", "record"}, run : Nat]
History == [off : BOOLEAN, asked : BOOLEAN, late : BOOLEAN]

VZTypeOK ==
  /\ zrun \in Nat /\ zh \in Helper /\ zsock \in BOOLEAN /\ zres \in Result
  /\ zstart \in {"idle", "wait", "ok", "failed"}
  /\ zstop \in Stop /\ zrec \in Record /\ zhist \in History
  /\ zw \in [Watchers -> Watcher]

(* What is on file is of this run or of an earlier one.                     *)
Past == zres.run \in 0..zrun /\ zrec.run \in 0..zrun /\ zstop.run \in 0..zrun
          /\ \A w \in Watchers : zw[w].run \in 0..zrun

(* The helper has removed what earlier runs left.                           *)
cleared == zh.pc \in {"starting", "listen", "up", "written", "draining"}

onRecord == zrec.run = zrun /\ zstart = "ok"

stopOnRecord == zstop.pc # "idle" /\ zstop.run = zrun /\ zstart = "ok"

watching(w) == zw[w].pc # "idle" /\ zw[w].run = zrun

(* A machine exists before the socket does.                                 *)
MachineFirst ==
  /\ zh.st = "none" => ~zsock
  /\ zh.pc \in {"listen", "up", "written", "draining"} => zh.st # "none"
  /\ zh.st = "stopped" => zhist.off
  /\ zstart # "idle" => zh.pc # "none"

(* While a start waits, neither the record nor a stop is about its run, and *)
(* only a start that went well has a record that says the VM runs.          *)
StartPending ==
  /\ zstart # "ok" => ~zrec.running
  /\ zstart = "wait" => zrec.run # zrun /\ (zstop.pc # "idle" => zstop.run # zrun)

(* The result file is of this run wherever this run may be judged by it.    *)
ResultIsOwn ==
  zsock \/ cleared \/ onRecord \/ stopOnRecord \/ (\E w \in Watchers : watching(w))
    => zres.kind = "none" \/ zres.run = zrun

ResultIsTrue == zres.kind = "guest" /\ zres.run = zrun => zhist.off

(* A watcher about to record a shutdown of this run has seen one.           *)
WatchersTrue == \A w \in Watchers : watching(w) /\ zw[w].pc = "record" => zhist.off

StopIsAsked == zstop.pc # "idle" => zhist.asked

byGuest == zrec.reason = "guest" /\ zrec.desired = "stopped"

(* A run nobody stopped: its record is open until its helper is dead.       *)
Unasked ==
  ~zhist.asked /\ onRecord =>
    /\ zrec.running => zrec.reason = Unset \/ byGuest
    /\ ~zrec.running => zh.pc = "dead" /\ (zres.kind = "guest" => byGuest)

OwnBridges == cleared => \A f \in zfiles : f[2] = zrun

VZInv ==
  /\ VZTypeOK /\ Past /\ MachineFirst /\ StartPending /\ ResultIsOwn /\ ResultIsTrue
  /\ WatchersTrue /\ StopIsAsked /\ Unasked /\ CrashNotGuest /\ OwnBridges

(* Unset is not one of the values.                                          *)
LEMMA UnsetIsNoReason ==
  Unset \notin {"user", "host", "guest", "crash", "running", "stopped"}
  BY DEF Unset

(* Start saves the record of the run that waits.                            *)
LEMMA StartSeenStep ==
  ASSUME VZInv, startSeen
  PROVE  VZInv'
<1>0. VZTypeOK /\ Past
  BY DEF VZInv
<1>1. zrec' \in Record
  BY <1>0 DEF VZTypeOK, Record, startSeen, Helper, Result, Stop, History
<1>2. VZTypeOK'
  BY <1>0, <1>1 DEF VZTypeOK, startSeen
<1>3. /\ zstart = "wait" /\ zstart' = "ok" /\ zsock
      /\ zrec'.running /\ zrec'.run = zrun /\ zrec'.reason = Unset
      /\ UNCHANGED <<zrun, zh, zsock, zres, zfiles, zstop, zhist, zw>>
  BY <1>0 DEF VZTypeOK, Record, startSeen
<1>4. Past'
  BY <1>0, <1>3 DEF VZTypeOK, Past
<1>. QED
  BY <1>2, <1>3, <1>4, UnsetIsNoReason DEF VZInv, isAliveZ, serving, watching,
         WatchersTrue, MachineFirst, StartPending, ResultIsOwn, ResultIsTrue, StopIsAsked,
         Unasked, CrashNotGuest, OwnBridges, cleared, onRecord, stopOnRecord, byGuest

(* A start that takes too long.                                             *)
LEMMA StartTimeoutStep ==
  ASSUME VZInv, startTimeout
  PROVE  VZInv'
<1>0. VZTypeOK /\ Past
  BY DEF VZInv
<1>1. zh' \in Helper
  BY <1>0 DEF VZTypeOK, Helper, startTimeout
<1>2. VZTypeOK'
  BY <1>0, <1>1 DEF VZTypeOK, startTimeout
<1>3. /\ zstart = "wait" /\ zstart' = "failed"
      /\ zh'.pc = "dead" /\ zh'.st = zh.st
      /\ zhist'.off = zhist.off /\ zhist'.asked = zhist.asked /\ zhist'.late = zhist.late
      /\ UNCHANGED <<zrun, zsock, zres, zfiles, zstop, zrec, zw>>
  BY <1>0 DEF VZTypeOK, Helper, startTimeout
<1>4. Past'
  BY <1>0, <1>3 DEF VZTypeOK, Past
<1>. QED
  BY <1>2, <1>3, <1>4, UnsetIsNoReason DEF VZInv, isAliveZ, serving, watching,
         WatchersTrue, MachineFirst, StartPending, ResultIsOwn, ResultIsTrue, StopIsAsked,
         Unasked, CrashNotGuest, OwnBridges, cleared, onRecord, stopOnRecord, byGuest

(* The machine has ended and the result is written.                         *)
LEMMA WatchStatesStep ==
  ASSUME VZInv, watchStates
  PROVE  VZInv'
<1>0. VZTypeOK /\ Past
  BY DEF VZInv
<1>1. zh' \in Helper
  BY <1>0 DEF VZTypeOK, Helper, watchStates, outcomeOf
<1>2. zres' \in Result
  BY <1>0 DEF VZTypeOK, Result, watchStates, outcomeOf
<1>3. VZTypeOK'
  BY <1>0, <1>1, <1>2 DEF VZTypeOK, watchStates
<1>4. /\ zh.pc = "up" /\ zh'.pc = "written" /\ zh'.st = zh.st
      /\ zres'.run = zrun /\ (zres'.kind = "guest" => zh.st = "stopped")
      /\ UNCHANGED <<zrun, zsock, zfiles, zstart, zstop, zrec, zhist, zw>>
  BY <1>0 DEF VZTypeOK, Helper, Result, watchStates, outcomeOf
<1>5. Past'
  BY <1>0, <1>4 DEF VZTypeOK, Past
<1>. QED
  BY <1>3, <1>4, <1>5, UnsetIsNoReason DEF VZInv, isAliveZ, serving, watching,
         WatchersTrue, MachineFirst, StartPending, ResultIsOwn, ResultIsTrue, StopIsAsked,
         Unasked, CrashNotGuest, OwnBridges, cleared, onRecord, stopOnRecord, byGuest

(* A stop ends.                                                             *)
LEMMA StopEndStep ==
  ASSUME VZInv, stopEnd
  PROVE  VZInv'
<1>0. VZTypeOK /\ Past
  BY DEF VZInv
<1>1. zh' \in Helper
  BY <1>0 DEF VZTypeOK, Helper, stopEnd
<1>2. zhist' \in History
  BY <1>0 DEF VZTypeOK, History, stopEnd
<1>3. zrec' \in Record
  BY <1>0 DEF VZTypeOK, Record, stopEnd, Helper, Result, Stop, History
<1>4. zstop' \in Stop
  BY <1>0 DEF VZTypeOK, Stop, stopEnd, Helper, Result, Record, History
<1>5. VZTypeOK'
  BY <1>0, <1>1, <1>2, <1>3, <1>4 DEF VZTypeOK, stopEnd
<1>6. /\ zstop.pc = "wait" /\ zstop'.pc = "idle" /\ zstop'.run = 0
      /\ zh'.pc \in {zh.pc, "dead"} /\ zh'.st = zh.st
      /\ zhist'.off = zhist.off /\ zhist'.asked = zhist.asked /\ zhist'.late = zhist.late
      /\ ~zrec'.running /\ zrec'.run = zstop.run /\ zrec'.reason \in {Unset, "user", "host"}
      /\ UNCHANGED <<zrun, zsock, zres, zfiles, zstart, zw>>
  BY <1>0 DEF VZTypeOK, Helper, History, Record, Stop, stopEnd
<1>7. Past'
  BY <1>0, <1>6 DEF VZTypeOK, Past
<1>. QED
  BY <1>5, <1>6, <1>7, UnsetIsNoReason DEF VZInv, isAliveZ, serving, watching,
         WatchersTrue, MachineFirst, StartPending, ResultIsOwn, ResultIsTrue, StopIsAsked,
         Unasked, CrashNotGuest, OwnBridges, cleared, onRecord, stopOnRecord, byGuest

(* A start: the run is a new one, and nothing on file is of it.             *)
LEMMA StartDetachedStep ==
  ASSUME VZInv, startDetached
  PROVE  VZInv'
<1>0. VZTypeOK /\ Past
  BY DEF VZInv
<1>1. zh' \in Helper
  BY <1>0 DEF VZTypeOK, Helper, startDetached
<1>2. zhist' \in History
  BY <1>0, Zenon DEF VZTypeOK, History, startDetached, NoHist
<1>3. zrun \in Nat /\ zrun' = zrun + 1 /\ UNCHANGED <<zres, zrec, zstop, zw>>
  BY <1>0 DEF VZTypeOK, startDetached
<1>4. zrun' \in Nat /\ Past'
  BY <1>0, <1>3 DEF Past
<1>5. /\ zres.run # zrun' /\ zrec.run # zrun' /\ zstop.run # zrun'
      /\ \A w \in Watchers : zw[w].run # zrun'
  BY <1>0, <1>3 DEF Past
<1>6. /\ ~isAliveZ /\ ~zrec.running /\ zh'.pc = "load" /\ zh'.st = "none"
      /\ zsock' = FALSE /\ zstart' = "wait" /\ (zstop.pc # "idle" => zhist'.asked)
      /\ UNCHANGED <<zres, zrec, zstop, zw>>
  BY Zenon, <1>0 DEF VZTypeOK, Helper, History, startDetached, NoHist
<1>7. VZTypeOK'
  BY Zenon, <1>0, <1>1, <1>2, <1>4, <1>6 DEF VZTypeOK
<1>8. MachineFirst' /\ StartPending'
  BY <1>5, <1>6 DEF VZInv, MachineFirst, StartPending
<1>9. ResultIsOwn' /\ ResultIsTrue' /\ WatchersTrue'
  BY <1>5, <1>6 DEF ResultIsOwn, ResultIsTrue, WatchersTrue, cleared, onRecord, stopOnRecord, watching
<1>10. StopIsAsked' /\ Unasked' /\ CrashNotGuest' /\ OwnBridges'
  BY <1>5, <1>6 DEF StopIsAsked, Unasked, CrashNotGuest, OwnBridges, cleared, onRecord
<1>. QED
  BY <1>4, <1>7, <1>8, <1>9, <1>10 DEF VZInv

(* The helper gives up with an error before it serves.                      *)
LEMMA GiveUpStep ==
  ASSUME VZInv, zh.pc \in {"load", "starting", "listen"}, exitWith("error"),
         UNCHANGED <<zrun, zsock, zfiles, zstart, zw, zstop, zrec, zhist>>
  PROVE  VZInv'
<1>0. VZTypeOK /\ Past
  BY DEF VZInv
<1>1. zh' \in Helper
  BY <1>0 DEF VZTypeOK, Helper, exitWith
<1>2. zres' \in Result
  BY <1>0 DEF VZTypeOK, Result, exitWith
<1>3. VZTypeOK'
  BY <1>0, <1>1, <1>2 DEF VZTypeOK
<1>4. /\ zh'.pc = "dead" /\ zh'.st = zh.st /\ zres'.run = zrun /\ zres'.kind = "error"
      /\ UNCHANGED <<zrun, zsock, zfiles, zstart, zstop, zrec, zhist, zw>>
  BY <1>0 DEF VZTypeOK, Helper, Result, exitWith
<1>5. Past'
  BY <1>0, <1>4 DEF VZTypeOK, Past
<1>. QED
  BY <1>3, <1>4, <1>5, UnsetIsNoReason DEF VZInv, isAliveZ, serving, watching,
         WatchersTrue, MachineFirst, StartPending, ResultIsOwn, ResultIsTrue, StopIsAsked,
         Unasked, CrashNotGuest, OwnBridges, cleared, onRecord, stopOnRecord, byGuest

(* The helper clears what an earlier run left.                              *)
LEMMA RunVMStep ==
  ASSUME VZInv, zh.pc = "load", zh' = [zh EXCEPT !.pc = "starting"], zsock' = FALSE, zfiles' = {},
         zres' = [run |-> 0, kind |-> "none"], UNCHANGED <<zrun, zstart, zw, zstop, zrec, zhist>>
  PROVE  VZInv'
<1>0. VZTypeOK /\ Past
  BY DEF VZInv
<1>1. zh' \in Helper
  BY <1>0 DEF VZTypeOK, Helper
<1>2. zres' \in Result
  BY <1>0 DEF VZTypeOK, Result
<1>3. VZTypeOK'
  BY Zenon, <1>0, <1>1, <1>2 DEF VZTypeOK
<1>4. /\ zh'.pc = "starting" /\ zh'.st = zh.st /\ zres'.run = 0 /\ zres'.kind = "none"
      /\ ~zsock' /\ zfiles' = {}
      /\ UNCHANGED <<zrun, zstart, zstop, zrec, zhist, zw>>
  BY <1>0 DEF VZTypeOK, Helper, Result
<1>5. Past'
  BY <1>0, <1>4 DEF VZTypeOK, Past
<1>. QED
  BY <1>3, <1>4, <1>5, UnsetIsNoReason DEF VZInv, isAliveZ, serving, watching,
         WatchersTrue, MachineFirst, StartPending, ResultIsOwn, ResultIsTrue, StopIsAsked,
         Unasked, CrashNotGuest, OwnBridges, cleared, onRecord, stopOnRecord, byGuest

(* The machine starts.                                                      *)
LEMMA StartMachineStep ==
  ASSUME VZInv, zh.pc = "starting", zh' = [zh EXCEPT !.pc = "listen", !.st = "running"],
         UNCHANGED <<zres, zsock, zfiles>>, UNCHANGED <<zrun, zstart, zw, zstop, zrec, zhist>>
  PROVE  VZInv'
<1>0. VZTypeOK /\ Past
  BY DEF VZInv
<1>1. zh' \in Helper
  BY Zenon, <1>0 DEF VZTypeOK, Helper
<1>2. VZTypeOK'
  BY <1>0, <1>1 DEF VZTypeOK
<1>3. /\ zh'.pc = "listen" /\ zh'.st = "running"
      /\ UNCHANGED <<zrun, zsock, zres, zfiles, zstart, zstop, zrec, zhist, zw>>
  BY <1>0 DEF VZTypeOK, Helper
<1>4. Past'
  BY <1>0, <1>3 DEF VZTypeOK, Past
<1>. QED
  BY <1>2, <1>3, <1>4, UnsetIsNoReason DEF VZInv, isAliveZ, serving, watching,
         WatchersTrue, MachineFirst, StartPending, ResultIsOwn, ResultIsTrue, StopIsAsked,
         Unasked, CrashNotGuest, OwnBridges, cleared, onRecord, stopOnRecord, byGuest

(* The control socket is bound.                                             *)
LEMMA ListenStep ==
  ASSUME VZInv, zh.pc = "listen", zh' = [zh EXCEPT !.pc = "up"], zsock' = TRUE,
         UNCHANGED <<zres, zfiles>>, UNCHANGED <<zrun, zstart, zw, zstop, zrec, zhist>>
  PROVE  VZInv'
<1>0. VZTypeOK /\ Past
  BY DEF VZInv
<1>1. zh' \in Helper
  BY <1>0 DEF VZTypeOK, Helper
<1>2. VZTypeOK'
  BY <1>0, <1>1 DEF VZTypeOK
<1>3. /\ zh'.pc = "up" /\ zh'.st = zh.st /\ zsock'
      /\ UNCHANGED <<zrun, zres, zfiles, zstart, zstop, zrec, zhist, zw>>
  BY <1>0 DEF VZTypeOK, Helper
<1>4. Past'
  BY <1>0, <1>3 DEF VZTypeOK, Past
<1>. QED
  BY <1>2, <1>3, <1>4, UnsetIsNoReason DEF VZInv, isAliveZ, serving, watching,
         WatchersTrue, MachineFirst, StartPending, ResultIsOwn, ResultIsTrue, StopIsAsked,
         Unasked, CrashNotGuest, OwnBridges, cleared, onRecord, stopOnRecord, byGuest

(* The waiters are released.                                                *)
LEMMA PublishOutcomeStep ==
  ASSUME VZInv, closeShutdownDone
  PROVE  VZInv'
<1>0. VZTypeOK /\ Past
  BY DEF VZInv
<1>1. zh' \in Helper
  BY <1>0 DEF VZTypeOK, Helper, closeShutdownDone
<1>2. VZTypeOK'
  BY <1>0, <1>1 DEF VZTypeOK, closeShutdownDone
<1>3. /\ zh.pc = "written" /\ zh'.pc = "draining" /\ zh'.st = zh.st
      /\ UNCHANGED <<zrun, zsock, zres, zfiles, zstart, zstop, zrec, zhist, zw>>
  BY <1>0 DEF VZTypeOK, Helper, closeShutdownDone
<1>4. Past'
  BY <1>0, <1>3 DEF VZTypeOK, Past
<1>. QED
  BY <1>2, <1>3, <1>4, UnsetIsNoReason DEF VZInv, isAliveZ, serving, watching,
         WatchersTrue, MachineFirst, StartPending, ResultIsOwn, ResultIsTrue, StopIsAsked,
         Unasked, CrashNotGuest, OwnBridges, cleared, onRecord, stopOnRecord, byGuest

(* The helper exits by itself.                                              *)
LEMMA HelperExitStep ==
  ASSUME VZInv, helperExit
  PROVE  VZInv'
<1>0. VZTypeOK /\ Past
  BY DEF VZInv
<1>1. zh' \in Helper
  BY <1>0 DEF VZTypeOK, Helper, helperExit
<1>2. VZTypeOK'
  BY Zenon, <1>0, <1>1 DEF VZTypeOK, helperExit
<1>3. /\ zh.pc = "draining" /\ zh'.pc = "dead" /\ zh'.st = zh.st /\ ~zsock'
      /\ UNCHANGED <<zrun, zres, zstart, zstop, zrec, zhist, zw>>
  BY <1>0 DEF VZTypeOK, Helper, helperExit
<1>4. Past'
  BY <1>0, <1>3 DEF VZTypeOK, Past
<1>. QED
  BY <1>2, <1>3, <1>4, UnsetIsNoReason DEF VZInv, isAliveZ, serving, watching,
         WatchersTrue, MachineFirst, StartPending, ResultIsOwn, ResultIsTrue, StopIsAsked,
         Unasked, CrashNotGuest, OwnBridges, cleared, onRecord, stopOnRecord, byGuest

(* The guest powers off.                                                    *)
LEMMA GuestOffStep ==
  ASSUME VZInv, guestOff
  PROVE  VZInv'
<1>0. VZTypeOK /\ Past
  BY DEF VZInv
<1>1. zh' \in Helper
  BY <1>0 DEF VZTypeOK, Helper, guestOff, isAliveZ
<1>2. zhist' \in History
  BY Zenon, <1>0 DEF VZTypeOK, History, guestOff, isAliveZ
<1>3. VZTypeOK'
  BY <1>0, <1>1, <1>2 DEF VZTypeOK, guestOff
<1>4. /\ zh.st = "running" /\ isAliveZ /\ zh'.pc = zh.pc /\ zh'.st = "stopped"
      /\ zhist'.off /\ zhist'.asked = zhist.asked /\ zhist'.late = zhist.late
      /\ UNCHANGED <<zrun, zsock, zres, zfiles, zstart, zstop, zrec, zw>>
  BY <1>0 DEF VZTypeOK, Helper, History, guestOff, isAliveZ
<1>5. Past'
  BY <1>0, <1>4 DEF VZTypeOK, Past
<1>. QED
  BY <1>3, <1>4, <1>5, UnsetIsNoReason DEF VZInv, isAliveZ, serving, watching,
         WatchersTrue, MachineFirst, StartPending, ResultIsOwn, ResultIsTrue, StopIsAsked,
         Unasked, CrashNotGuest, OwnBridges, cleared, onRecord, stopOnRecord, byGuest

(* The machine fails.                                                       *)
LEMMA MachineErrorStep ==
  ASSUME VZInv, machineError
  PROVE  VZInv'
<1>0. VZTypeOK /\ Past
  BY DEF VZInv
<1>1. zh' \in Helper
  BY <1>0 DEF VZTypeOK, Helper, machineError, isAliveZ
<1>2. VZTypeOK'
  BY <1>0, <1>1 DEF VZTypeOK, machineError
<1>3. /\ zh.st = "running" /\ isAliveZ /\ zh'.pc = zh.pc /\ zh'.st = "error"
      /\ UNCHANGED <<zrun, zsock, zres, zfiles, zstart, zstop, zrec, zhist, zw>>
  BY <1>0 DEF VZTypeOK, Helper, machineError, isAliveZ
<1>4. Past'
  BY <1>0, <1>3 DEF VZTypeOK, Past
<1>. QED
  BY <1>2, <1>3, <1>4, UnsetIsNoReason DEF VZInv, isAliveZ, serving, watching,
         WatchersTrue, MachineFirst, StartPending, ResultIsOwn, ResultIsTrue, StopIsAsked,
         Unasked, CrashNotGuest, OwnBridges, cleared, onRecord, stopOnRecord, byGuest

(* The helper is killed.                                                    *)
LEMMA HelperKilledStep ==
  ASSUME VZInv, helperKilled
  PROVE  VZInv'
<1>0. VZTypeOK /\ Past
  BY DEF VZInv
<1>1. zh' \in Helper
  BY <1>0 DEF VZTypeOK, Helper, helperKilled, isAliveZ
<1>2. zhist' \in History
  BY <1>0 DEF VZTypeOK, History, helperKilled, isAliveZ
<1>3. VZTypeOK'
  BY <1>0, <1>1, <1>2 DEF VZTypeOK, helperKilled
<1>4. /\ isAliveZ /\ zh'.pc = "dead" /\ zh'.st = zh.st
      /\ zhist'.off = zhist.off /\ zhist'.asked = zhist.asked /\ zhist'.late = zhist.late
      /\ UNCHANGED <<zrun, zsock, zres, zfiles, zstart, zstop, zrec, zw>>
  BY <1>0 DEF VZTypeOK, Helper, History, helperKilled, isAliveZ
<1>5. Past'
  BY <1>0, <1>4 DEF VZTypeOK, Past
<1>. QED
  BY <1>3, <1>4, <1>5, UnsetIsNoReason DEF VZInv, isAliveZ, serving, watching,
         WatchersTrue, MachineFirst, StartPending, ResultIsOwn, ResultIsTrue, StopIsAsked,
         Unasked, CrashNotGuest, OwnBridges, cleared, onRecord, stopOnRecord, byGuest

(* A stop of the VM on record begins.                                       *)
LEMMA StopBeginStep ==
  ASSUME VZInv, NEW reason \in {"user", "host"}, stopBegin(reason)
  PROVE  VZInv'
<1>0. VZTypeOK /\ Past
  BY DEF VZInv
<1>1. zstop' \in Stop
  BY <1>0 DEF VZTypeOK, Stop, stopBegin, Helper, Result, Record, History
<1>2. zhist' \in History
  BY Zenon, <1>0 DEF VZTypeOK, History, stopBegin
<1>3. VZTypeOK'
  BY <1>0, <1>1, <1>2 DEF VZTypeOK, stopBegin
<1>4. /\ zrec.running /\ zstop'.run = zrec.run
      /\ zhist'.off = zhist.off /\ zhist'.asked /\ zhist'.late = zhist.late
      /\ UNCHANGED <<zrun, zh, zsock, zres, zfiles, zstart, zrec, zw>>
  BY <1>0 DEF VZTypeOK, Stop, History, stopBegin
<1>5. Past'
  BY <1>0, <1>4 DEF VZTypeOK, Past
<1>. QED
  BY <1>3, <1>4, <1>5, UnsetIsNoReason DEF VZInv, isAliveZ, serving, watching,
         WatchersTrue, MachineFirst, StartPending, ResultIsOwn, ResultIsTrue, StopIsAsked,
         Unasked, CrashNotGuest, OwnBridges, cleared, onRecord, stopOnRecord, byGuest

(* The helper is asked to stop.                                             *)
LEMMA OpStopStep ==
  ASSUME VZInv, opStop
  PROVE  VZInv'
<1>0. VZTypeOK /\ Past
  BY DEF VZInv
<1>1. zh' \in Helper
  BY Zenon, <1>0 DEF VZTypeOK, Helper, opStop
<1>2. zstop' \in Stop
  BY <1>0 DEF VZTypeOK, Stop, opStop, Helper, Result, Record, History
<1>3. VZTypeOK'
  BY <1>0, <1>1, <1>2 DEF VZTypeOK, opStop
<1>4. /\ zstop.pc = "op" /\ zstop'.pc = "wait" /\ zstop'.run = zstop.run
      /\ zh'.pc = zh.pc /\ zh'.st = zh.st
      /\ UNCHANGED <<zrun, zsock, zres, zfiles, zstart, zrec, zhist, zw>>
  BY <1>0 DEF VZTypeOK, Helper, Stop, opStop
<1>5. Past'
  BY <1>0, <1>4 DEF VZTypeOK, Past
<1>. QED
  BY <1>3, <1>4, <1>5, UnsetIsNoReason DEF VZInv, isAliveZ, serving, watching,
         WatchersTrue, MachineFirst, StartPending, ResultIsOwn, ResultIsTrue, StopIsAsked,
         Unasked, CrashNotGuest, OwnBridges, cleared, onRecord, stopOnRecord, byGuest

(* List finds the helper dead.                                              *)
LEMMA CleanupStep ==
  ASSUME VZInv, cleanupStaleVMZ
  PROVE  VZInv'
<1>0. VZTypeOK /\ Past
  BY DEF VZInv
<1>1. zrec' \in Record
  BY ZenonT(60), <1>0 DEF VZTypeOK, Record, cleanupStaleVMZ, isAliveZ, Helper, Result, Stop, History
<1>2. VZTypeOK'
  BY <1>0, <1>1 DEF VZTypeOK, cleanupStaleVMZ
<1>3. /\ zrec.running /\ zrec.run = zrun /\ ~isAliveZ
      /\ ~zrec'.running /\ zrec'.run = zrec.run
      /\ zrec.reason # Unset => zrec'.reason = zrec.reason /\ zrec'.desired = zrec.desired
      /\ zrec.reason = Unset /\ zres.kind = "guest" => zrec'.reason = "guest" /\ zrec'.desired = "stopped"
      /\ zrec.reason = Unset /\ zres.kind # "guest" => zrec'.reason = "crash"
      /\ UNCHANGED <<zrun, zh, zsock, zres, zfiles, zstart, zstop, zhist, zw>>
  BY <1>0 DEF VZTypeOK, Record, cleanupStaleVMZ, isAliveZ
<1>4. Past'
  BY <1>0, <1>3 DEF VZTypeOK, Past
<1>. QED
  BY <1>2, <1>3, <1>4, UnsetIsNoReason DEF VZInv, isAliveZ, serving, watching,
         WatchersTrue, MachineFirst, StartPending, ResultIsOwn, ResultIsTrue, StopIsAsked,
         Unasked, CrashNotGuest, OwnBridges, cleared, onRecord, stopOnRecord, byGuest

(* A bridge is opened.                                                      *)
LEMMA BridgeStep ==
  ASSUME VZInv, NEW p \in VsockPorts, connectBridge(p)
  PROVE  VZInv'
<1>0. VZTypeOK /\ Past
  BY DEF VZInv
<1>1. VZTypeOK'
  BY <1>0 DEF VZTypeOK, connectBridge
<1>2. /\ zfiles' = {f \in zfiles : f[1] # p} \cup {<<p, zrun>>}
      /\ UNCHANGED <<zrun, zh, zsock, zres, zstart, zstop, zrec, zhist, zw>>
  BY <1>0 DEF VZTypeOK, connectBridge
<1>3. Past'
  BY <1>0, <1>2 DEF VZTypeOK, Past
<1>. QED
  BY <1>1, <1>2, <1>3, UnsetIsNoReason DEF VZInv, isAliveZ, serving, watching,
         WatchersTrue, MachineFirst, StartPending, ResultIsOwn, ResultIsTrue, StopIsAsked,
         Unasked, CrashNotGuest, OwnBridges, cleared, onRecord, stopOnRecord, byGuest

(* The helper exits while Start waits for it.                               *)
LEMMA StartExitedStep ==
  ASSUME VZInv, startExited
  PROVE  VZInv'
<1>0. VZTypeOK /\ Past
  BY DEF VZInv
<1>1. VZTypeOK'
  BY <1>0 DEF VZTypeOK, startExited
<1>2. /\ zstart = "wait" /\ zstart' = "failed"
      /\ UNCHANGED <<zrun, zh, zsock, zres, zfiles, zstop, zrec, zhist, zw>>
  BY <1>0 DEF VZTypeOK, startExited
<1>3. Past'
  BY <1>0, <1>2 DEF VZTypeOK, Past
<1>. QED
  BY <1>1, <1>2, <1>3, UnsetIsNoReason DEF VZInv, isAliveZ, serving, watching,
         WatchersTrue, MachineFirst, StartPending, ResultIsOwn, ResultIsTrue, StopIsAsked,
         Unasked, CrashNotGuest, OwnBridges, cleared, onRecord, stopOnRecord, byGuest

(* The display is no business of the record.                                *)
LEMMA DisplayStep ==
  ASSUME VZInv, showDisplay \/ presentCheck \/ present \/ userCloses \/ windowEnds
  PROVE  VZInv'
<1>1. UNCHANGED <<zrun, zh, zsock, zres, zfiles, zstart, zw, zstop, zrec, zhist>>
  BY DEF showDisplay, presentCheck, present, userCloses, windowEnds
<1>. QED
  BY <1>1 DEF VZInv, VZTypeOK, Past, isAliveZ, serving, watching,
         WatchersTrue, MachineFirst, StartPending, ResultIsOwn, ResultIsTrue, StopIsAsked,
         Unasked, CrashNotGuest, OwnBridges, cleared, onRecord, stopOnRecord, byGuest

(* A watcher begins, learns of the shutdown or is told of another end.      *)
LEMMA WatcherStep ==
  ASSUME VZInv, NEW w \in Watchers,
         watchBegin(w) \/ watchAnswer(w) \/ watchLost(w) \/ watchResult(w)
  PROVE  VZInv'
<1>0. VZTypeOK /\ Past
  BY DEF VZInv
<1>1. UNCHANGED <<zrun, zh, zsock, zres, zfiles, zstart, zstop, zrec, zhist>>
  BY DEF watchBegin, watchAnswer, watchLost, watchResult
<1>2. zw' \in [Watchers -> Watcher] /\ \A u \in Watchers \ {w} : zw'[u] = zw[u]
  BY <1>0 DEF VZTypeOK, Watcher, NoWatch, learn, watchBegin, watchAnswer, watchLost, watchResult
<1>3. /\ zw'[w].run \in {0, zrun, zw[w].run}
      /\ \/ zw'[w].pc = "idle"
         \/ zw'[w].pc # "record" /\ onRecord
         \/ zw[w].pc # "idle" /\ zw'[w].run = zw[w].run /\ (zw'[w].pc = "record" => zres.kind = "guest")
  BY <1>0 DEF VZInv, StartPending, onRecord, VZTypeOK, Watcher, NoWatch, learn,
         watchBegin, watchAnswer, watchLost, watchResult
<1>4. VZTypeOK'
  BY <1>0, <1>1, <1>2 DEF VZTypeOK
<1>5. Past'
  BY <1>0, <1>1, <1>2, <1>3 DEF VZTypeOK, Past
<1>6. \A u \in Watchers : watching(u)' => watching(u) \/ onRecord
  BY <1>1, <1>2, <1>3 DEF watching
<1>7. ResultIsOwn' /\ WatchersTrue'
  BY <1>1, <1>2, <1>3, <1>6 DEF VZInv, ResultIsOwn, ResultIsTrue, WatchersTrue, watching,
         cleared, onRecord, stopOnRecord
<1>. QED
  BY <1>1, <1>4, <1>5, <1>7 DEF VZInv, isAliveZ, serving, MachineFirst, StartPending,
         ResultIsTrue, StopIsAsked, Unasked, CrashNotGuest, OwnBridges, cleared, onRecord, byGuest

(* A watcher records the shutdown it has learnt of.                         *)
LEMMA RecordStep ==
  ASSUME VZInv, NEW w \in Watchers, recordGuestShutdownZ(w)
  PROVE  VZInv'
<1>0. VZTypeOK /\ Past
  BY DEF VZInv
<1>1. zw' \in [Watchers -> Watcher] /\ zw'[w].pc = "idle" /\ zw'[w].run = 0
      /\ \A u \in Watchers \ {w} : zw'[u] = zw[u]
  BY <1>0 DEF VZTypeOK, Watcher, NoWatch, recordGuestShutdownZ
<1>2. zrec' \in Record
  BY Zenon, <1>0 DEF VZTypeOK, Record, recordGuestShutdownZ
<1>3. zhist' \in History
  BY Zenon, <1>0 DEF VZTypeOK, History, recordGuestShutdownZ
<1>4. VZTypeOK'
  BY <1>0, <1>1, <1>2, <1>3 DEF VZTypeOK, recordGuestShutdownZ
<1>5. /\ zw[w].pc = "record"
      /\ zrec'.running = zrec.running /\ zrec'.run = zrec.run /\ zrec'.desired = "stopped"
      /\ zrec'.reason = IF zrec.reason = Unset THEN "guest" ELSE zrec.reason
      /\ zhist'.off = zhist.off /\ zhist'.asked = zhist.asked
      /\ ~zhist'.late => ~zhist.late /\ zw[w].run = zrec.run
      /\ UNCHANGED <<zrun, zh, zsock, zres, zfiles, zstart, zstop>>
  BY Zenon, <1>0 DEF VZTypeOK, Record, History, recordGuestShutdownZ
<1>6. Past'
  BY <1>0, <1>1, <1>5 DEF VZTypeOK, Past
<1>7. ResultIsOwn' /\ WatchersTrue' /\ CrashNotGuest'
  BY <1>1, <1>5 DEF VZInv, ResultIsOwn, ResultIsTrue, WatchersTrue, CrashNotGuest, watching,
         cleared, onRecord, stopOnRecord
<1>. QED
  BY <1>4, <1>5, <1>6, <1>7, UnsetIsNoReason DEF VZInv, isAliveZ, serving, MachineFirst,
         StartPending, ResultIsTrue, StopIsAsked, Unasked, OwnBridges, cleared, onRecord, byGuest

(* No helper yet.                                                           *)
LEMMA VZInitInv == VZInit => VZInv
<1>. SUFFICES ASSUME VZInit PROVE VZInv
  OBVIOUS
<1>1. VZTypeOK
  BY Zenon DEF VZInit, VZTypeOK, Helper, Result, Stop, Record, Watcher, History, NoWatch, NoHist
<1>2. /\ zrun = 0 /\ zres.run = 0 /\ zrec.run = 0 /\ zstop.run = 0
      /\ \A w \in Watchers : zw[w].run = 0
  BY DEF VZInit, NoWatch
<1>3. Past
  BY <1>2 DEF Past
<1>4. /\ zh.pc = "none" /\ zh.st = "none" /\ ~zsock /\ zres.kind = "none" /\ zstart = "idle"
      /\ zstop.pc = "idle" /\ ~zrec.running /\ \A w \in Watchers : zw[w].pc = "idle"
  BY DEF VZInit, NoWatch
<1>. QED
  BY <1>1, <1>3, <1>4 DEF VZInv, WatchersTrue, watching,
         MachineFirst, StartPending, ResultIsOwn, ResultIsTrue, StopIsAsked,
         Unasked, CrashNotGuest, OwnBridges, cleared, onRecord, stopOnRecord, byGuest

(* Every step keeps the invariant.                                          *)
LEMMA VZPreserved == VZInv /\ [VZNext]_vzVars => VZInv'
<1>. SUFFICES ASSUME VZInv, [VZNext]_vzVars PROVE VZInv'
  OBVIOUS
<1>1. CASE startDetached \/ startSeen \/ startExited \/ startTimeout
  BY <1>1, StartDetachedStep, StartSeenStep, StartExitedStep, StartTimeoutStep
<1>2. CASE runVM
  BY Zenon, <1>2, GiveUpStep, RunVMStep DEF runVM
<1>3. CASE startWithLockRetry
  BY <1>3, GiveUpStep, StartMachineStep DEF startWithLockRetry
<1>4. CASE listenControl
  BY Zenon, <1>4, GiveUpStep, ListenStep DEF listenControl
<1>5. CASE watchStates \/ closeShutdownDone \/ helperExit
  BY <1>5, WatchStatesStep, PublishOutcomeStep, HelperExitStep
<1>6. CASE showDisplay \/ presentCheck \/ present \/ userCloses \/ windowEnds
  BY <1>6, DisplayStep
<1>7. CASE \E p \in VsockPorts : connectBridge(p)
  BY <1>7, BridgeStep
<1>8. CASE guestOff \/ machineError \/ helperKilled
  BY <1>8, GuestOffStep, MachineErrorStep, HelperKilledStep
<1>9. CASE \E w \in Watchers : watchBegin(w) \/ watchStep(w)
  BY <1>9, WatcherStep, RecordStep DEF watchStep
<1>10. CASE (\E reason \in {"user", "host"} : stopBegin(reason)) \/ opStop \/ stopEnd
  BY <1>10, StopBeginStep, OpStopStep, StopEndStep
<1>11. CASE cleanupStaleVMZ
  BY <1>11, CleanupStep
<1>12. CASE UNCHANGED vzVars
  BY <1>12 DEF vzVars, VZInv, VZTypeOK, Past, WatchersTrue, watching,
         MachineFirst, StartPending, ResultIsOwn, ResultIsTrue, StopIsAsked,
         Unasked, CrashNotGuest, OwnBridges, cleared, onRecord, stopOnRecord, byGuest
<1>. QED
  BY <1>1, <1>2, <1>3, <1>4, <1>5, <1>6, <1>7, <1>8, <1>9, <1>10, <1>11, <1>12
  DEF VZNext, helper

(* The invariant holds throughout.                                          *)
LEMMA VZInductive == VZSpec => []VZInv
  BY VZInitInv, VZPreserved, PTL DEF VZSpec

(* Why a macOS VM stopped is on record as it was: a guest's own shutdown    *)
(* parks the VM, a crash is never taken for one, and no bridge socket of an *)
(* earlier run is served (watchVZShutdown, cleanupStaleVM, runVM), however  *)
(* many helpers and watchers come and go.                                   *)
THEOREM ReasonsRecorded == VZSpec => []ReasonIsTrue
<1>1. VZInv => ReasonIsTrue
  <2>. SUFFICES ASSUME VZInv PROVE ReasonIsTrue
    OBVIOUS
  <2>1. GuestOffParks
    BY DEF VZInv, GuestOffParks, Unasked, onRecord, byGuest
  <2>2. BridgesServed
    BY DEF VZInv, BridgesServed, OwnBridges, cleared, serving
  <2>. QED
    BY <2>1, <2>2 DEF VZInv, ReasonIsTrue
<1>. QED
  BY <1>1, VZInductive, PTL

(* StartDetached reports a start only when the machine exists, and when it  *)
(* reports a failure no helper is left.                                     *)
THEOREM StartsReported == VZSpec => [][StartIsTrue]_vzVars
<1>1. VZInv /\ [VZNext]_vzVars => [StartIsTrue]_vzVars
  <2>. SUFFICES ASSUME VZInv, VZNext, zstart = "wait", zstart' \in {"ok", "failed"}
                PROVE  StartIsTrue
    BY Zenon DEF StartIsTrue
  <2>1. startSeen \/ startExited \/ startTimeout
    BY Zenon DEF VZNext, helper, watchStep, startDetached, runVM, startWithLockRetry, listenControl,
           watchStates, closeShutdownDone, helperExit, presentCheck, present, windowEnds,
           showDisplay, userCloses, connectBridge, guestOff, machineError, helperKilled,
           watchBegin, watchAnswer, watchLost, watchResult, recordGuestShutdownZ,
           stopBegin, opStop, stopEnd, cleanupStaleVMZ
  <2>2. CASE startSeen
    BY <2>2 DEF startSeen, StartIsTrue, VZInv, MachineFirst
  <2>3. CASE startExited
    BY <2>3 DEF startExited, isAliveZ, StartIsTrue, VZInv, MachineFirst
  <2>4. CASE startTimeout
    BY <2>4 DEF startTimeout, StartIsTrue, VZInv, VZTypeOK, Helper
  <2>. QED
    BY <2>1, <2>2, <2>3, <2>4
<1>. QED
  BY <1>1, VZInductive, PTL DEF VZSpec

-----------------------------------------------------------------------------
(* The wait for a guest.                                                    *)

Rec     == [running : BOOLEAN, pid : ReadyPids \cup {1, NoPidR}, install : {Blank, "pending", "ready"},
            reason : {Blank, "guest", "reboot", "crash"}, phase : Phases \cup {Blank}]
Watch   == [pc : {"new", "run", "emit", "done"}, last : Phases \cup {Blank}, ev : Phases \cup {Blank}]
Fanout  == [pc : {"new", "recv", "save", "send", "drain", "done"}, ev : Phases \cup {Blank}, copy : Rec]
Main    == [pc : {"load", "vz", "first", "alive", "loop", "mark", "save", "await", "done"},
            backend : {"qemu", "vz"}, probed : BOOLEAN, view : Rec, copy : Rec]
Answers == {"none", "notrunning", "exited", "ok", "cancelled", "failed", "timeout"}
Caller  == [pc : {"wait", "returned", "exited"}, kind : {"WaitReady", "spinner"},
            last : Phases \cup {Blank}, res : Answers \cup {"interrupted"}]
Ctx     == [ctx : BOOLEAN, watch : BOOLEAN]
SSHWait == [pc : {"start", "try", "dial", "cloud", "done"}, cloudInit : BOOLEAN, res : Answers,
            moved : BOOLEAN]
Pids    == ReadyPids \cup {1}
Procs   == [last : Pids, new : Pids \cup {NoPidR}, install : {Blank, "pending", "ready"},
            off : SUBSET Pids, untold : SUBSET Pids]

ReadyTypeOK ==
  /\ rrec \in Rec /\ ralive \subseteq ReadyPids \cup {1} /\ up \in BOOLEAN
  /\ rctx \in Ctx
  /\ wt \in Watch /\ wch \in Seq(Phases) /\ fan \in Fanout /\ pch \in Seq(Phases)
  /\ failed \in BOOLEAN /\ mn \in Main /\ errc \in Answers /\ caller \in Caller
  /\ swait \in SSHWait /\ rvm \in Procs /\ lost \in BOOLEAN
  /\ wt.pc = "emit" => wt.ev \in Phases
  /\ fan.pc \in {"save", "send"} => fan.ev \in Phases

(* The goroutines end in order: the watcher, then the fanout, then the main *)
(* one, and what they are called for does not begin before the first does.  *)
EndInOrder ==
  /\ mn.pc = "load" => fan.pc = "new" /\ wt.pc = "new" /\ wch = << >>
  /\ fan.pc = "done" => wt.pc \in {"done", "new"} /\ wch = << >>
  /\ mn.pc = "done" \/ caller.pc = "returned" => fan.pc = "done"

(* The processes are numbered as they are launched.                         *)
Launched ==
  /\ rvm.new \in {NoPidR, rvm.last} /\ rvm.untold \subseteq rvm.off
  /\ \A p \in rvm.off \cup ralive : p <= rvm.last

(* Unless a save has put an old record back, a VM on record as running is   *)
(* the latest process, and a process that is alive is the one on record or  *)
(* that of a Start which has not saved yet.                                 *)
Latest ==
  ~lost /\ rrec.running => rvm.new = NoPidR /\ rrec.pid = rvm.last
RecordNamesProcess ==
  ~lost => \A p \in ralive \ {rvm.new} : rrec.running /\ rrec.pid = p

(* An install pass is pending only on records of the first process, and     *)
(* they say that its guest ended itself only where it did.                  *)
FirstPass(r) ==
  r.install = "pending" =>
    r.running /\ r.pid = 1 /\ (r.reason = "guest" => 1 \in rvm.off \/ lost)
InstallPass ==
  /\ FirstPass(rrec) /\ FirstPass(fan.copy) /\ FirstPass(mn.view) /\ FirstPass(mn.copy)
  /\ rvm.install # "pending"

Tracked == Launched /\ Latest /\ RecordNamesProcess /\ InstallPass

(* The main goroutine answers once, at its end.                             *)
AnswersLast == mn.pc \notin {"await", "done"} => errc = "none"

Terminal == {"Ready", "Failed"}

(* A phase that may be shown after another, and one that the watcher has    *)
(* reached or passed.                                                       *)
Follows(a, b) ==
  a \notin Terminal /\ (b = "Failed" \/ rank(b) > rank(a) \/ (b = a /\ a = "Installing"))
Behind(a, last) == a \notin Terminal /\ rank(a) <= rank(last)

Elems(s) == {s[i] : i \in 1..Len(s)}
Ordered(s) == \A i, j \in 1..Len(s) : i < j => Follows(s[i], s[j])

(* What was shown, what the fanout holds, and what it has not received.     *)
Shown   == {caller.last} \cup Elems(pch)
InHand  == IF fan.ev = Blank THEN {} ELSE {fan.ev}
Waiting == Elems(wch)

(* The phases are in order all the way from the console to the caller.      *)
PhaseChain ==
  /\ Ordered(pch) /\ Ordered(wch)
  /\ \A b \in Elems(pch) : Follows(caller.last, b)
  /\ \A a \in Shown, b \in InHand : Follows(a, b)
  /\ \A a \in Shown \cup InHand, b \in Waiting : Follows(a, b)
  /\ wt.pc = "run"  => /\ wt.last \notin Terminal
                       /\ \A a \in Shown \cup InHand \cup Waiting : Behind(a, wt.last)
  /\ wt.pc = "emit" => /\ wt.ev \notin Terminal => wt.last = wt.ev
                       /\ \A a \in Shown \cup InHand \cup Waiting : Follows(a, wt.ev)
  /\ fan.pc \in {"new", "recv", "drain"} => fan.ev = Blank
  /\ mn.pc = "load" => caller.last = Blank /\ pch = << >> /\ wch = << >> /\ wt.last = Blank

ReadyInv ==
  ReadyTypeOK /\ EndInOrder /\ Tracked /\ ExitedIsTrue /\ AnswersLast /\ PhaseChain

(* The phases by name; no phase and no reason is blank.                     *)
LEMMA PhaseNames ==
  /\ Phases = {"Failed", "Installing", "Ready", "Cloud-init", "Init", "KernelBoot",
               "Bootloader", "BIOS/POST"}
  /\ Blank \notin Phases
  /\ Blank \notin {"guest", "reboot", "crash", "pending", "ready"}
<1>1. Phases = {Order[1], Order[2], Order[3], Order[4], Order[5], Order[6], Order[7], Order[8]}
  <2>1. Len(Order) = 8
    BY DEF Order
  <2>2. 1..8 = {1, 2, 3, 4, 5, 6, 7, 8}
    OBVIOUS
  <2>. QED
    BY <2>1, <2>2 DEF Phases
<1>2. Phases = {"Failed", "Installing", "Ready", "Cloud-init", "Init", "KernelBoot",
               "Bootloader", "BIOS/POST"}
  BY <1>1 DEF Order
<1>. QED
  BY <1>2, Zenon DEF Blank

(* A line is classified as a phase or as nothing.                           *)
LEMMA ClassifyType ==
  ASSUME NEW l \in Lines
  PROVE  classify(l) \in Phases \cup {Blank}
<1>. DEFINE First(i) == Order[i] \in l /\ \A j \in 1..(i-1) : Order[j] \notin l
<1>0. Len(Order) = 8
  BY DEF Order
<1>1. CASE l = {}
  BY <1>1 DEF classify
<1>2. CASE l # {}
  <2>1. \E i \in 1..8 : Order[i] \in l
    BY <1>0, <1>2, LinesAssumption DEF Phases
  <2>2. \E i \in 1..8 : First(i)
    <3>1. CASE Order[1] \in l
      BY <3>1
    <3>2. CASE Order[1] \notin l /\ Order[2] \in l
      <4>1. First(2)
        BY <3>2
      <4>. QED  BY <4>1
    <3>3. CASE Order[1] \notin l /\ Order[2] \notin l /\ Order[3] \in l
      <4>1. First(3)
        BY <3>3
      <4>. QED  BY <4>1
    <3>4. CASE (\A j \in 1..3 : Order[j] \notin l) /\ Order[4] \in l
      <4>1. First(4)
        BY <3>4
      <4>. QED  BY <4>1
    <3>5. CASE (\A j \in 1..4 : Order[j] \notin l) /\ Order[5] \in l
      <4>1. First(5)
        BY <3>5
      <4>. QED  BY <4>1
    <3>6. CASE (\A j \in 1..5 : Order[j] \notin l) /\ Order[6] \in l
      <4>1. First(6)
        BY <3>6
      <4>. QED  BY <4>1
    <3>7. CASE (\A j \in 1..6 : Order[j] \notin l) /\ Order[7] \in l
      <4>1. First(7)
        BY <3>7
      <4>. QED  BY <4>1
    <3>8. CASE (\A j \in 1..7 : Order[j] \notin l) /\ Order[8] \in l
      <4>1. First(8)
        BY <3>8
      <4>. QED  BY <4>1
    <3>. QED
      BY <2>1, <3>1, <3>2, <3>3, <3>4, <3>5, <3>6, <3>7, <3>8
  <2>3. (CHOOSE i \in 1..8 : First(i)) \in 1..8
    BY <2>2
  <2>4. classify(l) = Order[CHOOSE i \in 1..8 : First(i)]
    BY <1>0, <1>2 DEF classify
  <2>. QED
    BY Zenon, <1>0, <2>3, <2>4 DEF Phases
<1>. QED
  BY <1>1, <1>2

(* The rank of each phase.                                                  *)
LEMMA Ranks ==
  /\ rank("BIOS/POST") = 1 /\ rank("Bootloader") = 2 /\ rank("KernelBoot") = 3
  /\ rank("Init") = 4 /\ rank("Cloud-init") = 5 /\ rank("Installing") = 6
  /\ rank("Ready") = 7 /\ rank("Failed") = 0 /\ rank(Blank) = 0
<1>1. Blank \notin Phases
  BY PhaseNames
<1>2. rank(Blank) = 0
  BY <1>1, PhaseNames DEF rank
<1>. QED
  BY <1>2 DEF rank

(* Ranks are small numbers.                                                 *)
LEMMA RankType ==
  ASSUME NEW a \in Phases \cup {Blank}
  PROVE  rank(a) \in 0..7
  BY Ranks, PhaseNames

(* What the watcher reports may follow whatever it has reported before.     *)
LEMMA ReportFollows ==
  ASSUME NEW a \in Phases \cup {Blank}, NEW last \in Phases \cup {Blank}, last \notin Terminal,
         Behind(a, last), NEW ph \in Phases \cup {Blank}, worthTelling(ph, last)
  PROVE  ph \in Phases /\ Follows(a, ph)
<1>1. ph \in Phases
  BY PhaseNames DEF worthTelling
<1>2. CASE ph = "Failed"
  BY <1>1, <1>2 DEF Follows, Behind
<1>3. CASE ph = "Installing"
  <2>1. rank(last) <= 6 /\ rank(ph) = 6
    BY <1>3, Ranks, PhaseNames DEF Terminal
  <2>2. rank(a) < 6 \/ a = "Installing"
    BY <2>1, Ranks, PhaseNames DEF Terminal, Behind
  <2>. QED
    BY <1>1, <1>3, <2>1, <2>2, RankType DEF Follows, Behind
<1>4. CASE ph \notin {"Failed", "Installing"}
  BY <1>1, <1>4, RankType DEF Follows, Behind, worthTelling
<1>. QED
  BY <1>2, <1>3, <1>4

(* A reported phase has everything reported before it behind it.            *)
LEMMA FollowedIsBehind ==
  ASSUME NEW a \in Phases \cup {Blank}, NEW b \in Phases, b \notin Terminal,
         a = b \/ Follows(a, b)
  PROVE  Behind(a, b)
  BY RankType DEF Behind, Follows, Terminal

(* What a channel holds after a send.                                       *)
LEMMA ElemsAppend ==
  ASSUME NEW s \in Seq(Phases), NEW e \in Phases
  PROVE  Append(s, e) \in Seq(Phases) /\ Elems(Append(s, e)) = Elems(s) \cup {e}
<1>1. /\ Append(s, e) \in Seq(Phases) /\ Len(Append(s, e)) = Len(s) + 1 /\ Len(s) \in Nat
      /\ \A i \in 1..Len(s) : Append(s, e)[i] = s[i]
      /\ Append(s, e)[Len(s) + 1] = e
  OBVIOUS
<1>2. Elems(Append(s, e)) \subseteq Elems(s) \cup {e}
  BY <1>1 DEF Elems
<1>3. Elems(s) \cup {e} \subseteq Elems(Append(s, e))
  BY <1>1 DEF Elems
<1>. QED
  BY <1>1, <1>2, <1>3

(* What a channel holds after a receive.                                    *)
LEMMA ElemsTail ==
  ASSUME NEW s \in Seq(Phases), s # << >>
  PROVE  /\ Tail(s) \in Seq(Phases) /\ Head(s) \in Phases
         /\ Elems(s) = {Head(s)} \cup Elems(Tail(s))
<1>1. /\ Tail(s) \in Seq(Phases) /\ Len(s) \in Nat /\ Len(s) >= 1 /\ Len(Tail(s)) = Len(s) - 1
      /\ \A i \in 1..(Len(s) - 1) : Tail(s)[i] = s[i + 1]
      /\ Head(s) = s[1]
  OBVIOUS
<1>2. Head(s) \in Phases
  BY <1>1
<1>3. {Head(s)} \cup Elems(Tail(s)) \subseteq Elems(s)
  BY <1>1 DEF Elems
<1>4. Elems(s) \subseteq {Head(s)} \cup Elems(Tail(s))
  <2>. SUFFICES ASSUME NEW i \in 1..Len(s) PROVE s[i] \in {Head(s)} \cup Elems(Tail(s))
    BY DEF Elems
  <2>1. CASE i = 1
    BY <1>1, <2>1
  <2>2. CASE i # 1
    <3>1. i - 1 \in 1..Len(Tail(s)) /\ s[i] = Tail(s)[i - 1]
      BY <1>1, <2>2
    <3>. QED
      BY <3>1 DEF Elems
  <2>. QED
    BY <2>1, <2>2
<1>. QED
  BY <1>1, <1>2, <1>3, <1>4

(* A channel holds phases.                                                  *)
LEMMA ElemsType ==
  ASSUME NEW s \in Seq(Phases)
  PROVE  Elems(s) \subseteq Phases /\ (s = << >> => Elems(s) = {})
  BY DEF Elems

(* A channel stays in order when what follows all of it is sent.            *)
LEMMA OrderedAppend ==
  ASSUME NEW s \in Seq(Phases), Ordered(s), NEW e \in Phases, \A a \in Elems(s) : Follows(a, e)
  PROVE  Ordered(Append(s, e))
  BY DEF Ordered, Elems

(* A channel stays in order when its head is received.                      *)
LEMMA OrderedTail ==
  ASSUME NEW s \in Seq(Phases), s # << >>, Ordered(s)
  PROVE  Ordered(Tail(s)) /\ \A b \in Elems(Tail(s)) : Follows(Head(s), b)
  BY DEF Ordered, Elems

(* A copy of the record is a record.                                        *)
LEMMA RecTypes ==
  ASSUME ReadyTypeOK
  PROVE  NoRec \in Rec /\ loaded \in Rec
<1>1. NoRec \in Rec
  BY Zenon DEF NoRec, Rec
<1>2. loaded \in Rec
  BY Zenon DEF ReadyTypeOK, loaded, Rec
<1>. QED
  BY <1>1, <1>2

(* watchLine keeps the types.                                               *)
LEMMA WatchLineType ==
  ASSUME ReadyTypeOK, watchLine
  PROVE  ReadyTypeOK'
<1>0. NoRec \in Rec /\ loaded \in Rec
  BY RecTypes
<1>1. wt' \in Watch
  BY Zenon, <1>0, ClassifyType DEF ReadyTypeOK, Watch, watchLine
<1>2. wt'.pc = "emit" => wt'.ev \in Phases
  BY PhaseNames, ClassifyType DEF ReadyTypeOK, Watch, watchLine, worthTelling
<1>. QED
  BY <1>1, <1>2 DEF ReadyTypeOK, watchLine

(* watchIdle keeps the types.                                               *)
LEMMA WatchIdleType ==
  ASSUME ReadyTypeOK, watchIdle
  PROVE  ReadyTypeOK'
<1>0. NoRec \in Rec /\ loaded \in Rec
  BY RecTypes
<1>1. wt' \in Watch
  BY Zenon, <1>0, PhaseNames DEF ReadyTypeOK, Watch, watchIdle
<1>2. wt'.ev \in Phases
  BY PhaseNames DEF ReadyTypeOK, Watch, watchIdle
<1>. QED
  BY <1>1, <1>2 DEF ReadyTypeOK, watchIdle

(* watchEmit keeps the types.                                               *)
LEMMA WatchEmitType ==
  ASSUME ReadyTypeOK, watchEmit
  PROVE  ReadyTypeOK'
<1>0. NoRec \in Rec /\ loaded \in Rec
  BY RecTypes
<1>1. wt' \in Watch
  BY Zenon, <1>0 DEF ReadyTypeOK, Watch, watchEmit, ended
<1>2. wch' \in Seq(Phases)
  BY ElemsAppend DEF ReadyTypeOK, watchEmit
<1>3. wt'.pc # "emit"
  BY DEF ReadyTypeOK, Watch, watchEmit, ended
<1>. QED
  BY <1>1, <1>2, <1>3 DEF ReadyTypeOK, watchEmit, ended

(* watchStop keeps the types.                                               *)
LEMMA WatchStopType ==
  ASSUME ReadyTypeOK, watchStop
  PROVE  ReadyTypeOK'
<1>0. NoRec \in Rec /\ loaded \in Rec
  BY RecTypes
<1>1. wt' \in Watch
  BY <1>0 DEF ReadyTypeOK, Watch, watchStop, ended
<1>2. wt'.pc # "emit"
  BY DEF watchStop, ended
<1>. QED
  BY <1>1, <1>2 DEF ReadyTypeOK, watchStop, ended

(* fanReceive keeps the types.                                              *)
LEMMA FanReceiveType ==
  ASSUME ReadyTypeOK, fanReceive
  PROVE  ReadyTypeOK'
<1>0. NoRec \in Rec /\ loaded \in Rec
  BY RecTypes
<1>1. fan' \in Fanout
  BY Zenon, <1>0, ElemsTail DEF ReadyTypeOK, Fanout, fanReceive, fanTo
<1>2. wch' \in Seq(Phases)
  BY ElemsTail DEF ReadyTypeOK, fanReceive
<1>3. fan'.ev \in Phases
  BY ElemsTail DEF ReadyTypeOK, Fanout, fanReceive, fanTo
<1>. QED
  BY <1>1, <1>2, <1>3 DEF ReadyTypeOK, fanReceive, fanTo

(* persistPhase keeps the types.                                            *)
LEMMA PersistType ==
  ASSUME ReadyTypeOK, persistPhase
  PROVE  ReadyTypeOK'
<1>0. NoRec \in Rec /\ loaded \in Rec
  BY RecTypes
<1>1. rrec' \in Rec
  BY Zenon, <1>0 DEF ReadyTypeOK, Rec, persistPhase, fanTo, Fanout
<1>2. fan' \in Fanout
  BY Zenon, <1>0 DEF ReadyTypeOK, Fanout, persistPhase, fanTo, Fanout
<1>3. fan'.ev = fan.ev /\ fan.pc = "save" /\ lost' \in BOOLEAN
  BY DEF ReadyTypeOK, Fanout, persistPhase, fanTo
<1>. QED
  BY <1>1, <1>2, <1>3 DEF ReadyTypeOK, persistPhase, fanTo, Fanout

(* fanSend keeps the types.                                                 *)
LEMMA FanSendType ==
  ASSUME ReadyTypeOK, fanSend
  PROVE  ReadyTypeOK'
<1>0. NoRec \in Rec /\ loaded \in Rec
  BY RecTypes
<1>1. fan' \in Fanout
  BY Zenon, <1>0 DEF ReadyTypeOK, Fanout, fanSend, fanTo
<1>2. pch' \in Seq(Phases)
  BY ElemsAppend DEF ReadyTypeOK, fanSend
<1>3. failed' \in BOOLEAN
  BY Zenon DEF ReadyTypeOK, fanSend
<1>4. fan'.pc \notin {"save", "send"}
  BY Zenon DEF ReadyTypeOK, Fanout, fanSend, fanTo
<1>. QED
  BY <1>1, <1>2, <1>3, <1>4 DEF ReadyTypeOK, fanSend, fanTo

(* fanDrain keeps the types.                                                *)
LEMMA FanDrainType ==
  ASSUME ReadyTypeOK, fanDrain
  PROVE  ReadyTypeOK'
<1>0. NoRec \in Rec /\ loaded \in Rec
  BY RecTypes
<1>1. wch' \in Seq(Phases)
  BY ElemsTail DEF ReadyTypeOK, fanDrain
<1>. QED
  BY <1>1 DEF ReadyTypeOK, fanDrain

(* fanClose keeps the types.                                                *)
LEMMA FanCloseType ==
  ASSUME ReadyTypeOK, fanClose
  PROVE  ReadyTypeOK'
<1>0. NoRec \in Rec /\ loaded \in Rec
  BY RecTypes
<1>1. fan' \in Fanout
  BY <1>0 DEF ReadyTypeOK, Fanout, fanClose, fanTo
<1>2. fan'.pc = "done"
  BY DEF ReadyTypeOK, Fanout, fanClose, fanTo
<1>. QED
  BY <1>1, <1>2 DEF ReadyTypeOK, fanClose, fanTo

(* mainLoad keeps the types.                                                *)
LEMMA MainLoadType ==
  ASSUME ReadyTypeOK, mainLoad
  PROVE  ReadyTypeOK'
<1>0. NoRec \in Rec /\ loaded \in Rec
  BY RecTypes
<1>1. mn' \in Main
  BY Zenon, <1>0 DEF ReadyTypeOK, Main, mainLoad
<1>2. fan' \in Fanout
  BY DEF ReadyTypeOK, Fanout, mainLoad
<1>3. wt' \in Watch
  BY DEF ReadyTypeOK, Watch, mainLoad
<1>4. errc' \in Answers
  BY DEF ReadyTypeOK, Answers, mainLoad
<1>5. (wt'.pc = wt.pc /\ wt'.ev = wt.ev) \/ wt'.pc # "emit"
  BY DEF ReadyTypeOK, Watch, mainLoad
<1>6. fan'.pc \notin {"save", "send"}
  BY DEF ReadyTypeOK, Fanout, mainLoad
<1>. QED
  BY <1>1, <1>2, <1>3, <1>4, <1>5, <1>6 DEF ReadyTypeOK, mainLoad

(* The main goroutine answers.                                              *)
LEMMA AnswerType ==
  ASSUME ReadyTypeOK, NEW v \in Answers, answer(v)
  PROVE  errc' \in Answers /\ rctx' \in Ctx /\ mn' \in Main
<1>0. NoRec \in Rec
  BY RecTypes
<1>1. errc' \in Answers
  BY DEF answer
<1>2. rctx' \in Ctx
  BY Zenon DEF ReadyTypeOK, Ctx, answer
<1>3. mn' \in Main
  BY Zenon, <1>0 DEF ReadyTypeOK, Main, answer
<1>. QED
  BY <1>1, <1>2, <1>3

(* mainNoProbe keeps the types.                                             *)
LEMMA MainNoProbeType ==
  ASSUME ReadyTypeOK, mainNoProbe
  PROVE  ReadyTypeOK'
<1>0. loaded \in Rec /\ {"exited", "ok", "cancelled", "failed", "timeout"} \subseteq Answers
  BY RecTypes DEF Answers
<1>1. \/ \E v \in Answers : answer(v)
      \/ mn' \in Main /\ UNCHANGED <<errc, rctx>>
  BY <1>0 DEF ReadyTypeOK, Main, mainNoProbe
<1>2. errc' \in Answers /\ rctx' \in Ctx /\ mn' \in Main
  BY <1>1, AnswerType DEF ReadyTypeOK
<1>. QED
  BY <1>2 DEF ReadyTypeOK, mainNoProbe

(* mainFirst keeps the types.                                               *)
LEMMA MainFirstType ==
  ASSUME ReadyTypeOK, mainFirst
  PROVE  ReadyTypeOK'
<1>0. loaded \in Rec /\ {"exited", "ok", "cancelled", "failed", "timeout"} \subseteq Answers
  BY RecTypes DEF Answers
<1>1. \/ \E v \in Answers : answer(v)
      \/ mn' \in Main /\ UNCHANGED <<errc, rctx>>
  BY <1>0 DEF ReadyTypeOK, Main, mainFirst
<1>2. errc' \in Answers /\ rctx' \in Ctx /\ mn' \in Main
  BY <1>1, AnswerType DEF ReadyTypeOK
<1>. QED
  BY <1>2 DEF ReadyTypeOK, mainFirst

(* mainCancelled keeps the types.                                           *)
LEMMA MainCancelledType ==
  ASSUME ReadyTypeOK, mainCancelled
  PROVE  ReadyTypeOK'
<1>0. loaded \in Rec /\ {"exited", "ok", "cancelled", "failed", "timeout"} \subseteq Answers
  BY RecTypes DEF Answers
<1>1. \/ \E v \in Answers : answer(v)
      \/ mn' \in Main /\ UNCHANGED <<errc, rctx>>
  BY <1>0 DEF ReadyTypeOK, Main, mainCancelled
<1>2. errc' \in Answers /\ rctx' \in Ctx /\ mn' \in Main
  BY <1>1, AnswerType DEF ReadyTypeOK
<1>. QED
  BY <1>2 DEF ReadyTypeOK, mainCancelled

(* mainFailed keeps the types.                                              *)
LEMMA MainFailedType ==
  ASSUME ReadyTypeOK, mainFailed
  PROVE  ReadyTypeOK'
<1>0. loaded \in Rec /\ {"exited", "ok", "cancelled", "failed", "timeout"} \subseteq Answers
  BY RecTypes DEF Answers
<1>1. \/ \E v \in Answers : answer(v)
      \/ mn' \in Main /\ UNCHANGED <<errc, rctx>>
  BY <1>0 DEF ReadyTypeOK, Main, mainFailed
<1>2. errc' \in Answers /\ rctx' \in Ctx /\ mn' \in Main
  BY <1>1, AnswerType DEF ReadyTypeOK
<1>3. failed' \in BOOLEAN
  BY Zenon DEF mainFailed
<1>. QED
  BY <1>2, <1>3 DEF ReadyTypeOK, mainFailed

(* mainTick keeps the types.                                                *)
LEMMA MainTickType ==
  ASSUME ReadyTypeOK, mainTick
  PROVE  ReadyTypeOK'
<1>0. loaded \in Rec /\ {"exited", "ok", "cancelled", "failed", "timeout"} \subseteq Answers
  BY RecTypes DEF Answers
<1>1. \/ \E v \in Answers : answer(v)
      \/ mn' \in Main /\ UNCHANGED <<errc, rctx>>
  BY Zenon, <1>0 DEF ReadyTypeOK, Main, mainTick, tickReload
<1>2. errc' \in Answers /\ rctx' \in Ctx /\ mn' \in Main
  BY <1>1, AnswerType DEF ReadyTypeOK
<1>. QED
  BY <1>2 DEF ReadyTypeOK, mainTick

(* markReady keeps the types.                                               *)
LEMMA MarkReadyType ==
  ASSUME ReadyTypeOK, markReady
  PROVE  ReadyTypeOK'
<1>0. loaded \in Rec /\ {"exited", "ok", "cancelled", "failed", "timeout"} \subseteq Answers
  BY RecTypes DEF Answers
<1>1. \/ \E v \in Answers : answer(v)
      \/ mn' \in Main /\ UNCHANGED <<errc, rctx>>
  BY <1>0 DEF ReadyTypeOK, Main, markReady
<1>2. errc' \in Answers /\ rctx' \in Ctx /\ mn' \in Main
  BY <1>1, AnswerType DEF ReadyTypeOK
<1>3. rrec' \in Rec
  BY Zenon, PhaseNames DEF ReadyTypeOK, Main, Rec, markReady
<1>4. lost' \in BOOLEAN
  BY DEF ReadyTypeOK, markReady
<1>. QED
  BY <1>2, <1>3, <1>4 DEF ReadyTypeOK, markReady

(* markReadyLoad keeps the types.                                           *)
LEMMA MarkLoadType ==
  ASSUME ReadyTypeOK, markReadyLoad
  PROVE  ReadyTypeOK'
<1>0. NoRec \in Rec /\ loaded \in Rec
  BY RecTypes
<1>1. mn' \in Main
  BY Zenon, <1>0 DEF ReadyTypeOK, Main, markReadyLoad
<1>. QED
  BY <1>1 DEF ReadyTypeOK, markReadyLoad

(* mainEnd keeps the types.                                                 *)
LEMMA MainEndType ==
  ASSUME ReadyTypeOK, mainEnd
  PROVE  ReadyTypeOK'
<1>0. NoRec \in Rec /\ loaded \in Rec
  BY RecTypes
<1>1. mn' \in Main
  BY Zenon, <1>0 DEF ReadyTypeOK, Main, mainEnd
<1>. QED
  BY <1>1 DEF ReadyTypeOK, mainEnd

(* callerPhase keeps the types.                                             *)
LEMMA CallerPhaseType ==
  ASSUME ReadyTypeOK, callerPhase
  PROVE  ReadyTypeOK'
<1>1. caller' \in Caller
  BY Zenon, ElemsTail DEF ReadyTypeOK, Caller, callerPhase
<1>2. pch' \in Seq(Phases)
  BY ElemsTail DEF ReadyTypeOK, callerPhase
<1>. QED
  BY <1>1, <1>2 DEF ReadyTypeOK, callerPhase

(* callerAnswer keeps the types.                                            *)
LEMMA CallerAnswerType ==
  ASSUME ReadyTypeOK, callerAnswer
  PROVE  ReadyTypeOK'
<1>1. caller' \in Caller
  BY Zenon DEF ReadyTypeOK, Caller, callerAnswer
<1>2. errc' \in Answers
  BY DEF callerAnswer, Answers
<1>. QED
  BY <1>1, <1>2 DEF ReadyTypeOK, callerAnswer

(* interrupt keeps the types.                                               *)
LEMMA InterruptType ==
  ASSUME ReadyTypeOK, interrupt
  PROVE  ReadyTypeOK'
<1>1. caller' \in Caller
  BY Zenon DEF ReadyTypeOK, Caller, interrupt
<1>2. rctx' \in Ctx
  BY Zenon DEF ReadyTypeOK, Ctx, interrupt
<1>. QED
  BY <1>1, <1>2 DEF ReadyTypeOK, interrupt

(* sshBegin keeps the types.                                                *)
LEMMA SSHBeginType ==
  ASSUME ReadyTypeOK, sshBegin
  PROVE  ReadyTypeOK'
<1>1. swait' \in SSHWait
  BY Zenon DEF ReadyTypeOK, SSHWait, sshBegin, swaitTo, Answers
<1>. QED
  BY <1>1 DEF ReadyTypeOK, sshBegin, swaitTo, Answers

(* sshAttempt keeps the types.                                              *)
LEMMA SSHAttemptType ==
  ASSUME ReadyTypeOK, sshAttempt
  PROVE  ReadyTypeOK'
<1>1. swait' \in SSHWait
  BY ZenonT(60) DEF ReadyTypeOK, SSHWait, sshAttempt, swaitTo, Answers, sshView
<1>. QED
  BY <1>1 DEF ReadyTypeOK, sshAttempt, swaitTo, Answers, sshView

(* sshDial keeps the types.                                                 *)
LEMMA SSHDialType ==
  ASSUME ReadyTypeOK, sshDial
  PROVE  ReadyTypeOK'
<1>1. swait' \in SSHWait
  BY Zenon DEF ReadyTypeOK, SSHWait, sshDial, swaitTo, Answers
<1>. QED
  BY <1>1 DEF ReadyTypeOK, sshDial, swaitTo, Answers

(* waitCloudInitDone keeps the types.                                       *)
LEMMA CloudInitType ==
  ASSUME ReadyTypeOK, waitCloudInitDone
  PROVE  ReadyTypeOK'
<1>1. swait' \in SSHWait
  BY ZenonT(60) DEF ReadyTypeOK, SSHWait, waitCloudInitDone, swaitTo, Answers
<1>. QED
  BY <1>1 DEF ReadyTypeOK, waitCloudInitDone, swaitTo, Answers

(* guestUp keeps the types.                                                 *)
LEMMA GuestUpType ==
  ASSUME ReadyTypeOK, guestUp
  PROVE  ReadyTypeOK'
<1>1. up' \in BOOLEAN
  BY DEF ReadyTypeOK, guestUp
<1>. QED
  BY <1>1 DEF ReadyTypeOK, guestUp, envOnly

(* guestEnds keeps the types.                                               *)
LEMMA GuestEndsType ==
  ASSUME ReadyTypeOK, guestEnds
  PROVE  ReadyTypeOK'
<1>1. rvm' \in Procs
  <2>1. PICK p \in ralive : rvm' = [rvm EXCEPT !.off = rvm.off \cup {p}, !.untold = rvm.untold \cup {p}]
    BY DEF guestEnds
  <2>2. rvm.off \cup {p} \in SUBSET Pids /\ rvm.untold \cup {p} \in SUBSET Pids
    BY DEF ReadyTypeOK, Procs, Pids
  <2>. QED
    BY Zenon, <2>1, <2>2 DEF ReadyTypeOK, Procs
<1>2. up' \in BOOLEAN
  BY Zenon DEF guestEnds
<1>. QED
  BY <1>1, <1>2 DEF ReadyTypeOK, guestEnds, envOnly

(* processExit keeps the types.                                             *)
LEMMA ProcessExitType ==
  ASSUME ReadyTypeOK, processExit
  PROVE  ReadyTypeOK'
<1>1. up' \in BOOLEAN
  BY Zenon DEF ReadyTypeOK, processExit
<1>2. ralive' \subseteq ralive
  BY Zenon DEF processExit
<1>. QED
  BY <1>1, <1>2 DEF ReadyTypeOK, processExit, envOnly

(* recordGuestShutdownR keeps the types.                                    *)
LEMMA RecordShutdownType ==
  ASSUME ReadyTypeOK, recordGuestShutdownR
  PROVE  ReadyTypeOK'
<1>1. rrec' \in Rec
  BY Zenon DEF ReadyTypeOK, Rec, recordGuestShutdownR, envOnly
<1>2. rvm' \in Procs
  <2>1. PICK p \in rvm.untold : rvm' = [rvm EXCEPT !.untold = rvm.untold \ {p}]
    BY Zenon DEF recordGuestShutdownR
  <2>2. rvm.untold \ {p} \in SUBSET Pids
    BY DEF ReadyTypeOK, Procs
  <2>. QED
    BY Zenon, <2>1, <2>2 DEF ReadyTypeOK, Procs
<1>3. UNCHANGED <<ralive, up>>
  BY Zenon DEF recordGuestShutdownR
<1>. QED
  BY <1>1, <1>2, <1>3 DEF ReadyTypeOK, recordGuestShutdownR, envOnly

(* rebootStop keeps the types.                                              *)
LEMMA RebootStopType ==
  ASSUME ReadyTypeOK, rebootStop
  PROVE  ReadyTypeOK'
<1>1. rrec' \in Rec
  BY Zenon DEF ReadyTypeOK, Rec, rebootStop, envOnly
<1>2. up' \in BOOLEAN
  BY DEF ReadyTypeOK, rebootStop
<1>. QED
  BY <1>1, <1>2 DEF ReadyTypeOK, rebootStop, envOnly

(* cleanupStaleVMR keeps the types.                                         *)
LEMMA CleanupType ==
  ASSUME ReadyTypeOK, cleanupStaleVMR
  PROVE  ReadyTypeOK'
<1>1. rrec' \in Rec
  BY Zenon DEF ReadyTypeOK, Rec, cleanupStaleVMR, envOnly
<1>2. up' \in BOOLEAN
  BY DEF ReadyTypeOK, cleanupStaleVMR
<1>. QED
  BY <1>1, <1>2 DEF ReadyTypeOK, cleanupStaleVMR, envOnly

(* rebootStart and retryStartWithoutGLR keep the types.                     *)
LEMMA RebootStartType ==
  ASSUME ReadyTypeOK, rebootStart \/ retryStartWithoutGLR
  PROVE  ReadyTypeOK'
<1>1. PICK p \in ReadyPids :
        /\ ralive' \in {ralive, ralive \cup {p}}
        /\ \/ rvm' = [rvm EXCEPT !.last = p, !.new = p, !.install = rrec.install]
           \/ rvm' = [rvm EXCEPT !.last = p, !.new = p]
  BY Zenon DEF rebootStart, retryStartWithoutGLR
<1>2. p \in Pids /\ p \in Pids \cup {NoPidR} /\ rrec.install \in {Blank, "pending", "ready"}
  BY DEF ReadyTypeOK, Rec, Pids
<1>3. rvm' \in Procs
  BY Zenon, <1>1, <1>2 DEF ReadyTypeOK, Procs
<1>4. ralive' \subseteq ReadyPids \cup {1}
  BY <1>1 DEF ReadyTypeOK
<1>5. UNCHANGED <<rrec, up>> /\ envOnly
  BY Zenon DEF rebootStart, retryStartWithoutGLR
<1>. QED
  BY <1>3, <1>4, <1>5 DEF ReadyTypeOK, envOnly

(* startSaveR keeps the types.                                              *)
LEMMA StartSaveType ==
  ASSUME ReadyTypeOK, startSaveR
  PROVE  ReadyTypeOK'
<1>1. rvm.new \in ReadyPids \cup {1, NoPidR} /\ rvm.install \in {Blank, "pending", "ready"}
  BY DEF ReadyTypeOK, Procs, Pids
<1>2. rrec' \in Rec
  BY Zenon, <1>1 DEF startSaveR, Rec
<1>3. rvm' \in Procs
  BY Zenon DEF ReadyTypeOK, startSaveR, Procs
<1>4. UNCHANGED <<ralive, up>> /\ envOnly
  BY Zenon DEF startSaveR
<1>. QED
  BY <1>2, <1>3, <1>4 DEF ReadyTypeOK, envOnly

(* Every step keeps the types.                                              *)
LEMMA ReadyTypes ==
  ASSUME ReadyTypeOK, ReadyNext
  PROVE  ReadyTypeOK'
<1>1. CASE watcher
  BY <1>1, WatchLineType, WatchIdleType, WatchEmitType, WatchStopType DEF watcher
<1>2. CASE fanout
  BY <1>2, FanReceiveType, PersistType, FanSendType, FanDrainType, FanCloseType DEF fanout
<1>3. CASE WaitReadyWithPhases
  BY <1>3, MainLoadType, MainNoProbeType, MainFirstType, MainCancelledType, MainFailedType,
     MainTickType, MarkLoadType, MarkReadyType, MainEndType DEF WaitReadyWithPhases
<1>4. CASE WaitReady \/ interrupt
  BY <1>4, CallerPhaseType, CallerAnswerType, InterruptType DEF WaitReady
<1>5. CASE WaitSSHReady
  BY <1>5, SSHBeginType, SSHAttemptType, SSHDialType, CloudInitType DEF WaitSSHReady
<1>6. CASE guestEnv
  BY Zenon, <1>6, GuestUpType, GuestEndsType, ProcessExitType, RecordShutdownType, CleanupType,
     RebootStopType, RebootStartType, StartSaveType DEF guestEnv
<1>. QED
  BY <1>1, <1>2, <1>3, <1>4, <1>5, <1>6 DEF ReadyNext

(* The order in which the goroutines end.                                   *)
LEMMA EndStep ==
  ASSUME ReadyTypeOK, EndInOrder, ReadyNext
  PROVE  EndInOrder'
<1>1. CASE watcher
  <2>1. wt.pc \in {"run", "emit"} /\ UNCHANGED <<fan, mn, caller>>
    BY Zenon, <1>1 DEF watcher, watchLine, watchIdle, watchEmit, watchStop
  <2>. QED
    BY Zenon, <2>1 DEF EndInOrder
<1>2. CASE fanReceive \/ persistPhase \/ fanSend \/ fanDrain
  <2>1. fan.pc \in {"recv", "save", "send", "drain"} /\ fan'.pc # "done" /\ UNCHANGED <<mn, caller>>
    BY Zenon, <1>2 DEF ReadyTypeOK, Fanout, fanReceive, persistPhase, fanSend, fanDrain, fanTo
  <2>. QED
    BY <2>1 DEF EndInOrder
<1>3. CASE fanClose
  <2>1. /\ fan'.pc = "done" /\ fan.pc \in {"recv", "drain"} /\ wch = << >> /\ wt.pc = "done"
        /\ UNCHANGED <<mn, caller, wt, wch>>
    BY <1>3 DEF ReadyTypeOK, Fanout, fanClose, fanTo
  <2>. QED
    BY <2>1 DEF EndInOrder
<1>4. CASE mainLoad
  <2>1. mn.pc = "load" /\ UNCHANGED <<wch, caller>>
    BY <1>4 DEF mainLoad
  <2>3. mn'.pc # "load"
    <3>1. mn \in Main
      BY DEF ReadyTypeOK
    <3>. QED
      BY Zenon, <1>4, <3>1 DEF Main, mainLoad
  <2>2. \/ mn'.pc = "done" /\ fan'.pc = "done" /\ wt' = wt
        \/ mn'.pc # "done" /\ wt'.pc = "done" /\ fan'.pc = "done"
        \/ mn'.pc # "done" /\ fan'.pc # "done"
    BY ZenonT(60), <1>4 DEF ReadyTypeOK, Main, Watch, Fanout, mainLoad
  <2>. QED
    BY <2>1, <2>2, <2>3 DEF EndInOrder
<1>5. CASE mainNoProbe \/ mainFirst \/ mainCancelled \/ mainFailed \/ mainTick \/ markReadyLoad \/ markReady
  <2>1. UNCHANGED <<wt, wch, fan, caller>>
    BY <1>5 DEF mainNoProbe, mainFirst, mainCancelled, mainFailed, mainTick, markReadyLoad, markReady
  <2>2. mn.pc \notin {"load", "done"} /\ mn'.pc \notin {"load", "done"}
    <3>1. CASE mainNoProbe
      BY Zenon, <3>1 DEF ReadyTypeOK, Main, answer, mainNoProbe
    <3>2. CASE mainFirst
      BY Zenon, <3>2 DEF ReadyTypeOK, Main, answer, mainFirst
    <3>3. CASE mainCancelled
      BY <3>3 DEF ReadyTypeOK, Main, answer, mainCancelled
    <3>4. CASE mainFailed
      BY <3>4 DEF ReadyTypeOK, Main, answer, mainFailed
    <3>5. CASE mainTick
      BY Zenon, <3>5 DEF ReadyTypeOK, Main, answer, mainTick
    <3>6. CASE markReadyLoad
      BY <3>6 DEF ReadyTypeOK, Main, answer, markReadyLoad
    <3>7. CASE markReady
      BY <3>7 DEF ReadyTypeOK, Main, answer, markReady
    <3>. QED
      BY <1>5, <3>1, <3>2, <3>3, <3>4, <3>5, <3>6, <3>7
  <2>. QED
    BY <2>1, <2>2 DEF EndInOrder
<1>6. CASE mainEnd
  <2>1. mn.pc = "await" /\ mn'.pc = "done" /\ fan.pc = "done" /\ UNCHANGED <<wt, wch, fan, caller>>
    BY <1>6 DEF ReadyTypeOK, Main, mainEnd
  <2>. QED
    BY <2>1 DEF EndInOrder
<1>7. CASE WaitReady \/ interrupt
  <2>1. caller'.pc = "returned" => fan.pc = "done"
    BY Zenon, <1>7 DEF ReadyTypeOK, Caller, WaitReady, callerPhase, callerAnswer, interrupt
  <2>2. UNCHANGED <<wt, wch, fan, mn>>
    BY <1>7 DEF WaitReady, callerPhase, callerAnswer, interrupt
  <2>. QED
    BY <2>1, <2>2 DEF EndInOrder
<1>8. CASE WaitSSHReady \/ guestEnv
  <2>1. UNCHANGED <<wt, wch, fan, mn, caller>>
    BY Zenon, <1>8 DEF WaitSSHReady, sshBegin, sshAttempt, sshDial, waitCloudInitDone, swaitTo, guestEnv,
       guestUp, guestEnds, processExit, recordGuestShutdownR, cleanupStaleVMR, rebootStop, rebootStart,
       retryStartWithoutGLR, startSaveR, envOnly
  <2>. QED
    BY <2>1 DEF EndInOrder
<1>. QED
  BY <1>1, <1>2, <1>3, <1>4, <1>5, <1>6, <1>7, <1>8 DEF ReadyNext, fanout, WaitReadyWithPhases

(* A record that is saved or loaded is one of those there were.             *)
LEMMA SameRecords ==
  ASSUME Tracked, UNCHANGED <<ralive, rvm>>, lost => lost',
         ~lost' => rrec'.running = rrec.running /\ rrec'.pid = rrec.pid,
         FirstPass(rrec') \/ rrec'.install # "pending", FirstPass(fan'.copy), FirstPass(mn'.view),
         FirstPass(mn'.copy)
  PROVE  Tracked'
<1>1. ASSUME NEW r, FirstPass(r) \/ r.install # "pending"
      PROVE  r.install = "pending" =>
               r.running /\ r.pid = 1 /\ (r.reason = "guest" => 1 \in rvm'.off \/ lost')
  BY Zenon, <1>1 DEF FirstPass
<1>2. InstallPass'
  BY Zenon, <1>1 DEF Tracked, InstallPass, FirstPass
<1>3. Launched' /\ Latest' /\ RecordNamesProcess'
  BY Zenon DEF Tracked, Launched, Latest, RecordNamesProcess
<1>. QED
  BY Zenon, <1>2, <1>3 DEF Tracked

(* The numbers of the processes.                                            *)
LEMMA PidsAreNumbers ==
  ASSUME ReadyTypeOK
  PROVE  /\ rvm.last \in Nat /\ rvm.off \subseteq Nat \ {0} /\ ralive \subseteq Nat \ {0}
         /\ NoPidR \notin ralive
<1>1. rvm.last \in Pids /\ rvm.off \subseteq Pids /\ ralive \subseteq Pids
  BY Zenon DEF ReadyTypeOK, Procs, Pids
<1>2. Pids \subseteq Nat \ {0} /\ NoPidR \notin Pids
  BY ReadyAssumption DEF Pids, NoPidR
<1>. QED
  BY Zenon, <1>1, <1>2

(* What happens to the VM leaves the copies of its record alone.            *)
LEMMA CopiesKept ==
  ASSUME InstallPass, UNCHANGED <<fan, mn, lost>>, rvm.off \subseteq rvm'.off,
         FirstPass(rrec)', rvm'.install # "pending"
  PROVE  InstallPass'
  BY Zenon DEF InstallPass, FirstPass

(* guestEnds keeps track of the processes.                                  *)
LEMMA GuestEndsTracked ==
  ASSUME ReadyTypeOK, Tracked, guestEnds
  PROVE  Tracked'
<1>1. PICK p \in ralive : rvm' = [rvm EXCEPT !.off = rvm.off \cup {p}, !.untold = rvm.untold \cup {p}]
  BY DEF guestEnds
<1>2. /\ rvm'.off = rvm.off \cup {p} /\ rvm'.untold = rvm.untold \cup {p} /\ rvm'.last = rvm.last
      /\ rvm'.new = rvm.new /\ rvm'.install = rvm.install
  BY <1>1 DEF ReadyTypeOK, Procs
<1>3. UNCHANGED <<rrec, ralive, fan, mn, lost>>
  BY Zenon DEF guestEnds, envOnly
<1>4. Launched' /\ Latest' /\ RecordNamesProcess'
  BY Zenon, <1>2, <1>3 DEF Tracked, Launched, Latest, RecordNamesProcess
<1>5. FirstPass(rrec)' /\ rvm.off \subseteq rvm'.off
  BY Zenon, <1>2, <1>3 DEF Tracked, InstallPass, FirstPass
<1>. QED
  BY Zenon, <1>2, <1>3, <1>4, <1>5, CopiesKept DEF Tracked, InstallPass

(* processExit keeps track of the processes.                                *)
LEMMA ProcessExitTracked ==
  ASSUME ReadyTypeOK, Tracked, processExit \/ guestUp
  PROVE  Tracked'
<1>1. ralive' \subseteq ralive /\ UNCHANGED <<rrec, rvm, fan, mn, lost>>
  BY Zenon DEF processExit, guestUp, envOnly
<1>2. Launched' /\ Latest' /\ RecordNamesProcess'
  BY Zenon, <1>1 DEF Tracked, Launched, Latest, RecordNamesProcess
<1>3. InstallPass'
  BY Zenon, <1>1 DEF Tracked, InstallPass, FirstPass
<1>. QED
  BY Zenon, <1>2, <1>3 DEF Tracked

(* recordGuestShutdownR keeps track: while the first process is the latest, *)
(* no other guest can have ended.                                           *)
LEMMA RecordShutdownTracked ==
  ASSUME ReadyTypeOK, Tracked, recordGuestShutdownR
  PROVE  Tracked'
<1>1. PICK p \in rvm.untold : rvm' = [rvm EXCEPT !.untold = rvm.untold \ {p}]
  BY Zenon DEF recordGuestShutdownR
<1>2. /\ rvm'.off = rvm.off /\ rvm'.untold = rvm.untold \ {p} /\ rvm'.last = rvm.last
      /\ rvm'.new = rvm.new /\ rvm'.install = rvm.install
  BY <1>1 DEF ReadyTypeOK, Procs
<1>3. UNCHANGED <<ralive, fan, mn, lost>>
  BY Zenon DEF recordGuestShutdownR, envOnly
<1>4. rrec'.running = rrec.running /\ rrec'.pid = rrec.pid /\ rrec'.install = rrec.install
  BY Zenon DEF recordGuestShutdownR, ReadyTypeOK, Rec
<1>5. Launched' /\ Latest' /\ RecordNamesProcess'
  BY Zenon, <1>2, <1>3, <1>4 DEF Tracked, Launched, Latest, RecordNamesProcess
<1>6. rrec.install = "pending" => 1 \in rvm.off \/ lost
  <2>1. SUFFICES ASSUME rrec.install = "pending", ~lost PROVE 1 \in rvm.off
    OBVIOUS
  <2>2. rrec.running /\ rrec.pid = 1
    BY Zenon, <2>1 DEF Tracked, InstallPass, FirstPass
  <2>3. rvm.last = 1
    BY Zenon, <2>1, <2>2 DEF Tracked, Latest
  <2>4. p \in rvm.off /\ p <= 1
    BY Zenon, <2>3 DEF Tracked, Launched
  <2>5. p \in Nat \ {0}
    BY Zenon, <2>4, PidsAreNumbers
  <2>6. p = 1
    BY <2>4, <2>5
  <2>. QED
    BY Zenon, <2>4, <2>6
<1>7. FirstPass(rrec)'
  BY Zenon, <1>2, <1>3, <1>4, <1>6 DEF Tracked, InstallPass, FirstPass
<1>. QED
  BY Zenon, <1>2, <1>3, <1>5, <1>7, CopiesKept DEF Tracked, InstallPass

(* rebootStop and cleanupStaleVMR take the record of a process that is gone.*)
LEMMA StoppedTracked ==
  ASSUME ReadyTypeOK, Tracked, rebootStop \/ cleanupStaleVMR
  PROVE  Tracked'
<1>1. UNCHANGED <<ralive, rvm, fan, mn, lost>> /\ rrec.pid \notin ralive
  BY Zenon DEF rebootStop, cleanupStaleVMR, envOnly, isAliveR
<1>2. ~rrec'.running /\ rrec'.install # "pending"
  <2>1. CASE rebootStop
    BY <2>1 DEF rebootStop, ReadyTypeOK, Rec
  <2>2. CASE cleanupStaleVMR
    BY Zenon, <2>2 DEF cleanupStaleVMR, ReadyTypeOK, Rec
  <2>. QED
    BY Zenon, <2>1, <2>2
<1>3. Launched' /\ Latest' /\ RecordNamesProcess'
  BY Zenon, <1>1, <1>2 DEF Tracked, Launched, Latest, RecordNamesProcess
<1>4. FirstPass(rrec)'
  BY Zenon, <1>2 DEF FirstPass
<1>. QED
  BY Zenon, <1>1, <1>3, <1>4, CopiesKept DEF Tracked, InstallPass

(* A Start launches the next process, once or twice, before its record.     *)
LEMMA LaunchTracked ==
  ASSUME ReadyTypeOK, Tracked, rebootStart \/ retryStartWithoutGLR
  PROVE  Tracked'
<1>1. PICK p \in ReadyPids :
        /\ p > rvm.last /\ ralive' \subseteq ralive \cup {p}
        /\ \/ rvm' = [rvm EXCEPT !.last = p, !.new = p, !.install = rrec.install]
              /\ ~rrec.running /\ rvm.new = NoPidR
           \/ rvm' = [rvm EXCEPT !.last = p, !.new = p] /\ rvm.new # NoPidR /\ rvm.new \notin ralive
  BY Zenon DEF rebootStart, retryStartWithoutGLR, isAliveR
<1>2. /\ rvm'.last = p /\ rvm'.new = p /\ rvm'.off = rvm.off /\ rvm'.untold = rvm.untold
      /\ rvm'.install \in {rrec.install, rvm.install}
      /\ rvm'.install = rrec.install => ~rrec.running \/ rvm'.install = rvm.install
  BY <1>1 DEF ReadyTypeOK, Procs
<1>3. UNCHANGED <<rrec, fan, mn, lost>>
  BY Zenon DEF rebootStart, retryStartWithoutGLR, envOnly
<1>4. ~lost => ~rrec.running
  BY Zenon, <1>1 DEF Tracked, Latest
<1>5. ralive \subseteq ralive \ {rvm.new}
  BY Zenon, <1>1, PidsAreNumbers
<1>6. Launched'
  <2>1. p \in Nat /\ rvm.last \in Nat /\ rvm.off \subseteq Nat /\ ralive \subseteq Nat
    BY ReadyAssumption, PidsAreNumbers
  <2>2. \A q \in rvm.off \cup ralive : q <= p
    BY <1>1, <2>1 DEF Tracked, Launched
  <2>3. p <= p
    BY <2>1
  <2>. QED
    BY Zenon, <1>1, <1>2, <2>2, <2>3 DEF Tracked, Launched
<1>7. Latest' /\ RecordNamesProcess'
  BY Zenon, <1>1, <1>2, <1>3, <1>4, <1>5 DEF Tracked, Latest, RecordNamesProcess
<1>8. rvm'.install # "pending"
  BY Zenon, <1>2 DEF Tracked, InstallPass, FirstPass
<1>9. FirstPass(rrec)'
  BY Zenon, <1>2, <1>3 DEF Tracked, InstallPass, FirstPass
<1>. QED
  BY Zenon, <1>2, <1>3, <1>6, <1>7, <1>8, <1>9, CopiesKept DEF Tracked

(* Start's record names the process it launched.                            *)
LEMMA StartSaveTracked ==
  ASSUME ReadyTypeOK, Tracked, startSaveR
  PROVE  Tracked'
<1>1. /\ rvm'.last = rvm.last /\ rvm'.new = NoPidR /\ rvm'.off = rvm.off
      /\ rvm'.untold = rvm.untold /\ rvm'.install = Blank
  BY Zenon DEF startSaveR, ReadyTypeOK, Procs
<1>2. rrec'.running /\ rrec'.pid = rvm.new /\ rrec'.install = rvm.install
  BY Zenon DEF startSaveR
<1>3. UNCHANGED <<ralive, fan, mn, lost>> /\ rvm.new # NoPidR
  BY Zenon DEF startSaveR, envOnly
<1>4. rvm.new = rvm.last
  BY Zenon, <1>3 DEF Tracked, Launched
<1>5. Launched' /\ Latest'
  BY Zenon, <1>1, <1>2, <1>3, <1>4 DEF Tracked, Launched, Latest
<1>6. ~lost => ralive \subseteq {rvm.new}
  BY Zenon, <1>3 DEF Tracked, Latest, RecordNamesProcess
<1>7. RecordNamesProcess'
  BY Zenon, <1>2, <1>3, <1>6 DEF RecordNamesProcess
<1>8. FirstPass(rrec)' /\ rvm'.install # "pending"
  BY Zenon, <1>1, <1>2, PhaseNames DEF Tracked, InstallPass, FirstPass, Blank
<1>. QED
  BY Zenon, <1>1, <1>3, <1>5, <1>7, <1>8, CopiesKept DEF Tracked

(* A copy that is loaded is as the record is; one that is not needed any    *)
(* more is blank.                                                           *)
LEMMA LoadedPass ==
  ASSUME ReadyTypeOK, InstallPass
  PROVE  FirstPass(loaded) /\ FirstPass(NoRec)
<1>1. /\ loaded.running = rrec.running /\ loaded.pid = rrec.pid /\ loaded.install = rrec.install
      /\ loaded.reason = rrec.reason
  BY Zenon DEF loaded, ReadyTypeOK, Rec
<1>2. NoRec.install # "pending"
  BY DEF NoRec, Blank
<1>. QED
  BY Zenon, <1>1, <1>2 DEF InstallPass, FirstPass

(* The goroutines of a wait keep track: they hold records that were there.  *)
LEMMA WaitTracked ==
  ASSUME ReadyTypeOK, Tracked, fanout \/ WaitReadyWithPhases
  PROVE  Tracked'
<1>0. UNCHANGED <<ralive, rvm>> /\ FirstPass(loaded) /\ FirstPass(NoRec) /\ InstallPass
  <2>1. CASE fanout
    BY Zenon, <2>1, LoadedPass DEF Tracked, fanout, fanReceive, persistPhase, fanSend, fanDrain, fanClose
  <2>2. CASE WaitReadyWithPhases
    BY Zenon, <2>2, LoadedPass DEF Tracked, WaitReadyWithPhases, mainLoad, mainNoProbe, mainFirst,
       mainCancelled, mainFailed, mainTick, markReadyLoad, markReady, mainEnd
  <2>. QED
    BY Zenon, <2>1, <2>2
<1>1. CASE fanReceive \/ fanSend \/ fanDrain \/ fanClose
  <2>1. UNCHANGED <<rrec, mn, lost>> /\ fan'.copy \in {fan.copy, loaded}
    BY Zenon, <1>1 DEF ReadyTypeOK, Fanout, fanReceive, fanSend, fanDrain, fanClose, fanTo
  <2>. QED
    BY Zenon, <1>0, <2>1, SameRecords DEF InstallPass
<1>2. CASE persistPhase
  <2>1. /\ mn' = mn /\ (lost => lost') /\ fan'.copy = NoRec
        /\ ~lost' => rrec'.running = rrec.running /\ rrec'.pid = rrec.pid
        /\ rrec'.running = fan.copy.running /\ rrec'.pid = fan.copy.pid
        /\ rrec'.install = fan.copy.install /\ rrec'.reason = fan.copy.reason
    BY Zenon, <1>2 DEF ReadyTypeOK, Rec, Fanout, persistPhase, overwrites, fanTo
  <2>2. FirstPass(rrec')
    BY Zenon, <1>0, <2>1 DEF InstallPass, FirstPass
  <2>. QED
    BY Zenon, <1>0, <2>1, <2>2, SameRecords DEF InstallPass
<1>3. CASE markReady
  <2>1. /\ fan' = fan /\ (lost => lost') /\ mn'.copy = NoRec /\ mn'.view = NoRec
        /\ ~lost' => rrec'.running = rrec.running /\ rrec'.pid = rrec.pid
        /\ rrec'.install = "ready"
    BY Zenon, <1>3 DEF ReadyTypeOK, Rec, Main, markReady, overwrites, answer
  <2>2. rrec'.install # "pending"
    BY <2>1
  <2>. QED
    BY Zenon, <1>0, <2>1, <2>2, SameRecords DEF InstallPass
<1>4. CASE mainLoad
  <2>1. /\ UNCHANGED <<rrec, lost>> /\ fan'.copy = fan.copy /\ mn'.copy = mn.copy
        /\ mn'.view \in {mn.view, loaded}
    BY ZenonT(60), <1>4 DEF ReadyTypeOK, Fanout, Main, mainLoad
  <2>. QED
    BY Zenon, <1>0, <2>1, SameRecords DEF InstallPass
<1>5. CASE mainNoProbe \/ mainFirst \/ mainCancelled \/ mainFailed \/ mainEnd
  <2>1. UNCHANGED <<rrec, fan, lost>> /\ mn'.view \in {mn.view, NoRec} /\ mn'.copy \in {mn.copy, NoRec}
    BY ZenonT(60), <1>5 DEF ReadyTypeOK, Main, answer, mainNoProbe, mainFirst, mainCancelled,
       mainFailed, mainEnd
  <2>. QED
    BY Zenon, <1>0, <2>1, SameRecords DEF InstallPass
<1>6. CASE mainTick \/ markReadyLoad
  <2>1. /\ UNCHANGED <<rrec, fan, lost>> /\ mn'.view \in {mn.view, NoRec, loaded}
        /\ mn'.copy \in {mn.copy, NoRec, loaded}
    BY ZenonT(60), <1>6 DEF ReadyTypeOK, Main, answer, mainTick, tickReload, markReadyLoad
  <2>. QED
    BY Zenon, <1>0, <2>1, SameRecords DEF InstallPass
<1>. QED
  BY Zenon, <1>1, <1>2, <1>3, <1>4, <1>5, <1>6 DEF fanout, WaitReadyWithPhases

(* The record and the process it names.                                     *)
LEMMA ProcessStep ==
  ASSUME ReadyTypeOK, Tracked, ExitedIsTrue, ReadyNext
  PROVE  Tracked' /\ ExitedIsTrue'
<1>1. CASE watcher \/ WaitReady \/ interrupt
  <2>1. UNCHANGED <<rrec, ralive, rvm, fan, mn, swait, lost>>
    BY Zenon, <1>1 DEF watcher, watchLine, watchIdle, watchEmit, watchStop, WaitReady, callerPhase,
       callerAnswer, interrupt
  <2>. QED
    BY Zenon, <2>1 DEF Tracked, Launched, Latest, RecordNamesProcess, InstallPass, FirstPass,
       ExitedIsTrue
<1>2. CASE fanout \/ WaitReadyWithPhases
  <2>1. swait' = swait /\ (lost => lost')
    <3>1. CASE persistPhase \/ markReady
      BY Zenon, <3>1 DEF persistPhase, markReady
    <3>2. fanReceive \/ fanSend \/ fanDrain \/ fanClose => UNCHANGED <<swait, lost>>
      BY Zenon DEF fanReceive, fanSend, fanDrain, fanClose
    <3>3. mainLoad \/ mainNoProbe \/ mainFirst \/ mainCancelled \/ mainFailed => UNCHANGED <<swait, lost>>
      BY Zenon DEF mainLoad, mainNoProbe, mainFirst, mainCancelled, mainFailed
    <3>4. mainTick \/ markReadyLoad \/ mainEnd => UNCHANGED <<swait, lost>>
      BY Zenon DEF mainTick, markReadyLoad, mainEnd
    <3>5. UNCHANGED <<swait, lost>> => swait' = swait /\ (lost => lost')
      OBVIOUS
    <3>. QED
      BY Zenon, <1>2, <3>1, <3>2, <3>3, <3>4, <3>5 DEF fanout, WaitReadyWithPhases
  <2>. QED
    BY Zenon, <1>2, <2>1, WaitTracked DEF ExitedIsTrue
<1>3. CASE WaitSSHReady
  <2>1. UNCHANGED <<rrec, ralive, rvm, fan, mn, lost>>
    BY Zenon, <1>3 DEF WaitSSHReady, sshBegin, sshAttempt, sshDial, waitCloudInitDone, swaitTo
  <2>2. Tracked'
    BY Zenon, <2>1 DEF Tracked, Launched, Latest, RecordNamesProcess, InstallPass, FirstPass
  <2>3. CASE sshBegin \/ sshDial \/ waitCloudInitDone
    <3>1. swait'.moved = swait.moved /\ (swait'.res = "exited" => swait.res = "exited")
      BY ZenonT(60), <2>3 DEF ReadyTypeOK, SSHWait, sshBegin, sshDial, waitCloudInitDone, swaitTo
    <3>. QED
      BY Zenon, <2>1, <2>2, <3>1 DEF ExitedIsTrue
  <2>4. CASE sshAttempt
    <3>1. \/ swait'.res = "timeout"
          \/ swait'.moved = swait.moved /\ swait'.res = swait.res
          \/ (swait'.moved => ralive \ {rvm.new} # {}) /\ ~(rrec.running /\ rrec.pid \in ralive)
      BY ZenonT(60), <2>4 DEF ReadyTypeOK, SSHWait, sshAttempt, swaitTo, sshView, isAliveR
    <3>2. "timeout" # "exited"
      OBVIOUS
    <3>3. ~lost /\ ralive \ {rvm.new} # {} => rrec.running /\ rrec.pid \in ralive
      BY Zenon DEF Tracked, RecordNamesProcess
    <3>. QED
      BY Zenon, <2>1, <2>2, <3>1, <3>2, <3>3 DEF ExitedIsTrue
  <2>. QED
    BY Zenon, <1>3, <2>3, <2>4 DEF WaitSSHReady
<1>4. CASE guestEnv
  <2>1. UNCHANGED <<swait, lost>>
    BY Zenon, <1>4 DEF guestEnv, guestUp, guestEnds, processExit, recordGuestShutdownR,
       cleanupStaleVMR, rebootStop, rebootStart, retryStartWithoutGLR, startSaveR, envOnly
  <2>2. Tracked'
    BY Zenon, <1>4, GuestEndsTracked, ProcessExitTracked, RecordShutdownTracked, StoppedTracked,
       LaunchTracked, StartSaveTracked DEF guestEnv
  <2>. QED
    BY Zenon, <2>1, <2>2 DEF ExitedIsTrue
<1>. QED
  BY Zenon, <1>1, <1>2, <1>3, <1>4 DEF ReadyNext

(* The one answer.                                                          *)
LEMMA AnswerStep ==
  ASSUME ReadyTypeOK, AnswersLast, ReadyNext
  PROVE  AnswersLast'
<1>1. CASE WaitReadyWithPhases
  BY Zenon, <1>1 DEF AnswersLast, ReadyTypeOK, Main, WaitReadyWithPhases, answer, mainLoad, mainNoProbe,
     mainFirst, mainCancelled, mainFailed, mainTick, markReadyLoad, markReady, mainEnd
<1>2. CASE watcher \/ fanout \/ WaitReady \/ interrupt \/ WaitSSHReady \/ guestEnv
  <2>1. mn' = mn /\ errc' \in {errc, "none"}
    BY Zenon, <1>2 DEF watcher, watchLine, watchIdle, watchEmit, watchStop, WaitReady, callerPhase,
       callerAnswer, interrupt, fanout, fanReceive, persistPhase, fanSend, fanDrain, fanClose,
       WaitSSHReady, sshBegin, sshAttempt, sshDial, waitCloudInitDone, swaitTo, guestEnv,
       guestUp, guestEnds, processExit, recordGuestShutdownR, cleanupStaleVMR, rebootStop, rebootStart,
       retryStartWithoutGLR, startSaveR, envOnly
  <2>. QED
    BY <2>1 DEF AnswersLast
<1>. QED
  BY <1>1, <1>2 DEF ReadyNext

-----------------------------------------------------------------------------
(* The phases on their way from the console to the caller.                  *)

(* PhasesOnTheWay                                                           *)
LEMMA PhasesOnTheWay ==
  ASSUME ReadyTypeOK
  PROVE  Shown \cup InHand \cup Waiting \subseteq Phases \cup {Blank}
<1>1. Elems(pch) \subseteq Phases /\ Elems(wch) \subseteq Phases
  BY ElemsType DEF ReadyTypeOK
<1>2. caller.last \in Phases \cup {Blank} /\ fan.ev \in Phases \cup {Blank}
  BY DEF ReadyTypeOK, Caller, Fanout
<1>. QED
  BY <1>1, <1>2 DEF Shown, InHand, Waiting

(* A line is read, or the console has been idle.                            *)
LEMMA ReadChain ==
  ASSUME ReadyTypeOK, EndInOrder, PhaseChain, watchLine \/ watchIdle
  PROVE  PhaseChain'
<1>1. wt.pc = "run" /\ UNCHANGED <<caller, pch, fan, wch, mn>>
  BY Zenon DEF watchLine, watchIdle
<1>2. UNCHANGED <<Shown, InHand, Waiting>>
  BY <1>1 DEF Shown, InHand, Waiting
<1>3. Shown \cup InHand \cup Waiting \subseteq Phases \cup {Blank}
  BY PhasesOnTheWay
<1>4. \/ wt' = wt
      \/ /\ wt'.pc = "emit" /\ (wt'.ev \notin Terminal => wt'.last = wt'.ev)
         /\ \A a \in Shown \cup InHand \cup Waiting : Follows(a, wt'.ev)
  <2>1. wt.last \in Phases \cup {Blank} /\ wt.last \notin Terminal
    BY <1>1 DEF ReadyTypeOK, Watch, PhaseChain
  <2>2. CASE watchIdle
    <3>1. wt'.pc = "emit" /\ wt'.ev = "Failed"
      BY ZenonT(60), <2>2 DEF ReadyTypeOK, Watch, watchIdle
    <3>2. \A a \in Shown \cup InHand \cup Waiting : a \notin Terminal
      BY <1>1 DEF PhaseChain, Behind
    <3>. QED
      BY <3>1, <3>2 DEF Follows, Terminal
  <2>3. CASE watchLine
    <3>1. PICK l \in Lines : wt' = IF worthTelling(classify(l), wt.last)
                  THEN [wt EXCEPT !.pc = "emit", !.ev = classify(l),
                                  !.last = IF classify(l) = "Failed" THEN @ ELSE classify(l)]
                  ELSE wt
      BY Zenon, <2>3 DEF watchLine
    <3>2. classify(l) \in Phases \cup {Blank}
      BY ClassifyType
    <3>3. CASE worthTelling(classify(l), wt.last)
      <4>1. wt'.pc = "emit" /\ wt'.ev = classify(l) /\ (classify(l) # "Failed" => wt'.last = wt'.ev)
        BY <3>1, <3>3 DEF ReadyTypeOK, Watch
      <4>2. \A a \in Shown \cup InHand \cup Waiting : Follows(a, classify(l))
        <5>. SUFFICES ASSUME NEW a \in Shown \cup InHand \cup Waiting PROVE Follows(a, classify(l))
          OBVIOUS
        <5>1. a \in Phases \cup {Blank} /\ Behind(a, wt.last)
          BY <1>1, <1>3 DEF PhaseChain
        <5>. QED
          BY <2>1, <3>2, <3>3, <5>1, ReportFollows
      <4>. QED
        BY <4>1, <4>2 DEF Terminal
    <3>. QED
      BY Zenon, <3>1, <3>3
  <2>. QED
    BY ZenonT(60), <2>2, <2>3
<1>5. mn.pc # "load"
  BY <1>1 DEF EndInOrder
<1>. QED
  BY Zenon, <1>1, <1>2, <1>4, <1>5 DEF PhaseChain

(* An event is handed to the fanout, or dropped, or the watcher stops.      *)
LEMMA EmitChain ==
  ASSUME ReadyTypeOK, EndInOrder, PhaseChain, watchEmit \/ watchStop
  PROVE  PhaseChain'
<1>1. wt.pc \in {"run", "emit"} /\ mn.pc # "load" /\ UNCHANGED <<caller, pch, fan, mn>>
  BY DEF watchEmit, watchStop, EndInOrder
<1>2. UNCHANGED <<Shown, InHand>>
  BY ZenonT(60), <1>1 DEF Shown, InHand
<1>3. Shown \cup InHand \cup Waiting \subseteq Phases \cup {Blank}
  BY PhasesOnTheWay
<1>4. CASE watchStop
  <2>1. wt'.pc = "done" /\ wch' = wch /\ Waiting' = Waiting
    BY ZenonT(60), <1>4 DEF watchStop, ended, Waiting
  <2>. QED
    BY <1>1, <1>2, <2>1 DEF PhaseChain
<1>5. CASE watchEmit
  <2>1. wt.pc = "emit" /\ wt.ev \in Phases /\ wch \in Seq(Phases)
    BY Zenon, <1>5 DEF watchEmit, ReadyTypeOK
  <2>2. \A a \in Shown \cup InHand \cup Waiting : Follows(a, wt.ev)
    BY Zenon, <2>1 DEF PhaseChain
  <2>3. \/ wch' = wch /\ Waiting' = Waiting
        \/ /\ Ordered(wch') /\ Waiting' = Waiting \cup {wt.ev}
    <3>1. CASE wch' = wch
      BY <3>1 DEF Waiting
    <3>2. CASE wch' = Append(wch, wt.ev)
      BY ZenonT(60), <2>1, <2>2, <3>2, ElemsAppend, OrderedAppend DEF Waiting, PhaseChain
    <3>. QED
      BY <1>5, <3>1, <3>2 DEF watchEmit
  <2>4. Ordered(wch') /\ \A a \in Shown \cup InHand, b \in Waiting' : Follows(a, b)
    BY Zenon, <2>2, <2>3 DEF PhaseChain
  <2>5. \/ wt'.pc = "done"
        \/ wt'.pc = "run" /\ wt'.last = wt.last /\ wt.ev \notin Terminal
    BY Zenon, <1>5, <2>1 DEF watchEmit, ended, ReadyTypeOK, Watch, Terminal
  <2>6. wt'.pc = "run" => /\ wt'.last \notin Terminal
                          /\ \A a \in Shown \cup InHand \cup Waiting' : Behind(a, wt'.last)
    <3>. SUFFICES ASSUME wt'.pc = "run"
                  PROVE  /\ wt'.last \notin Terminal
                         /\ \A a \in Shown \cup InHand \cup Waiting' : Behind(a, wt'.last)
      BY Zenon
    <3>1. wt'.last = wt.ev /\ wt.ev \notin Terminal
      BY <2>1, <2>5 DEF PhaseChain
    <3>2. \A a \in Shown \cup InHand \cup Waiting' :
            a \in Phases \cup {Blank} /\ (a = wt.ev \/ Follows(a, wt.ev))
      BY <1>3, <2>1, <2>2, <2>3
    <3>. QED
      BY Zenon, <2>1, <3>1, <3>2, FollowedIsBehind
  <2>. QED
    BY Zenon, <1>1, <1>2, <2>4, <2>5, <2>6 DEF PhaseChain
<1>. QED
  BY <1>4, <1>5

(* The fanout receives, saves, forwards, throws away, and ends.             *)
LEMMA FanChain ==
  ASSUME ReadyTypeOK, EndInOrder, PhaseChain, fanout
  PROVE  PhaseChain'
<1>1. fan.pc \in {"recv", "save", "send", "drain"} /\ mn.pc # "load" /\ UNCHANGED <<caller, wt, mn>>
  BY DEF fanout, fanReceive, persistPhase, fanSend, fanDrain, fanClose, EndInOrder
<1>2. /\ wch \in Seq(Phases) /\ pch \in Seq(Phases) /\ fan \in Fanout
      /\ fan.pc \in {"save", "send"} => fan.ev \in Phases
  BY DEF ReadyTypeOK
<1>3. Blank \notin Phases
  BY ZenonT(60), PhaseNames
<1>4. CASE fanReceive
  <2>1. fan.pc = "recv" /\ wch # << >> /\ wch' = Tail(wch) /\ pch' = pch
    BY <1>4 DEF fanReceive
  <2>2. fan'.pc = "save" /\ fan'.ev = Head(wch)
    BY Zenon, <1>2, <1>4 DEF fanReceive, fanTo, Fanout
  <2>3. InHand = {} /\ Shown' = Shown
    BY Zenon, <1>1, <2>1 DEF InHand, Shown, PhaseChain
  <2>4. InHand' = {Head(wch)} /\ Waiting = InHand' \cup Waiting'
    BY ZenonT(60), <1>2, <1>3, <2>1, <2>2, ElemsTail DEF InHand, Waiting
  <2>5. Ordered(wch') /\ \A a \in InHand', b \in Waiting' : Follows(a, b)
    BY Zenon, <1>2, <2>1, <2>4, OrderedTail DEF PhaseChain, Waiting
  <2>. QED
    BY <1>1, <2>1, <2>2, <2>3, <2>4, <2>5 DEF PhaseChain
<1>5. CASE persistPhase \/ fanClose
  <2>1. UNCHANGED <<pch, wch>>
    BY <1>5 DEF persistPhase, fanClose
  <2>2. fan'.ev = fan.ev /\ fan'.pc \in {"send", "done"}
    BY ZenonT(60), <1>2, <1>5 DEF persistPhase, fanClose, fanTo, Fanout
  <2>3. UNCHANGED <<Shown, InHand, Waiting>>
    BY <1>1, <2>1, <2>2 DEF Shown, InHand, Waiting
  <2>. QED
    BY Zenon, <1>1, <2>1, <2>2, <2>3 DEF PhaseChain
<1>6. CASE fanSend
  <2>1. fan.pc = "send" /\ wch' = wch /\ Waiting' = Waiting
    BY <1>6 DEF fanSend, Waiting
  <2>2. fan'.pc \in {"recv", "drain"} /\ fan'.ev = Blank /\ InHand' = {}
    BY Zenon, <1>2, <1>6 DEF fanSend, fanTo, Fanout, InHand
  <2>3. InHand = {fan.ev}
    <3>1. fan.ev # Blank
      BY Zenon, <1>2, <1>3, <2>1
    <3>. QED
      BY Zenon, <3>1 DEF InHand
  <2>4. CASE pch' = pch
    <3>1. Shown' = Shown
      BY Zenon, <1>1, <2>4 DEF Shown
    <3>. QED
      BY Zenon, <1>1, <2>1, <2>2, <2>4, <3>1 DEF PhaseChain
  <2>5. CASE pch' = Append(pch, fan.ev)
    <3>1. Shown' = Shown \cup InHand /\ Elems(pch') = Elems(pch) \cup {fan.ev}
      BY Zenon, <1>1, <1>2, <2>1, <2>3, <2>5, ElemsAppend DEF Shown
    <3>2. Ordered(pch') /\ \A b \in Elems(pch') : Follows(caller.last, b)
      BY ZenonT(60), <1>2, <2>1, <2>3, <2>5, <3>1, OrderedAppend DEF PhaseChain, Shown
    <3>. QED
      BY ZenonT(60), <1>1, <2>1, <2>2, <3>1, <3>2 DEF PhaseChain
  <2>. QED
    BY <1>6, <2>4, <2>5 DEF fanSend
<1>7. CASE fanDrain
  <2>1. UNCHANGED <<fan, pch>> /\ wch # << >> /\ wch' = Tail(wch)
    BY Zenon, <1>7 DEF fanDrain
  <2>2. UNCHANGED <<Shown, InHand>>
    BY Zenon, <1>1, <2>1 DEF Shown, InHand
  <2>3. Waiting' \subseteq Waiting
    <3>1. Elems(wch) = {Head(wch)} \cup Elems(Tail(wch))
      BY Zenon, <1>2, <2>1, ElemsTail
    <3>. QED
      BY Zenon, <2>1, <3>1 DEF Waiting
  <2>4. Ordered(wch')
    BY <1>2, <2>1, OrderedTail DEF PhaseChain
  <2>. QED
    BY Zenon, <1>1, <2>1, <2>2, <2>3, <2>4 DEF PhaseChain
<1>. QED
  BY <1>4, <1>5, <1>6, <1>7 DEF fanout

(* The goroutines are started, or not needed.                               *)
LEMMA LoadChain ==
  ASSUME ReadyTypeOK, EndInOrder, PhaseChain, mainLoad
  PROVE  PhaseChain'
<1>1. /\ mn.pc = "load" /\ caller.last = Blank /\ pch = << >> /\ wch = << >> /\ wt.last = Blank
      /\ wt.pc = "new" /\ fan.pc = "new" /\ fan.ev = Blank /\ UNCHANGED <<caller, pch, wch>>
  BY DEF mainLoad, PhaseChain, EndInOrder
<1>2. fan'.ev = Blank /\ wt'.last = Blank /\ wt'.pc \in {"new", "run", "done"}
  BY Zenon, <1>1 DEF mainLoad, ReadyTypeOK, Fanout, Watch
<1>3. Ordered(<< >>) /\ Elems(<< >>) = {}
  BY DEF Ordered, Elems
<1>4. /\ Shown' = {Blank} /\ InHand' = {} /\ Waiting' = {}
      /\ Ordered(pch') /\ Ordered(wch') /\ Elems(pch') = {}
  BY <1>1, <1>2, <1>3, Zenon DEF Shown, InHand, Waiting
<1>5. Blank \notin Terminal /\ Behind(Blank, Blank)
  BY PhaseNames, Ranks DEF Behind, Terminal
<1>. QED
  BY Zenon, <1>1, <1>2, <1>3, <1>4, <1>5 DEF PhaseChain

(* The caller is shown a phase: it may follow the last one, and everything  *)
(* still on its way may follow it.                                          *)
LEMMA CallerChain ==
  ASSUME ReadyTypeOK, PhaseChain, callerPhase
  PROVE  PhaseChain' /\ Follows(caller.last, caller'.last)
<1>1. pch # << >> /\ pch' = Tail(pch) /\ pch \in Seq(Phases) /\ UNCHANGED <<fan, wt, wch, mn>>
  BY DEF callerPhase, ReadyTypeOK
<1>2. caller'.last = Head(pch)
  BY DEF callerPhase, ReadyTypeOK, Caller
<1>3. Elems(pch) = {Head(pch)} \cup Elems(pch')
  BY <1>1, ElemsTail
<1>4. Shown' \subseteq Shown /\ UNCHANGED <<InHand, Waiting>>
  BY ZenonT(60), <1>1, <1>2, <1>3 DEF Shown, InHand, Waiting
<1>5. Ordered(pch') /\ \A b \in Elems(pch') : Follows(caller'.last, b)
  BY <1>1, <1>2, OrderedTail DEF PhaseChain
<1>6. mn.pc # "load"
  BY Zenon, <1>1 DEF PhaseChain
<1>7. PhaseChain'
  BY Zenon, <1>1, <1>4, <1>5, <1>6 DEF PhaseChain
<1>. QED
  BY Zenon, <1>2, <1>3, <1>7 DEF PhaseChain

(* Every step keeps the phases in order.                                    *)
LEMMA ChainStep ==
  ASSUME ReadyTypeOK, EndInOrder, PhaseChain, ReadyNext
  PROVE  PhaseChain'
<1>1. CASE watcher \/ fanout \/ mainLoad \/ callerPhase
  BY Zenon, <1>1, ReadChain, EmitChain, FanChain, LoadChain, CallerChain DEF watcher
<1>2. CASE mainNoProbe \/ mainFirst \/ mainCancelled \/ mainFailed \/ mainTick \/ markReadyLoad
             \/ markReady \/ mainEnd
  <2>1. UNCHANGED <<caller, pch, fan, wt, wch>>
    BY <1>2 DEF mainNoProbe, mainFirst, mainCancelled, mainFailed, mainTick, markReadyLoad,
       markReady, mainEnd
  <2>2. mn'.pc # "load"
    <3>1. CASE mainEnd
      BY <3>1 DEF ReadyTypeOK, Main, mainEnd
    <3>2. CASE mainNoProbe \/ mainFirst \/ mainCancelled \/ mainFailed
      BY Zenon, <3>2 DEF ReadyTypeOK, Main, answer, mainNoProbe, mainFirst, mainCancelled, mainFailed
    <3>3. CASE mainTick \/ markReadyLoad \/ markReady
      BY ZenonT(60), <3>3 DEF ReadyTypeOK, Main, answer, mainTick, markReadyLoad, markReady
    <3>. QED
      BY <1>2, <3>1, <3>2, <3>3
  <2>3. UNCHANGED <<Shown, InHand, Waiting>>
    BY <2>1 DEF Shown, InHand, Waiting
  <2>. QED
    BY ZenonT(60), <2>1, <2>2, <2>3 DEF PhaseChain
<1>3. CASE callerAnswer \/ interrupt
  <2>1. UNCHANGED <<pch, fan, wt, wch, mn>>
    BY <1>3 DEF callerAnswer, interrupt
  <2>2. caller'.last = caller.last
    BY ZenonT(60), <1>3 DEF callerAnswer, interrupt, ReadyTypeOK, Caller
  <2>3. UNCHANGED <<Shown, InHand, Waiting>>
    BY <2>1, <2>2 DEF Shown, InHand, Waiting
  <2>. QED
    BY Zenon, <2>1, <2>2, <2>3 DEF PhaseChain
<1>4. CASE WaitSSHReady \/ guestEnv
  <2>1. UNCHANGED <<caller, pch, fan, wt, wch, mn>>
    BY Zenon, <1>4 DEF WaitSSHReady, sshBegin, sshAttempt, sshDial, waitCloudInitDone, swaitTo, guestEnv,
       guestUp, guestEnds, processExit, recordGuestShutdownR, cleanupStaleVMR, rebootStop, rebootStart,
       retryStartWithoutGLR, startSaveR, envOnly
  <2>2. UNCHANGED <<Shown, InHand, Waiting>>
    BY <2>1 DEF Shown, InHand, Waiting
  <2>. QED
    BY Zenon, <2>1, <2>2 DEF PhaseChain
<1>. QED
  BY <1>1, <1>2, <1>3, <1>4 DEF ReadyNext, WaitReadyWithPhases, WaitReady

-----------------------------------------------------------------------------
(* A wait begins in order.                                                  *)
LEMMA ReadyInitInv == ReadyInit => ReadyInv
<1>. SUFFICES ASSUME ReadyInit PROVE ReadyInv
  OBVIOUS
<1>0. /\ wch = << >> /\ pch = << >>
      /\ \E i \in {"pending", "ready"} :
           rrec = [running |-> TRUE, pid |-> 1, install |-> i, reason |-> Blank, phase |-> Blank]
      /\ waitBegins \/ sshWaitBegins
  BY Zenon DEF ReadyInit
<1>1. /\ wch = << >> /\ pch = << >> /\ rrec.running /\ rrec.pid = 1 /\ ralive \in {{1}, {}}
      /\ caller.last = Blank /\ caller.pc = "wait" /\ ~swait.moved
  <2>1. rrec.running /\ rrec.pid = 1
    BY <1>0
  <2>2. ralive \in {{1}, {}}
    BY Zenon, <1>0 DEF waitBegins, sshWaitBegins
  <2>3. \E k \in {"WaitReady", "spinner"} :
          caller = [pc |-> "wait", kind |-> k, last |-> Blank, res |-> "none"]
    BY Zenon, <1>0 DEF waitBegins, sshWaitBegins
  <2>4. caller.last = Blank /\ caller.pc = "wait"
    BY <2>3
  <2>5. \E q \in {"done", "start"}, c \in BOOLEAN :
          swait = [pc |-> q, cloudInit |-> c, res |-> "none", moved |-> FALSE]
    BY Zenon, <1>0 DEF waitBegins, sshWaitBegins
  <2>6. ~swait.moved
    BY <2>5
  <2>. QED
    BY Zenon, <1>0, <2>1, <2>2, <2>4, <2>6
<1>2. \/ /\ mn.pc = "load" /\ wt.pc = "new" /\ wt.last = Blank /\ errc = "none"
         /\ fan.pc = "new" /\ fan.ev = Blank
      \/ mn.pc = "await" /\ wt.pc = "done" /\ fan.pc = "save" /\ fan.ev = "Init"
  <2>1. CASE waitBegins
    <3>1. PICK k \in {"qemu", "vz"}, q \in BOOLEAN :
            mn = [pc |-> "load", backend |-> k, probed |-> q, view |-> NoRec, copy |-> NoRec]
      BY Zenon, <2>1 DEF waitBegins
    <3>2. /\ wt = [pc |-> "new", last |-> Blank, ev |-> Blank] /\ errc = "none"
          /\ fan = [pc |-> "new", ev |-> Blank, copy |-> NoRec]
      BY ZenonT(60), <2>1 DEF waitBegins
    <3>. QED
      BY <3>1, <3>2
  <2>2. CASE sshWaitBegins
    <3>1. /\ wt = ended /\ fan = [pc |-> "save", ev |-> "Init", copy |-> loaded]
          /\ mn = [pc |-> "await", backend |-> "qemu", probed |-> TRUE, view |-> NoRec, copy |-> NoRec]
      BY ZenonT(60), <2>2 DEF sshWaitBegins
    <3>2. wt.pc = "done"
      BY <3>1 DEF ended
    <3>. QED
      BY <3>1, <3>2
  <2>. QED
    BY ZenonT(60), <1>0, <2>1, <2>2
<1>3. ReadyTypeOK
  <2>1. rrec \in Rec /\ NoRec \in Rec
    <3>1. NoRec \in Rec
      BY Zenon DEF Rec, NoRec
    <3>2. PICK i \in {"pending", "ready"} :
            rrec = [running |-> TRUE, pid |-> 1, install |-> i, reason |-> Blank, phase |-> Blank]
      BY Zenon DEF ReadyInit
    <3>. QED
      BY <3>1, <3>2 DEF Rec
  <2>2. wch \in Seq(Phases) /\ pch \in Seq(Phases)
    BY <1>1
  <2>3. "Init" \in Phases
    BY PhaseNames
  <2>4. up \in BOOLEAN /\ failed \in BOOLEAN /\ lost \in BOOLEAN
    BY Zenon DEF ReadyInit
  <2>5. loaded \in Rec
    BY <2>1, Zenon DEF loaded, Rec
  <2>6. /\ rctx \in Ctx /\ wt \in Watch /\ fan \in Fanout /\ mn \in Main
        /\ errc \in Answers /\ caller \in Caller /\ swait \in SSHWait
    <3>1. CASE waitBegins
      <4>1. rctx \in Ctx
        BY Zenon, <2>1, <3>1 DEF waitBegins, Ctx
      <4>2. wt \in Watch
        BY Zenon, <2>1, <3>1 DEF waitBegins, Watch, ended
      <4>3. fan \in Fanout
        BY ZenonT(60), <2>1, <3>1 DEF waitBegins, Fanout
      <4>4. mn \in Main
        <5>1. PICK k \in {"qemu", "vz"}, q \in BOOLEAN :
                mn = [pc |-> "load", backend |-> k, probed |-> q, view |-> NoRec, copy |-> NoRec]
          BY Zenon, <3>1 DEF waitBegins
        <5>. QED
          BY <2>1, <5>1 DEF Main
      <4>5. errc \in Answers
        BY ZenonT(60), <2>1, <3>1 DEF waitBegins, Answers
      <4>6. caller \in Caller
        <5>1. PICK k \in {"WaitReady", "spinner"} :
                caller = [pc |-> "wait", kind |-> k, last |-> Blank, res |-> "none"]
          BY Zenon, <3>1 DEF waitBegins
        <5>. QED
          BY <2>1, <5>1 DEF Caller, Answers
      <4>7. swait \in SSHWait
        BY Zenon, <2>1, <3>1 DEF waitBegins, SSHWait, Answers
      <4>. QED
        BY Zenon, <4>1, <4>2, <4>3, <4>4, <4>5, <4>6, <4>7
    <3>2. CASE sshWaitBegins
      <4>1. rctx \in Ctx
        BY Zenon, <2>1, <2>3, <2>5, <3>2 DEF sshWaitBegins, Ctx
      <4>2. wt \in Watch
        BY Zenon, <2>1, <2>3, <2>5, <3>2 DEF sshWaitBegins, Watch, ended
      <4>3. fan \in Fanout
        BY Zenon, <2>1, <2>3, <2>5, <3>2 DEF sshWaitBegins, Fanout
      <4>4. mn \in Main
        BY Zenon, <2>1, <2>3, <2>5, <3>2 DEF sshWaitBegins, Main
      <4>5. errc \in Answers
        BY Zenon, <2>1, <2>3, <2>5, <3>2 DEF sshWaitBegins, Answers
      <4>6. caller \in Caller
        BY ZenonT(60), <2>1, <2>3, <2>5, <3>2 DEF sshWaitBegins, Caller, Answers
      <4>7. swait \in SSHWait
        BY <2>1, <2>3, <2>5, <3>2 DEF sshWaitBegins, SSHWait, Answers
      <4>. QED
        BY <4>1, <4>2, <4>3, <4>4, <4>5, <4>6, <4>7
    <3>. QED
      BY <3>1, <3>2 DEF ReadyInit
  <2>7. rvm \in Procs
    <3>1. 1 \in Pids /\ {} \in SUBSET Pids
      BY DEF Pids
    <3>2. rvm = [last |-> 1, new |-> NoPidR, install |-> Blank, off |-> {}, untold |-> {}]
      BY Zenon DEF ReadyInit
    <3>. QED
      BY Zenon, <3>1, <3>2 DEF Procs
  <2>. QED
    BY Zenon, <1>1, <1>2, <2>1, <2>2, <2>3, <2>4, <2>6, <2>7 DEF ReadyTypeOK
<1>5. Tracked
  <2>1. rvm = [last |-> 1, new |-> NoPidR, install |-> Blank, off |-> {}, untold |-> {}] /\ ~lost
    BY Zenon DEF ReadyInit
  <2>2. /\ rvm.last = 1 /\ rvm.new = NoPidR /\ rvm.off = {} /\ rvm.untold = {}
        /\ rvm.install = Blank
    BY Zenon, <2>1
  <2>3. "pending" # Blank
    BY DEF Blank
  <2>4. rrec.reason = Blank /\ Blank # "guest" /\ NoRec.install = Blank
    <3>1. Blank # "guest"
      BY DEF Blank
    <3>2. rrec.reason = Blank
      BY <1>0
    <3>3. NoRec.install = Blank
      BY DEF NoRec
    <3>. QED
      BY Zenon, <3>1, <3>2, <3>3
  <2>5. FirstPass(rrec) /\ FirstPass(NoRec)
    BY Zenon, <1>1, <2>3, <2>4 DEF FirstPass
  <2>6. FirstPass(loaded)
    <3>1. /\ loaded.running = rrec.running /\ loaded.pid = rrec.pid /\ loaded.install = rrec.install
          /\ loaded.reason = rrec.reason
      BY Zenon, <1>3 DEF loaded, ReadyTypeOK, Rec
    <3>. QED
      BY Zenon, <2>5, <3>1 DEF FirstPass
  <2>7. fan.copy \in {NoRec, loaded} /\ mn.view = NoRec /\ mn.copy = NoRec
    <3>1. CASE waitBegins
      <4>1. fan = [pc |-> "new", ev |-> Blank, copy |-> NoRec]
        BY Zenon, <3>1 DEF waitBegins
      <4>2. \E b \in {"qemu", "vz"}, p \in BOOLEAN :
              mn = [pc |-> "load", backend |-> b, probed |-> p, view |-> NoRec, copy |-> NoRec]
        BY Zenon, <3>1 DEF waitBegins
      <4>. QED
        BY <4>1, <4>2
    <3>2. CASE sshWaitBegins
      BY ZenonT(60), <3>2 DEF sshWaitBegins
    <3>. QED
      BY Zenon, <1>0, <3>1, <3>2
  <2>8. InstallPass
    BY Zenon, <2>2, <2>3, <2>5, <2>6, <2>7 DEF InstallPass
  <2>9. \A p \in ralive : p = 1 /\ p <= 1
    BY <1>1
  <2>10. Launched /\ Latest /\ RecordNamesProcess
    BY Zenon, <1>1, <2>2, <2>9 DEF Launched, Latest, RecordNamesProcess
  <2>. QED
    BY Zenon, <2>8, <2>10 DEF Tracked
<1>4. PhaseChain
  <2>1. Ordered(pch) /\ Ordered(wch) /\ Elems(pch) = {} /\ Waiting = {} /\ Shown = {Blank}
    BY <1>1 DEF Ordered, Elems, Waiting, Shown
  <2>2. InHand \subseteq {"Init"}
    BY <1>2 DEF InHand
  <2>3. Follows(Blank, "Init")
    BY Ranks, PhaseNames DEF Follows, Terminal
  <2>. QED
    BY <1>1, <1>2, <2>1, <2>2, <2>3 DEF PhaseChain
<1>. QED
  BY Zenon, <1>1, <1>2, <1>3, <1>4, <1>5 DEF ReadyInv, EndInOrder, ExitedIsTrue, AnswersLast

(* Every step keeps the invariant of a wait.                                *)
LEMMA ReadyPreserved == ReadyInv /\ [ReadyNext]_readyVars => ReadyInv'
<1>. SUFFICES ASSUME ReadyInv, [ReadyNext]_readyVars PROVE ReadyInv'
  OBVIOUS
<1>1. CASE ReadyNext
  BY Zenon, <1>1, ReadyTypes, EndStep, ProcessStep, AnswerStep, ChainStep DEF ReadyInv
<1>2. CASE UNCHANGED readyVars
  <2>1. UNCHANGED <<rrec, ralive, up, rctx, wt, wch, fan, pch, failed, mn, errc, caller, swait,
                   rvm, lost>>
    BY Zenon, <1>2 DEF readyVars
  <2>2. ReadyTypeOK'
    BY Zenon, <2>1 DEF ReadyInv, ReadyTypeOK
  <2>3. PhaseChain'
    BY Zenon, <2>1 DEF ReadyInv, PhaseChain, Shown, InHand, Waiting
  <2>4. Tracked'
    BY Zenon, <2>1 DEF ReadyInv, Tracked, Launched, Latest, RecordNamesProcess, InstallPass, FirstPass
  <2>. QED
    BY Zenon, <2>1, <2>2, <2>3, <2>4 DEF ReadyInv, EndInOrder, ExitedIsTrue, AnswersLast
<1>. QED
  BY <1>1, <1>2

(* The invariant of a wait holds throughout.                                *)
LEMMA ReadyInductive == ReadySpec => []ReadyInv
  BY ReadyInitInv, ReadyPreserved, PTL DEF ReadySpec

(* No goroutine outlives the wait it serves: when WaitReadyWithPhases or    *)
(* WaitReady is done, the fanout has ended after the watcher, and nothing   *)
(* is left in the channel between them.                                     *)
THEOREM WaitsLeaveNothing == ReadySpec => []NothingLeftBehind
<1>1. ReadyInv => NothingLeftBehind
  BY DEF ReadyInv, EndInOrder, NothingLeftBehind
<1>. QED
  BY <1>1, ReadyInductive, PTL

(* WaitSSHReady says that the VM's process is gone only when no process of  *)
(* the VM is alive but that of a Start which has not saved its record yet   *)
(* (launch and save are steps of their own), unless a concurrent save of a  *)
(* boot phase (persistPhase, markReady) has put an old record back.         *)
THEOREM ExitsAreReal == ReadySpec => []ExitedIsTrue
  BY ReadyInductive, PTL DEF ReadyInv

(* The phases a caller is shown only move forward, and nothing follows      *)
(* Ready or Failed, through both channels and whatever is dropped on the    *)
(* way (phasewatcher.go, WaitReadyWithPhases).                              *)
THEOREM PhasesOnlyAdvance == ReadySpec => [][PhasesForward]_readyVars
<1>1. ReadyInv /\ [ReadyNext]_readyVars => [PhasesForward]_readyVars
  <2>. SUFFICES ASSUME ReadyInv, callerPhase PROVE PhasesForward
    BY DEF PhasesForward
  <2>1. Follows(caller.last, caller'.last)
    BY CallerChain DEF ReadyInv
  <2>. QED
    BY <2>1 DEF PhasesForward, Follows, Terminal
<1>. QED
  BY <1>1, ReadyInductive, PTL DEF ReadySpec

(* A process that died is taken for the end of an install pass only where   *)
(* its own guest had ended itself, whatever runs, watchers and late records *)
(* there were (WaitReadyWithPhases, recordGuestShutdown, cleanupStaleVM).   *)
THEOREM CrashIsNoSuccess == ReadySpec => [][CrashNotSuccess]_readyVars
<1>1. ReadyInv /\ [ReadyNext]_readyVars => [CrashNotSuccess]_readyVars
  <2>. SUFFICES ASSUME ReadyInv, mainTick, errc' = "ok"
                PROVE  mn.view.pid \in rvm.off \/ lost
    BY DEF CrashNotSuccess
  <2>1. errc = "none"
    BY DEF ReadyInv, AnswersLast, mainTick
  <2>2. installEnd(mn.view)
    BY <2>1 DEF mainTick, answer
  <2>. QED
    BY Zenon, <2>2 DEF installEnd, ReadyInv, Tracked, InstallPass, FirstPass
<1>. QED
  BY <1>1, ReadyInductive, PTL DEF ReadySpec

=============================================================================
