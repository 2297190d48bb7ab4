------------------------------ MODULE VMState -------------------------------
(***************************************************************************)
(* The record vee keeps of one VM (internal/vm/state.go), reduced to the   *)
(* fields that decide who may start, stop or restart it, and the functions *)
(* of internal/vm that compute the next record.                            *)
(***************************************************************************)
CONSTANTS
  Pids,    \* process identifiers
  NoPid    \* PID 0: no process recorded

ASSUME PidAssumption == NoPid \notin Pids

Desired  == {"", "running", "stopped"}
Reasons  == {"", "user", "guest", "crash", "host", "reboot"}
Installs == {"", "pending", "ready"}

States == [running : BOOLEAN, pid : Pids \cup {NoPid}, desired : Desired,
           reason : Reasons, install : Installs]

EmptyState == [running |-> FALSE, pid |-> NoPid, desired |-> "", reason |-> "",
               install |-> ""]

(* A pending VM that ran long enough to shut down has completed its install. *)
promoted(install) == IF install = "pending" THEN "ready" ELSE install

(* Mutant: the desired state is taken to be the reason itself.              *)
reasonAsDesired(reason) == reason

desiredStateForReason(reason) ==
  IF reason \in {"host", "reboot"} THEN "running" ELSE "stopped"

(* What stopWithReason and forceStopWithReason save.                        *)
stoppedState(s, reason) ==
  [EmptyState EXCEPT !.install = promoted(s.install),
                     !.desired = desiredStateForReason(reason),
                     !.reason = reason]

(* Mutant: the desired state is not carried over.                           *)
cleanupForgetsDesired(s) ==
  [EmptyState EXCEPT !.install = promoted(s.install),
                     !.reason = IF s.reason = "" THEN "crash" ELSE s.reason]

(* What cleanupStaleVM saves for a QEMU VM whose process died on its own.   *)
cleanupStaleVM(s) ==
  [EmptyState EXCEPT !.install = promoted(s.install),
                     !.desired = s.desired,
                     !.reason = IF s.reason = "" THEN "crash" ELSE s.reason]

(* What Start saves once the process is up.                                 *)
startedState(s, p) ==
  [EmptyState EXCEPT !.running = TRUE, !.pid = p, !.desired = "running",
                     !.install = s.install]

(* What recordGuestShutdown saves.                                          *)
guestShutdownState(s) ==
  [s EXCEPT !.reason = IF @ = "" THEN "guest" ELSE @, !.desired = "stopped"]

(* What markReady saves.                                                    *)
readyState(s) == [s EXCEPT !.install = "ready"]

(* Mutant: a crash is not a reason to restart.                              *)
startUnlessCrashed(s) ==
  s.desired # "stopped" /\ s.reason \notin {"guest", "crash"}

shouldDaemonStart(s) == s.desired # "stopped" /\ s.reason # "guest"

shouldPowerCycleOnGuestReset(s) == s.running /\ s.install # "pending"

=============================================================================
