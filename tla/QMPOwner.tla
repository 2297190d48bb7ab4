------------------------------ MODULE QMPOwner ------------------------------
(***************************************************************************)
(* The single QMP connection vee holds to a running QEMU, as in            *)
(* internal/qemu/qmp_owner.go.  One reader goroutine takes lines off the   *)
(* connection and hands command responses to the caller that currently     *)
(* holds cmdMu; QMP responses carry no identifier, so the pairing of a     *)
(* response with a command rests on order alone.                           *)
(*                                                                         *)
(* The model numbers the commands in the order they are written (the       *)
(* numbers are not on the wire: no action branches on them).  Command 1 is *)
(* the qmp_capabilities of the handshake.  A response line is the number   *)
(* of the command it answers, an asynchronous event line is EventLine.     *)
(***************************************************************************)
EXTENDS Naturals, Sequences

CONSTANTS
  Callers,       \* goroutines that call Execute
  NoCaller,      \* cmdMu is free
  MaxCommands,   \* bound: commands written on the connection
  MaxEvents      \* bound: events QEMU emits

ASSUME QMPAssumption ==
  /\ NoCaller \notin Callers
  /\ MaxCommands \in Nat \ {0}
  /\ MaxEvents \in Nat

EventLine == 0

VARIABLES
  mode,      \* "handshake" | "ready" | "failed": progress of NewQMPOwner
  open,      \* the connection is up (neither QEMU nor the owner closed it)
  pending,   \* commands QEMU has received and not answered
  wire,      \* lines QEMU has written that no one has read
  respCh,    \* the response channel, buffered by one
  done,      \* the reader goroutine has closed done
  cmdMu,     \* the caller holding cmdMu, or NoCaller
  pc,        \* pc[c]: "idle" | "drain" | "write" | "wait"
  sent,      \* how many commands have been written
  reply,     \* reply[c]: [cmd, got, quiet] of c's last Execute; got = 0: error
  events,    \* how many events QEMU has emitted
  \* History, read by properties only:
  taken,     \* number of the latest response a command took
  missed,    \* how many commands ended without taking a response
  quiet      \* no response was owed to an earlier call at the last drain

vars == <<mode, open, pending, wire, respCh, done, cmdMu, pc, sent, reply,
          events, taken, missed, quiet>>

caller == <<cmdMu, pc, reply>>
history == <<taken, missed, quiet>>

TypeOK ==
  /\ mode \in {"handshake", "ready", "failed"}
  /\ open \in BOOLEAN
  /\ pending \in Seq(1..MaxCommands)
  /\ wire \in Seq(0..MaxCommands)
  /\ respCh \in Seq(1..MaxCommands)
  /\ Len(respCh) <= 1
  /\ done \in BOOLEAN
  /\ cmdMu \in Callers \cup {NoCaller}
  /\ pc \in [Callers -> {"idle", "drain", "write", "wait"}]
  /\ sent \in 1..MaxCommands
  /\ reply \in [Callers -> [cmd : 0..MaxCommands, got : 0..MaxCommands,
                         quiet : BOOLEAN]]
  /\ events \in 0..MaxEvents
  /\ taken \in 0..MaxCommands
  /\ missed \in 0..MaxCommands
  /\ quiet \in BOOLEAN

NoReply == [cmd |-> 0, got |-> 0, quiet |-> FALSE]

(* NewQMPOwner has dialled, read the greeting and written qmp_capabilities. *)
Init ==
  /\ mode = "handshake" /\ open = TRUE
  /\ pending = <<1>> /\ wire = << >> /\ respCh = << >>
  /\ done = FALSE
  /\ cmdMu = NoCaller
  /\ pc = [c \in Callers |-> "idle"]
  /\ sent = 1
  /\ reply = [c \in Callers |-> NoReply]
  /\ events = 0
  /\ taken = 0 /\ missed = 0 /\ quiet = FALSE

-----------------------------------------------------------------------------
(* QEMU: answers commands in the order it received them, emits events at   *)
(* any time, and may exit.  Lines it wrote before exiting stay readable.   *)

QemuReply ==
  /\ open /\ pending # << >>
  /\ wire' = Append(wire, Head(pending))
  /\ pending' = Tail(pending)
  /\ UNCHANGED <<mode, open, respCh, done, caller, sent, events, history>>

QemuEvent ==
  /\ open /\ events < MaxEvents
  /\ wire' = Append(wire, EventLine)
  /\ events' = events + 1
  /\ UNCHANGED <<mode, open, pending, respCh, done, caller, sent, history>>

QemuExit ==
  /\ open
  /\ open' = FALSE
  /\ UNCHANGED <<mode, pending, wire, respCh, done, caller, sent, events,
                 history>>

-----------------------------------------------------------------------------
(* handshake: the first line that decodes as a qmpResponse is the reply.   *)
(* Every JSON object does, an event included (its fields are all absent),  *)
(* so the branch that skips events is not reachable for a QMP line.        *)
handshake ==
  /\ mode = "handshake"
  /\ \/ /\ wire # << >>
        /\ mode' = "ready"
        /\ wire' = Tail(wire)
        /\ IF Head(wire) = EventLine
           THEN missed' = missed + 1 /\ UNCHANGED taken
           ELSE taken' = Head(wire) /\ UNCHANGED missed
        /\ UNCHANGED open
     \/ /\ mode' = "failed"    \* error reply, read error or executeTimeout:
        /\ open' = FALSE        \* NewQMPOwner closes the connection
        /\ UNCHANGED <<wire, taken, missed>>
  /\ UNCHANGED <<pending, respCh, done, caller, sent, events, quiet>>

(* Mutant: the hand-off never drops, the channel outgrows its one slot.     *)
readLineUnbuffered ==
  /\ mode = "ready" /\ ~done /\ wire # << >>
  /\ wire' = Tail(wire)
  /\ respCh' = IF Head(wire) = EventLine THEN respCh ELSE Append(respCh, Head(wire))
  /\ UNCHANGED <<mode, open, pending, done, caller, sent, events, history>>

(* Mutant: the reader keeps the line it has handed off and offers it again. *)
readLineAgain ==
  /\ mode = "ready" /\ ~done /\ wire # << >>
  /\ IF Head(wire) = EventLine \/ respCh # << >>
     THEN wire' = Tail(wire) /\ UNCHANGED respCh
     ELSE respCh' = <<Head(wire)>> /\ UNCHANGED wire
  /\ UNCHANGED <<mode, open, pending, done, caller, sent, events, history>>

(* readLoop: one line per step.  A response is offered to respCh and       *)
(* dropped when the channel still holds one.                               *)
readLine ==
  /\ mode = "ready" /\ ~done /\ wire # << >>
  /\ wire' = Tail(wire)
  /\ respCh' = IF Head(wire) = EventLine \/ respCh # << >>
               THEN respCh
               ELSE <<Head(wire)>>
  /\ UNCHANGED <<mode, open, pending, done, caller, sent, events, history>>

readClosed ==
  /\ mode = "ready" /\ ~done /\ ~open /\ wire = << >>
  /\ done' = TRUE
  /\ UNCHANGED <<mode, open, pending, wire, respCh, caller, sent, events,
                 history>>

(* Close: of the lines not yet read, those the scanner has buffered are    *)
(* still delivered.                                                        *)
Close ==
  /\ mode = "ready" /\ open
  /\ open' = FALSE
  /\ \E k \in 0..Len(wire) : wire' = SubSeq(wire, 1, k)
  /\ UNCHANGED <<mode, pending, respCh, done, caller, sent, events, history>>

-----------------------------------------------------------------------------
(* Execute(c): lock cmdMu, drain respCh, write the request, wait.          *)

(* Mutant: cmdMu is not taken, so two commands can be in flight.           *)
lockShared(c) ==
  /\ mode = "ready" /\ pc[c] = "idle"
  /\ sent < MaxCommands
  /\ cmdMu' = c
  /\ pc' = [pc EXCEPT ![c] = "drain"]
  /\ UNCHANGED <<mode, open, pending, wire, respCh, done, sent, reply, events,
                 history>>

lock(c) ==
  /\ mode = "ready" /\ pc[c] = "idle" /\ cmdMu = NoCaller
  /\ sent < MaxCommands
  /\ cmdMu' = c
  /\ pc' = [pc EXCEPT ![c] = "drain"]
  /\ UNCHANGED <<mode, open, pending, wire, respCh, done, sent, reply, events,
                 history>>

(* Mutant: the stale response is left in the channel.                      *)
drainNothing(c) ==
  /\ pc[c] = "drain"
  /\ pc' = [pc EXCEPT ![c] = "write"]
  /\ quiet' = (pending = << >> /\ \A i \in DOMAIN wire : wire[i] = EventLine)
  /\ UNCHANGED <<mode, open, pending, wire, respCh, done, cmdMu, sent, reply,
                 events, taken, missed>>

drain(c) ==
  /\ pc[c] = "drain"
  /\ respCh' = << >>
  /\ pc' = [pc EXCEPT ![c] = "write"]
  /\ quiet' = (pending = << >> /\ \A i \in DOMAIN wire : wire[i] = EventLine)
  /\ UNCHANGED <<mode, open, pending, wire, done, cmdMu, sent, reply, events,
                 taken, missed>>

(* The end of a call: the deferred Unlock and the result.                  *)
return(c, r) ==
  /\ cmdMu' = NoCaller
  /\ pc' = [pc EXCEPT ![c] = "idle"]
  /\ reply' = [reply EXCEPT ![c] = r]

writeRequest(c) ==
  /\ pc[c] = "write"
  /\ IF open
     THEN /\ sent' = sent + 1
          /\ pending' = Append(pending, sent + 1)
          /\ pc' = [pc EXCEPT ![c] = "wait"]
          /\ UNCHANGED <<cmdMu, reply>>
     ELSE /\ return(c, NoReply)
          /\ UNCHANGED <<sent, pending>>
  /\ UNCHANGED <<mode, open, wire, respCh, done, events, history>>

receive(c) ==
  /\ pc[c] = "wait" /\ respCh # << >>
  /\ respCh' = << >>
  /\ return(c, [cmd |-> sent, got |-> Head(respCh), quiet |-> quiet])
  /\ taken' = Head(respCh)
  /\ UNCHANGED <<mode, open, pending, wire, done, sent, events, missed, quiet>>

(* Mutant: no executeTimeout; only the reader's exit ends the wait.         *)
abortOnDone(c) ==
  /\ pc[c] = "wait" /\ done
  /\ return(c, [cmd |-> sent, got |-> 0, quiet |-> quiet])
  /\ missed' = missed + 1
  /\ UNCHANGED <<mode, open, pending, wire, respCh, done, sent, events, taken,
                 quiet>>

(* done closed, or executeTimeout elapsed.                                 *)
abort(c) ==
  /\ pc[c] = "wait"
  /\ return(c, [cmd |-> sent, got |-> 0, quiet |-> quiet])
  /\ missed' = missed + 1
  /\ UNCHANGED <<mode, open, pending, wire, respCh, done, sent, events, taken,
                 quiet>>

Execute(c) == lock(c) \/ drain(c) \/ writeRequest(c) \/ receive(c) \/ abort(c)

Next ==
  \/ QemuReply \/ QemuEvent \/ QemuExit
  \/ handshake \/ readLine \/ readClosed \/ Close
  \/ \E c \in Callers : Execute(c)

Spec == Init /\ [][Next]_vars

(* The goroutines are scheduled and the two timers fire: the handshake's   *)
(* read deadline and the executeTimeout of a waiting call.  Nothing is     *)
(* assumed of QEMU, and callers need not call.                             *)
Fairness ==
  /\ WF_vars(handshake) /\ WF_vars(readLine) /\ WF_vars(readClosed)
  /\ \A c \in Callers : WF_vars(drain(c) \/ writeRequest(c) \/ receive(c) \/ abort(c))

FairSpec == Spec /\ Fairness

-----------------------------------------------------------------------------
(* Properties.                                                             *)

(* Execute never returns a response to a command written later than its    *)
(* own, and lags behind its own command by no more than the number of      *)
(* commands that ended without taking a response (timed out, or the        *)
(* handshake that took an event).  In particular, while every command has  *)
(* taken a response, each call returns the response to its own command:    *)
(* cmdMu, the drain and the FIFO connection together pair them.            *)
LagBounded ==
  \A c \in Callers : reply[c].got # 0 =>
    /\ reply[c].got <= reply[c].cmd
    /\ reply[c].cmd - reply[c].got <= missed

(* What the drain achieves: a call whose drain ran after every response    *)
(* owed to earlier (timed-out) calls had reached respCh returns its own    *)
(* response or an error, so the connection recovers from a timeout.        *)
DrainResynchronises ==
  \A c \in Callers :
    reply[c].quiet /\ reply[c].got # 0 => reply[c].got = reply[c].cmd

(* No response is handed to two calls, and successive calls see responses  *)
(* in the order of the commands, whatever was dropped, drained or late.    *)
ResponseTakenOnce ==
  [][\A c \in Callers :
       reply'[c] # reply[c] /\ reply'[c].got # 0 => reply'[c].got > taken]_vars

(* Every call returns: a caller that waits is released by a response, by   *)
(* the reader's exit or by the timeout, even when QEMU never answers.      *)
CallsReturn ==
  \A c \in Callers : pc[c] # "idle" ~> pc[c] = "idle"

(* What the drain in Execute promises: "so it cannot be mistaken for this  *)
(* command's reply".                                                       *)
StaleReplyNotMistaken ==
  \A c \in Callers : reply[c].got # 0 => reply[c].got = reply[c].cmd

=============================================================================
