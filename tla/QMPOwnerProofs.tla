--------------------------- MODULE QMPOwnerProofs ---------------------------
(***************************************************************************)
(* Proofs about QMPOwner for any set of callers and any bounds: the pairing *)
(* of commands with responses rests on the order of the three queues a      *)
(* response travels through (pending, wire, respCh) and on cmdMu, and the   *)
(* inductive invariant says just that.                                      *)
(***************************************************************************)
EXTENDS QMPOwner, TLAPS

(* A command has been written and its outcome is not decided (a handshake   *)
(* that failed never is).                                                   *)
Outstanding == mode # "ready" \/ \E c \in Callers : pc[c] = "wait"

(* cmdMu is held by exactly the caller inside Execute, and no one calls     *)
(* before the handshake is over.                                            *)
Exclusive ==
  /\ \A c \in Callers : pc[c] # "idle" => cmdMu = c /\ mode = "ready"
  /\ mode = "handshake" => respCh = << >>

(* Responses not yet taken are newer than the last one taken, at most as    *)
(* new as the last command, and ordered along pending, wire and respCh.     *)
Window ==
  /\ \A i \in DOMAIN respCh : taken < respCh[i] /\ respCh[i] <= sent
  /\ \A i \in DOMAIN wire : wire[i] # 0 => taken < wire[i] /\ wire[i] <= sent
  /\ \A i \in DOMAIN pending : taken < pending[i] /\ pending[i] <= sent
WireSorted == \A i, j \in DOMAIN wire :
  i < j /\ wire[i] # 0 /\ wire[j] # 0 => wire[i] < wire[j]
PendingSorted == \A i, j \in DOMAIN pending : i < j => pending[i] < pending[j]
Across ==
  /\ \A i \in DOMAIN respCh, j \in DOMAIN wire :
       wire[j] # 0 => respCh[i] < wire[j]
  /\ \A i \in DOMAIN respCh, j \in DOMAIN pending : respCh[i] < pending[j]
  /\ \A i \in DOMAIN wire, j \in DOMAIN pending : wire[i] < pending[j]
Ordered == Window /\ WireSorted /\ PendingSorted /\ Across

(* Every decided command took a response of its own or missed one.          *)
Counted ==
  /\ IF Outstanding THEN sent - 1 <= taken + missed /\ missed <= sent - 1
                    ELSE sent <= taken + missed /\ missed <= sent
  /\ taken <= sent
  /\ sent = MaxCommands => \A c \in Callers : pc[c] \notin {"drain", "write"}

(* After a drain that left nothing owed, the only response under way is the *)
(* one to the call's own command.                                           *)
QuietCall ==
  \A c \in Callers : quiet =>
    /\ pc[c] = "write" => /\ respCh = << >> /\ pending = << >>
                          /\ \A i \in DOMAIN wire : wire[i] = 0
    /\ pc[c] = "wait" => /\ \A i \in DOMAIN respCh : respCh[i] = sent
                         /\ \A i \in DOMAIN wire : wire[i] \in {0, sent}
                         /\ \A i \in DOMAIN pending : pending[i] = sent

(* The inductive invariant.                                                 *)
IInv == TypeOK /\ Exclusive /\ Ordered /\ Counted /\ QuietCall
            /\ LagBounded /\ DrainResynchronises

-----------------------------------------------------------------------------
(* What taking the first line off a non-empty queue leaves.                 *)
LEMMA TailFacts ==
  ASSUME NEW S, NEW s \in Seq(S), s # << >>
  PROVE  /\ Tail(s) \in Seq(S) /\ Len(Tail(s)) = Len(s) - 1
         /\ DOMAIN s = 1..Len(s) /\ DOMAIN Tail(s) = 1..(Len(s) - 1)
         /\ \A i \in 1..(Len(s) - 1) : Tail(s)[i] = s[i + 1]
         /\ Head(s) = s[1] /\ s[1] \in S /\ Len(s) \in Nat \ {0}
  OBVIOUS

(* What adding a line to a queue leaves.                                    *)
LEMMA AppendFacts ==
  ASSUME NEW S, NEW s \in Seq(S), NEW e \in S
  PROVE  /\ Append(s, e) \in Seq(S) /\ Len(Append(s, e)) = Len(s) + 1
         /\ DOMAIN s = 1..Len(s) /\ DOMAIN Append(s, e) = 1..(Len(s) + 1)
         /\ \A i \in 1..Len(s) : Append(s, e)[i] = s[i]
         /\ Append(s, e)[Len(s) + 1] = e /\ Len(s) \in Nat
  OBVIOUS

(* What closing the connection leaves of the lines not yet read.            *)
LEMMA PrefixFacts ==
  ASSUME NEW S, NEW s \in Seq(S), NEW k \in 0..Len(s)
  PROVE  /\ SubSeq(s, 1, k) \in Seq(S)
         /\ DOMAIN s = 1..Len(s) /\ DOMAIN SubSeq(s, 1, k) = 1..k
         /\ \A i \in 1..k : SubSeq(s, 1, k)[i] = s[i]
         /\ Len(s) \in Nat
  OBVIOUS

(* The invariant holds when the handshake request has been written.         *)
LEMMA InitIInv == Init => IInv
<1> SUFFICES ASSUME Init PROVE IInv
  OBVIOUS
<1>1. TypeOK
  <2>1. 1 \in 1..MaxCommands /\ 0 \in 0..MaxEvents /\ 0 \in 0..MaxCommands
    BY QMPAssumption
  <2>2. <<1>> \in Seq(1..MaxCommands) /\ << >> \in Seq(0..MaxCommands)
        /\ << >> \in Seq(1..MaxCommands) /\ Len(<< >>) <= 1
    BY <2>1
  <2>3. [c \in Callers |-> NoReply] \in
          [Callers -> [cmd : 0..MaxCommands, got : 0..MaxCommands,
                       quiet : BOOLEAN]]
    BY <2>1 DEF NoReply
  <2> QED
    BY Zenon, <2>1, <2>2, <2>3 DEF Init, TypeOK
<1>2. Exclusive
  BY DEF Init, Exclusive
<1>3. Ordered
  BY DEF Init, Ordered, Window, WireSorted, PendingSorted, Across
<1>4. Counted
  BY DEF Init, Counted, Outstanding
<1>5. QuietCall /\ LagBounded /\ DrainResynchronises
  BY DEF Init, QuietCall, LagBounded, DrainResynchronises, NoReply
<1> QED
  BY <1>1, <1>2, <1>3, <1>4, <1>5 DEF IInv

(* QEMU answers its oldest command: the response moves from the head of     *)
(* pending to the end of wire, which keeps the order.                       *)
LEMMA QemuReplyStep ==
  ASSUME IInv, QemuReply
  PROVE  IInv'
<1> USE DEF IInv
<1>1. /\ Len(pending) \in Nat \ {0} /\ DOMAIN pending = 1..Len(pending)
      /\ pending' \in Seq(1..MaxCommands)
      /\ DOMAIN pending' = 1..(Len(pending) - 1)
      /\ \A i \in 1..(Len(pending) - 1) : pending'[i] = pending[i + 1]
      /\ Head(pending) = pending[1] /\ pending[1] \in 1..MaxCommands
  <2>1. pending \in Seq(1..MaxCommands) /\ pending # << >>
        /\ pending' = Tail(pending)
    BY DEF QemuReply, TypeOK
  <2> QED
    BY <2>1, QMPAssumption
<1>2. /\ Len(wire) \in Nat /\ DOMAIN wire = 1..Len(wire)
      /\ wire' \in Seq(0..MaxCommands) /\ DOMAIN wire' = 1..(Len(wire) + 1)
      /\ \A i \in 1..Len(wire) : wire'[i] = wire[i]
      /\ wire'[Len(wire) + 1] = pending[1]
  BY <1>1, AppendFacts DEF QemuReply, TypeOK
<1>3. UNCHANGED <<mode, open, respCh, done, cmdMu, pc, sent, reply, events,
                  taken, missed, quiet>>
  BY DEF QemuReply, caller, history
<1>4. \A i \in DOMAIN pending' : pending'[i] = pending[i + 1]
        /\ i + 1 \in DOMAIN pending /\ 1 \in DOMAIN pending
  BY <1>1
<1>5. \A i \in DOMAIN wire' : \/ i \in DOMAIN wire /\ wire'[i] = wire[i]
                              \/ i = Len(wire) + 1 /\ wire'[i] = pending[1]
  BY <1>2
<1>6. TypeOK' /\ Exclusive'
  BY <1>1, <1>2, <1>3 DEF TypeOK, Exclusive
<1>7. Window'
  BY <1>1, <1>3, <1>4, <1>5 DEF Ordered, Window
<1>8. WireSorted'
  <2> SUFFICES ASSUME NEW i \in DOMAIN wire', NEW j \in DOMAIN wire', i < j,
                      wire'[i] # 0, wire'[j] # 0
               PROVE  wire'[i] < wire'[j]
    BY DEF WireSorted
  <2>1. i \in DOMAIN wire /\ wire'[i] = wire[i]
    BY <1>2
  <2>2. CASE j \in DOMAIN wire
    BY <1>2, <2>1, <2>2 DEF Ordered, WireSorted
  <2>3. CASE j = Len(wire) + 1
    BY <1>1, <1>2, <2>1, <2>3 DEF Ordered, Across
  <2> QED
    BY <1>5, <2>2, <2>3
<1>9. PendingSorted'
  BY <1>1, <1>4 DEF Ordered, PendingSorted
<1>10. Across'
  BY <1>1, <1>3, <1>4, <1>5 DEF Ordered, PendingSorted, Across
<1>11. Counted'
  BY <1>3 DEF Counted, Outstanding
<1>12. QuietCall'
  BY <1>1, <1>3, <1>4, <1>5 DEF QuietCall
<1>13. LagBounded' /\ DrainResynchronises'
  BY <1>3 DEF LagBounded, DrainResynchronises
<1> QED
  BY <1>6, <1>7, <1>8, <1>9, <1>10, <1>11, <1>12, <1>13 DEF Ordered

(* An event joins wire as a line that is no response.                       *)
LEMMA QemuEventStep ==
  ASSUME IInv, QemuEvent
  PROVE  IInv'
<1> USE DEF IInv
<1>1. /\ Len(wire) \in Nat /\ DOMAIN wire = 1..Len(wire)
      /\ wire' \in Seq(0..MaxCommands) /\ DOMAIN wire' = 1..(Len(wire) + 1)
      /\ \A i \in 1..Len(wire) : wire'[i] = wire[i]
      /\ wire'[Len(wire) + 1] = 0
  BY QMPAssumption, AppendFacts DEF QemuEvent, TypeOK, EventLine
<1>2. UNCHANGED <<mode, open, pending, respCh, done, cmdMu, pc, sent, reply,
                  taken, missed, quiet>>
  BY DEF QemuEvent, caller, history
<1>3. events' \in 0..MaxEvents
  BY QMPAssumption DEF QemuEvent, TypeOK
<1>4. \A i \in DOMAIN wire' : \/ i \in DOMAIN wire /\ wire'[i] = wire[i]
                              \/ wire'[i] = 0
  BY <1>1
<1>5. TypeOK' /\ Exclusive'
  BY <1>1, <1>2, <1>3 DEF TypeOK, Exclusive
<1>6. Window' /\ WireSorted' /\ PendingSorted'
  BY <1>2, <1>4 DEF Ordered, Window, WireSorted, PendingSorted
<1>7. Across'
  <2>1. \A j \in DOMAIN pending : 0 < pending[j]
    BY QMPAssumption DEF TypeOK
  <2> QED
    BY <1>2, <1>4, <2>1 DEF Ordered, Across
<1>8. Counted'
  BY <1>2 DEF Counted, Outstanding
<1>9. QuietCall'
  BY <1>2, <1>4 DEF QuietCall
<1>10. LagBounded' /\ DrainResynchronises'
  BY <1>2 DEF LagBounded, DrainResynchronises
<1> QED
  BY <1>5, <1>6, <1>7, <1>8, <1>9, <1>10 DEF Ordered

(* QEMU's exit loses nothing that was written.                              *)
LEMMA QemuExitStep ==
  ASSUME IInv, QemuExit
  PROVE  IInv'
<1> USE DEF IInv
<1>t. TypeOK'
  BY Zenon, QMPAssumption DEF QemuExit, caller, history, TypeOK, Exclusive,
     Counted, Outstanding
<1>e. Exclusive'
  BY DEF QemuExit, caller, history, TypeOK, Exclusive
<1>o. Ordered'
  BY DEF QemuExit, caller, history, TypeOK, Exclusive, Ordered,
     Window, WireSorted, PendingSorted, Across
<1>c. Counted'
  BY QMPAssumption DEF QemuExit, caller, history, TypeOK, Exclusive,
     Ordered, Counted, Outstanding
<1>q. QuietCall'
  BY DEF QemuExit, caller, history, TypeOK, Exclusive, Ordered, QuietCall
<1>l. LagBounded' /\ DrainResynchronises'
  BY DEF QemuExit, caller, history, TypeOK, Exclusive, Ordered, Counted,
     Outstanding, QuietCall, LagBounded, DrainResynchronises, NoReply
<1> QED
  BY <1>t, <1>e, <1>o, <1>c, <1>q, <1>l DEF IInv

(* The handshake takes the first line, whatever it is, or gives up.         *)
LEMMA HandshakeStep ==
  ASSUME IInv, handshake
  PROVE  IInv'
<1> USE DEF IInv
<1>1. UNCHANGED <<pending, respCh, done, cmdMu, pc, sent, reply, events, quiet>>
      /\ respCh = << >> /\ \A c \in Callers : pc[c] = "idle"
  BY DEF handshake, caller, Exclusive, TypeOK
<1>2. CASE mode' = "failed"
  <2>1. UNCHANGED <<wire, taken, missed>> /\ mode = "handshake" /\ open' = FALSE
    BY <1>2 DEF handshake
  <2> QED
    BY Zenon, <1>1, <1>2, <2>1 DEF TypeOK, Exclusive, Ordered, Window, WireSorted,
       PendingSorted, Across, Counted, QuietCall,
       LagBounded, DrainResynchronises, Outstanding
<1>3. CASE mode' = "ready"
  <2>1. wire # << >> /\ mode = "handshake" /\ open' = open /\ wire' = Tail(wire)
        /\ \/ Head(wire) = 0 /\ missed' = missed + 1 /\ taken' = taken
           \/ Head(wire) # 0 /\ taken' = Head(wire) /\ missed' = missed
    BY <1>3 DEF handshake, EventLine
  <2>2. /\ Len(wire) \in Nat \ {0} /\ DOMAIN wire = 1..Len(wire)
        /\ wire' \in Seq(0..MaxCommands) /\ DOMAIN wire' = 1..(Len(wire) - 1)
        /\ \A i \in 1..(Len(wire) - 1) : wire'[i] = wire[i + 1]
        /\ Head(wire) = wire[1] /\ wire[1] \in 0..MaxCommands
    BY Zenon, <2>1, TailFacts DEF TypeOK
  <2>3. wire[1] # 0 => taken < wire[1] /\ wire[1] <= sent
    BY <2>2 DEF Ordered, Window
  <2>4. taken' \in 0..MaxCommands /\ taken <= taken' /\ missed <= missed'
    BY <2>1, <2>2, <2>3 DEF TypeOK
  <2>5. Counted'
    BY <1>1, <1>3, <2>1, <2>2, <2>3 DEF TypeOK, Counted, Outstanding
  <2>6. TypeOK'
    BY SMTT(30), <1>1, <1>3, <2>1, <2>2, <2>4, QMPAssumption DEF TypeOK, Counted, Outstanding
  <2>7. Ordered'
    <3>1. \A i \in DOMAIN wire' : wire'[i] = wire[i + 1]
            /\ 1 \in DOMAIN wire /\ i + 1 \in DOMAIN wire /\ 1 < i + 1
      BY <2>2
    <3>2. wire[1] # 0 => \A j \in DOMAIN pending : wire[1] < pending[j]
      BY <2>2 DEF Ordered, Across
    <3>3. wire[1] # 0 => \A j \in DOMAIN wire' : wire'[j] # 0 => wire[1] < wire'[j]
      BY <3>1 DEF Ordered, WireSorted
    <3>4. Window'
      BY <1>1, <2>1, <2>2, <3>1, <3>2, <3>3 DEF Ordered, Window
    <3>5. WireSorted'
      BY <2>2, <3>1 DEF Ordered, WireSorted
    <3>6. PendingSorted' /\ Across'
      BY <1>1, <3>1 DEF Ordered, PendingSorted, Across
    <3> QED
      BY <3>4, <3>5, <3>6 DEF Ordered
  <2>8. Exclusive' /\ QuietCall' /\ LagBounded' /\ DrainResynchronises'
    BY <1>1, <1>3, <2>1, <2>4 DEF TypeOK, Exclusive, QuietCall, LagBounded,
       DrainResynchronises
  <2> QED
    BY <2>5, <2>6, <2>7, <2>8
<1> QED
  BY <1>2, <1>3 DEF handshake

(* readLoop moves the first line to respCh, or drops it.                    *)
LEMMA ReadLineStep ==
  ASSUME IInv, readLine
  PROVE  IInv'
<1> USE DEF IInv
<1>1. /\ Len(wire) \in Nat \ {0} /\ DOMAIN wire = 1..Len(wire)
      /\ wire' \in Seq(0..MaxCommands) /\ DOMAIN wire' = 1..(Len(wire) - 1)
      /\ \A i \in 1..(Len(wire) - 1) : wire'[i] = wire[i + 1]
      /\ Head(wire) = wire[1] /\ wire[1] \in 0..MaxCommands
  BY Zenon, TailFacts DEF readLine, TypeOK
<1>2. \/ respCh' = respCh
      \/ respCh = << >> /\ wire[1] # 0 /\ respCh' = <<wire[1]>>
  BY <1>1 DEF readLine, EventLine
<1>3. UNCHANGED <<mode, open, pending, done, cmdMu, pc, sent, reply, events,
                  taken, missed, quiet>> /\ mode = "ready"
  BY DEF readLine, caller, history
<1>4. \A i \in DOMAIN wire' : wire'[i] = wire[i + 1]
        /\ 1 \in DOMAIN wire /\ i + 1 \in DOMAIN wire /\ 1 < i + 1
  BY <1>1
<1>5. \A i \in DOMAIN respCh' : \/ i \in DOMAIN respCh /\ respCh'[i] = respCh[i]
                                \/ wire[1] # 0 /\ respCh'[i] = wire[1]
  BY <1>2
<1>6. TypeOK' /\ Exclusive'
  <2>1. wire[1] # 0 => wire[1] \in 1..MaxCommands
    BY <1>1, QMPAssumption
  <2>2. respCh' \in Seq(1..MaxCommands) /\ Len(respCh') <= 1
    <3>1. CASE respCh' = respCh
      BY <3>1 DEF TypeOK
    <3>2. CASE wire[1] # 0 /\ respCh' = <<wire[1]>>
      BY <2>1, <3>2
    <3> QED
      BY <1>2, <3>1, <3>2
  <2> QED
    BY <1>1, <1>3, <2>2 DEF TypeOK, Exclusive
<1>7. Window' /\ PendingSorted'
  BY <1>1, <1>3, <1>4, <1>5 DEF Ordered, Window, PendingSorted
<1>8. WireSorted'
  BY <1>1, <1>4 DEF Ordered, WireSorted
<1>9. Across'
  <2>1. wire[1] # 0 => \A j \in DOMAIN wire' : wire'[j] # 0 => wire[1] < wire'[j]
    BY <1>4 DEF Ordered, WireSorted
  <2>2. \A j \in DOMAIN pending : wire[1] < pending[j]
    BY <1>1 DEF Ordered, Across
  <2> QED
    BY <1>3, <1>4, <1>5, <2>1, <2>2 DEF Ordered, Across
<1>10. Counted'
  BY <1>3 DEF Counted, Outstanding
<1>11. QuietCall'
  <2>1. 1 \in DOMAIN wire
    BY <1>1
  <2> QED
    BY <1>2, <1>3, <1>4, <1>5, <2>1 DEF QuietCall
<1>12. LagBounded' /\ DrainResynchronises'
  BY <1>3 DEF LagBounded, DrainResynchronises
<1> QED
  BY <1>6, <1>7, <1>8, <1>9, <1>10, <1>11, <1>12 DEF Ordered

(* readLoop ends.                                                           *)
LEMMA ReadClosedStep ==
  ASSUME IInv, readClosed
  PROVE  IInv'
<1> USE DEF IInv
<1>t. TypeOK'
  BY QMPAssumption DEF readClosed, caller, history, TypeOK, Exclusive,
     Counted, Outstanding
<1>e. Exclusive'
  BY DEF readClosed, caller, history, TypeOK, Exclusive
<1>o. Ordered'
  BY DEF readClosed, caller, history, TypeOK, Exclusive, Ordered,
     Window, WireSorted, PendingSorted, Across
<1>c. Counted'
  BY QMPAssumption DEF readClosed, caller, history, TypeOK, Exclusive,
     Ordered, Counted, Outstanding
<1>q. QuietCall'
  BY DEF readClosed, caller, history, TypeOK, Exclusive, Ordered, QuietCall
<1>l. LagBounded' /\ DrainResynchronises'
  BY DEF readClosed, caller, history, TypeOK, Exclusive, Ordered, Counted,
     Outstanding, QuietCall, LagBounded, DrainResynchronises, NoReply
<1> QED
  BY <1>t, <1>e, <1>o, <1>c, <1>q, <1>l DEF IInv

(* Close keeps a prefix of the unread lines.                                *)
LEMMA CloseStep ==
  ASSUME IInv, Close
  PROVE  IInv'
<1> USE DEF IInv
<1>1. PICK k \in 0..Len(wire) : wire' = SubSeq(wire, 1, k)
  BY DEF Close
<1>2. wire' \in Seq(0..MaxCommands)
      /\ \A i \in DOMAIN wire' : i \in DOMAIN wire /\ wire'[i] = wire[i]
  <2>1. wire \in Seq(0..MaxCommands)
    BY DEF TypeOK
  <2> QED
    BY <1>1, <2>1, PrefixFacts, QMPAssumption
<1>3. UNCHANGED <<mode, pending, respCh, done, cmdMu, pc, sent, reply, events,
                  taken, missed, quiet>> /\ open' = FALSE
  BY DEF Close, caller, history
<1>4. TypeOK' /\ Exclusive'
  BY Zenon, <1>2, <1>3 DEF TypeOK, Exclusive
<1>5. Window' /\ WireSorted' /\ PendingSorted' /\ Across'
  BY <1>2, <1>3 DEF Ordered, Window, WireSorted, PendingSorted, Across
<1>6. Counted'
  BY <1>3 DEF Counted, Outstanding
<1>7. QuietCall'
  BY <1>2, <1>3 DEF QuietCall
<1>8. LagBounded' /\ DrainResynchronises'
  BY <1>3 DEF LagBounded, DrainResynchronises
<1> QED
  BY <1>4, <1>5, <1>6, <1>7, <1>8 DEF Ordered

(* Execute begins: cmdMu was free, so no other caller is inside.            *)
LEMMA LockStep ==
  ASSUME IInv, NEW c \in Callers, lock(c)
  PROVE  IInv'
<1> USE DEF IInv
<1>t. TypeOK'
  BY QMPAssumption DEF lock, caller, history, TypeOK, Exclusive, Counted,
     Outstanding
<1>e. Exclusive'
  <2>1. \A d \in Callers : d # c => pc[d] = "idle"
    BY QMPAssumption DEF lock, TypeOK, Exclusive
  <2> QED
    BY <2>1 DEF lock, TypeOK, Exclusive
<1>o. Ordered'
  BY DEF lock, caller, history, TypeOK, Exclusive, Ordered,
     Window, WireSorted, PendingSorted, Across
<1>c. Counted'
  BY QMPAssumption DEF lock, caller, history, TypeOK, Exclusive, Ordered,
     Counted, Outstanding
<1>q. QuietCall'
  BY DEF lock, caller, history, TypeOK, Exclusive, Ordered, QuietCall
<1>l. LagBounded' /\ DrainResynchronises'
  BY DEF lock, caller, history, TypeOK, Exclusive, Ordered, Counted,
     Outstanding, QuietCall, LagBounded, DrainResynchronises, NoReply
<1> QED
  BY <1>t, <1>e, <1>o, <1>c, <1>q, <1>l DEF IInv

(* Execute empties respCh.                                                  *)
LEMMA DrainStep ==
  ASSUME IInv, NEW c \in Callers, drain(c)
  PROVE  IInv'
<1> USE DEF IInv
<1>t. TypeOK'
  BY QMPAssumption DEF drain, EventLine, caller, history, TypeOK, Exclusive,
     Counted, Outstanding
<1>e. Exclusive'
  BY SMTT(30) DEF drain, EventLine, caller, history, TypeOK, Exclusive
<1>o. Ordered'
  BY DEF drain, EventLine, caller, history, TypeOK, Exclusive, Ordered,
     Window, WireSorted, PendingSorted, Across
<1>c. Counted'
  BY QMPAssumption DEF drain, EventLine, caller, history, TypeOK, Exclusive,
     Ordered, Counted, Outstanding
<1>q. QuietCall'
  BY Zenon DEF drain, EventLine, caller, history, TypeOK, Exclusive, Ordered,
     QuietCall
<1>l. LagBounded' /\ DrainResynchronises'
  BY SMTT(30) DEF drain, EventLine, caller, history, TypeOK, Exclusive, Ordered,
     Counted, Outstanding, QuietCall, LagBounded, DrainResynchronises,
     NoReply
<1> QED
  BY <1>t, <1>e, <1>o, <1>c, <1>q, <1>l DEF IInv

(* Execute writes the newest command, or fails on a closed connection.      *)
LEMMA WriteRequestStep ==
  ASSUME IInv, NEW c \in Callers, writeRequest(c)
  PROVE  IInv'
<1> USE DEF IInv
<1>1. UNCHANGED <<mode, open, wire, respCh, done, events, taken, missed, quiet>>
      /\ pc[c] = "write" /\ mode = "ready" /\ cmdMu = c
      /\ \A d \in Callers : d # c => pc[d] = "idle"
  BY DEF writeRequest, history, Exclusive, TypeOK
<1>2. sent \in 1..MaxCommands /\ sent + 1 \in 1..MaxCommands
  BY <1>1, QMPAssumption DEF TypeOK, Counted
<1>3. CASE ~open
  <2>1. UNCHANGED <<sent, pending>> /\ cmdMu' = NoCaller
        /\ pc' = [pc EXCEPT ![c] = "idle"]
        /\ reply' = [reply EXCEPT ![c] = NoReply]
    BY <1>3 DEF writeRequest, return
  <2>2. \A d \in Callers : pc'[d] = "idle"
    BY <1>1, <2>1 DEF TypeOK
  <2>3. TypeOK'
    BY <1>1, <2>1, QMPAssumption DEF TypeOK, NoReply
  <2>4. LagBounded' /\ DrainResynchronises'
    BY <1>1, <2>1 DEF TypeOK, NoReply, LagBounded, DrainResynchronises
  <2>5. Exclusive' /\ Ordered' /\ Counted' /\ QuietCall'
    BY <1>1, <2>1, <2>2
       DEF Exclusive, Ordered, Window, WireSorted, PendingSorted, Across, Counted, QuietCall, Outstanding
  <2> QED
    BY <2>3, <2>4, <2>5
<1>4. CASE open
  <2>1. sent' = sent + 1 /\ pending' = Append(pending, sent + 1)
        /\ pc' = [pc EXCEPT ![c] = "wait"] /\ UNCHANGED <<cmdMu, reply>>
    BY <1>4 DEF writeRequest
  <2>2. /\ Len(pending) \in Nat /\ DOMAIN pending = 1..Len(pending)
        /\ pending' \in Seq(1..MaxCommands)
        /\ DOMAIN pending' = 1..(Len(pending) + 1)
        /\ \A i \in 1..Len(pending) : pending'[i] = pending[i]
        /\ pending'[Len(pending) + 1] = sent + 1
    BY SMTT(30), <1>2, <2>1, AppendFacts DEF TypeOK
  <2>3. /\ pc' \in [Callers -> {"idle", "drain", "write", "wait"}]
        /\ pc'[c] = "wait" /\ \A d \in Callers : d # c => pc'[d] = "idle"
    BY <1>1, <2>1 DEF TypeOK
  <2>4. TypeOK'
    BY <1>1, <1>2, <2>1, <2>2, <2>3 DEF TypeOK
  <2>5. Exclusive' /\ LagBounded' /\ DrainResynchronises'
    BY SMTT(30), <1>1, <2>1, <2>3
       DEF TypeOK, Exclusive, LagBounded, DrainResynchronises
  <2>6. sent \in Nat /\ taken \in Nat /\ taken <= sent
    BY DEF TypeOK, Counted
  <2>7. Ordered'
    <3>1. \A i \in DOMAIN pending' :
            \/ i \in DOMAIN pending /\ pending'[i] = pending[i]
            \/ i = Len(pending) + 1 /\ pending'[i] = sent + 1
      BY <2>2
    <3>a. /\ \A i \in DOMAIN respCh : respCh[i] \in Nat
          /\ \A i \in DOMAIN wire : wire[i] \in Nat
          /\ \A i \in DOMAIN pending : pending[i] \in Nat
      BY SMTT(30), QMPAssumption DEF TypeOK
    <3>2. Window'
      BY <1>1, <2>1, <2>6, <3>1, <3>a DEF Ordered, Window
    <3>3. PendingSorted'
      BY <2>2, <2>6, <3>1, <3>a DEF Ordered, Window, PendingSorted
    <3>4. WireSorted'
      BY <1>1 DEF Ordered, WireSorted
    <3>5. Across'
      BY <1>1, <2>6, <3>1, <3>a DEF Ordered, Window, Across
    <3> QED
      BY <3>2, <3>3, <3>4, <3>5 DEF Ordered
  <2>8. Counted'
    <3>1. sent <= taken + missed /\ missed <= sent
      BY <1>1 DEF Counted, Outstanding
    <3> QED
      BY <1>1, <1>2, <2>1, <2>3, <2>6, <3>1 DEF TypeOK, Counted, Outstanding
  <2>9. QuietCall'
    BY <1>1, <2>1, <2>2, <2>3 DEF TypeOK, QuietCall
  <2> QED
    BY <2>4, <2>5, <2>7, <2>8, <2>9
<1> QED
  BY <1>3, <1>4

(* A call that ends leaves every caller idle.                               *)
LEMMA ReturnIdle ==
  ASSUME IInv, NEW c \in Callers, pc[c] # "idle",
         pc' = [pc EXCEPT ![c] = "idle"]
  PROVE  /\ pc' \in [Callers -> {"idle", "drain", "write", "wait"}]
         /\ \A d \in Callers : pc'[d] = "idle"
  BY SMTT(30) DEF IInv, TypeOK, Exclusive

(* Execute takes the response in respCh: it is newer than the last one      *)
(* taken, so the lag cannot exceed the commands that missed theirs.         *)
LEMMA ReceiveStep ==
  ASSUME IInv, NEW c \in Callers, receive(c)
  PROVE  /\ IInv'
         /\ reply'[c].got > taken
<1> USE DEF IInv
<1> DEFINE got == respCh[1]
<1>1. respCh # << >> /\ pc[c] = "wait" /\ mode = "ready"
  BY DEF receive, Exclusive
<1>2. 1 \in DOMAIN respCh /\ Head(respCh) = got /\ got \in 1..MaxCommands
  <2>1. respCh \in Seq(1..MaxCommands)
    BY DEF TypeOK
  <2> QED
    BY <1>1, <2>1, QMPAssumption
<1>3. taken < got /\ got <= sent /\ (quiet => got = sent)
  BY <1>1, <1>2 DEF Ordered, Window, QuietCall
<1>4. /\ UNCHANGED <<mode, open, pending, wire, done, sent, events, missed, quiet>>
      /\ respCh' = << >> /\ taken' = got /\ cmdMu' = NoCaller
      /\ pc' = [pc EXCEPT ![c] = "idle"]
      /\ reply' = [reply EXCEPT ![c] = [cmd |-> sent, got |-> got, quiet |-> quiet]]
  BY <1>2 DEF receive, return
<1>5. /\ pc' \in [Callers -> {"idle", "drain", "write", "wait"}]
      /\ \A d \in Callers : pc'[d] = "idle"
  BY Zenon, <1>1, <1>4, ReturnIdle
<1> HIDE DEF got
<1>6. TypeOK'
  BY SMTT(30), <1>2, <1>4, <1>5 DEF TypeOK
<1>7. Exclusive' /\ QuietCall'
  BY <1>4, <1>5 DEF Exclusive, QuietCall
<1>8. Ordered'
  <2>1. \A i \in DOMAIN wire : wire[i] # 0 => got < wire[i]
    BY <1>2 DEF Ordered, Across, got
  <2>2. \A i \in DOMAIN pending : got < pending[i]
    BY <1>2 DEF Ordered, Across, got
  <2> QED
    BY <1>4, <2>1, <2>2 DEF Ordered, Window, WireSorted, PendingSorted, Across
<1>9. sent - got <= missed /\ Counted'
  <2>1. sent - 1 <= taken + missed /\ missed <= sent - 1
    BY <1>1 DEF Counted, Outstanding
  <2> QED
    BY SMTT(30), <1>1, <1>2, <1>3, <1>4, <1>5, <2>1 DEF TypeOK, Counted, Outstanding
<1>10. LagBounded' /\ DrainResynchronises'
  BY SMTT(30), <1>2, <1>3, <1>4, <1>9 DEF TypeOK, LagBounded, DrainResynchronises
<1>11. reply'[c].got > taken
  BY <1>3, <1>4 DEF TypeOK
<1> QED
  BY <1>6, <1>7, <1>8, <1>9, <1>10, <1>11

(* Execute gives up: one more command missed its response.                  *)
LEMMA AbortStep ==
  ASSUME IInv, NEW c \in Callers, abort(c)
  PROVE  IInv' /\ reply'[c].got = 0
<1> USE DEF IInv
<1>1. /\ UNCHANGED <<mode, open, pending, wire, respCh, done, sent, events,
                     taken, quiet>>
      /\ pc[c] = "wait" /\ mode = "ready" /\ cmdMu' = NoCaller
      /\ pc' = [pc EXCEPT ![c] = "idle"] /\ missed' = missed + 1
      /\ reply' = [reply EXCEPT ![c] = [cmd |-> sent, got |-> 0, quiet |-> quiet]]
  BY DEF abort, return, Exclusive
<1>2. /\ pc' \in [Callers -> {"idle", "drain", "write", "wait"}]
      /\ \A d \in Callers : pc'[d] = "idle"
  BY Zenon, <1>1, ReturnIdle
<1>3. sent - 1 <= taken + missed /\ missed <= sent - 1
  BY <1>1 DEF Counted, Outstanding
<1>4. Counted'
  BY <1>1, <1>2, <1>3 DEF TypeOK, Counted, Outstanding
<1>5. TypeOK'
  BY SMTT(30), <1>1, <1>2, <1>3, QMPAssumption DEF TypeOK
<1>6. Exclusive' /\ Ordered' /\ QuietCall'
  BY <1>1, <1>2 DEF Exclusive, Ordered, Window, WireSorted, PendingSorted,
     Across, QuietCall
<1>7. LagBounded' /\ DrainResynchronises' /\ reply'[c].got = 0
  BY SMTT(30), <1>1 DEF TypeOK, LagBounded, DrainResynchronises
<1> QED
  BY <1>4, <1>5, <1>6, <1>7

(* Every step of QEMU, of the reader and of a caller preserves the          *)
(* invariant.                                                               *)
LEMMA StepIInv == IInv /\ [Next]_vars => IInv'
<1> SUFFICES ASSUME IInv, [Next]_vars PROVE IInv'
  OBVIOUS
<1>1. CASE UNCHANGED vars
  BY <1>1 DEF vars, IInv, TypeOK, Exclusive, Ordered, Window, WireSorted,
     PendingSorted, Across, Counted, QuietCall,
     LagBounded, DrainResynchronises, Outstanding
<1>2. CASE QemuReply \/ QemuEvent \/ QemuExit
  BY <1>2, QemuReplyStep, QemuEventStep, QemuExitStep
<1>3. CASE handshake \/ readLine \/ readClosed \/ Close
  BY SMTT(30), <1>3, HandshakeStep, ReadLineStep, ReadClosedStep, CloseStep
<1>4. CASE \E c \in Callers : Execute(c)
  BY <1>4, LockStep, DrainStep, WriteRequestStep, ReceiveStep, AbortStep
     DEF Execute
<1> QED
  BY <1>1, <1>2, <1>3, <1>4 DEF Next

(* Type correctness of the QMP owner, for any number of callers.            *)
THEOREM TypeCorrect == Spec => []TypeOK
<1>1. IInv => TypeOK
  BY DEF IInv
<1> QED
  BY <1>1, InitIInv, StepIInv, PTL DEF Spec

(* A returned response lags behind its command by at most the number of     *)
(* commands that ended without one, for any number of callers, commands and *)
(* events.                                                                  *)
THEOREM LagIsBounded == Spec => []LagBounded
<1>1. IInv => LagBounded
  BY DEF IInv
<1> QED
  BY <1>1, InitIInv, StepIInv, PTL DEF Spec

(* A drain that leaves nothing owed pairs the call with its own response.   *)
THEOREM DrainIsResync == Spec => []DrainResynchronises
<1>1. IInv => DrainResynchronises
  BY DEF IInv
<1> QED
  BY <1>1, InitIInv, StepIInv, PTL DEF Spec

(* A step changes the result of a call to a response only by taking one     *)
(* that is newer than every response taken before.                          *)
LEMMA StepTakesNewer ==
  ASSUME IInv, [Next]_vars, NEW c \in Callers,
         reply'[c] # reply[c], reply'[c].got # 0
  PROVE  reply'[c].got > taken
<1>1. PICK d \in Callers : Execute(d)
  BY SMTT(30) DEF Next, vars, QemuReply, QemuEvent, QemuExit, handshake, readLine,
     readClosed, Close, caller
<1>2. CASE lock(d) \/ drain(d)
  BY <1>2 DEF lock, drain
<1>3. CASE writeRequest(d)
  <2>1. reply' = reply \/ reply' = [reply EXCEPT ![d] = NoReply]
    BY <1>3 DEF writeRequest, return
  <2> QED
    BY <2>1 DEF IInv, TypeOK, NoReply
<1>4. CASE receive(d)
  <2>1. d = c
    BY <1>4 DEF receive, return, IInv, TypeOK
  <2> QED
    BY <1>4, <2>1, ReceiveStep
<1>5. CASE abort(d)
  <2>1. d = c
    BY <1>5 DEF abort, return, IInv, TypeOK
  <2> QED
    BY <1>5, <2>1, AbortStep
<1> QED
  BY SMTT(30), <1>1, <1>2, <1>3, <1>4, <1>5 DEF Execute

(* No response is handed out twice, and they are handed out in order.       *)
THEOREM TakenOnce == Spec => ResponseTakenOnce
<1>1. IInv /\ [Next]_vars =>
        [\A c \in Callers :
           reply'[c] # reply[c] /\ reply'[c].got # 0 => reply'[c].got > taken]_vars
  BY StepTakesNewer
<1> QED
  BY <1>1, InitIInv, StepIInv, PTL DEF Spec, ResponseTakenOnce

=============================================================================
