----------------------------- MODULE SSHProofs ------------------------------
(***************************************************************************)
(* The two halves of internal/vm/sshproxy.go, for any VMs, ports, requests *)
(* and bounds: the shared SSH connection is never leaked and a reboot is   *)
(* recovered from; the ports on record are the ports the daemon serves.    *)
(***************************************************************************)
EXTENDS SSHClients, SSHProxies, WellFoundedInduction, TLAPS

RequestPcs  == {"accept", "lookup", "dial", "publish", "channel", "copy", "done"}
RequestType == [pc : RequestPcs, cl : Nat, again : BOOLEAN, disturbed : BOOLEAN,
                res : {"", "error", "served"}]

(* Connections are numbered as they are dialled.                            *)
Numbered ==
  /\ dialled \in Nat /\ reboots \in Nat /\ cached \in 0..dialled
  /\ openc \subseteq 1..dialled /\ deadc \subseteq 1..dialled
  /\ \A r \in Requests : rq[r].cl \in 0..dialled

ClientTypeOK == Numbered /\ rq \in [Requests -> RequestType] /\ sticky \in BOOLEAN

(* A connection that is dialled and not yet published is its request's own. *)
OwnUntilPublished ==
  \A r \in Requests : rq[r].pc = "publish" =>
    /\ rq[r].cl \in openc /\ rq[r].cl # cached
    /\ \A q \in Requests \ {r} : rq[q].cl # rq[r].cl

Good(c) == c \in openc \ deadc

(* What a request knows as long as nothing has disturbed it: only its first *)
(* attempt can meet a broken connection, and that is then the shared one.   *)
Undisturbed(r) ==
  /\ rq[r].pc \in {"lookup", "dial", "publish"} /\ rq[r].again => cached = 0 \/ Good(cached)
  /\ rq[r].pc = "publish" => Good(rq[r].cl)
  /\ rq[r].pc = "channel" => Good(rq[r].cl) \/ (~rq[r].again /\ cached = rq[r].cl)

InOrder(r) ==
  /\ rq[r].pc # "done" => rq[r].res = ""
  /\ rq[r].pc = "accept" => ~rq[r].again
  /\ rq[r].pc = "channel" => rq[r].cl # 0

ClientInv ==
  /\ ClientTypeOK /\ NoClientLeaked /\ OwnUntilPublished
  /\ \A r \in Requests : InOrder(r)
  /\ \A r \in Requests \ Refused : ~rq[r].disturbed => Undisturbed(r)

-----------------------------------------------------------------------------
(* Marking a request as disturbed changes nothing else of it, and leaves    *)
(* only a request not yet accepted unmarked.                                *)
LEMMA Disturb ==
  ASSUME NEW q \in RequestType
  PROVE  /\ disturb(q) \in RequestType /\ disturb(q).pc = q.pc /\ disturb(q).cl = q.cl
         /\ disturb(q).again = q.again /\ disturb(q).res = q.res
         /\ ~disturb(q).disturbed => ~q.disturbed /\ q.pc = "accept"
<1>1. /\ q.pc \in RequestPcs /\ q.cl \in Nat /\ q.again \in BOOLEAN
      /\ q.disturbed \in BOOLEAN /\ q.res \in {"", "error", "served"}
  BY DEF RequestType
<1>2. disturb(q) = [q EXCEPT !.disturbed = q.disturbed \/ q.pc # "accept"]
  BY DEF disturb
<1>3. (q.disturbed \/ q.pc # "accept") \in BOOLEAN
  OBVIOUS
<1>4. disturb(q) \in RequestType
  BY Zenon, <1>2, <1>3 DEF RequestType
<1>5. /\ disturb(q).pc = q.pc /\ disturb(q).cl = q.cl /\ disturb(q).again = q.again
      /\ disturb(q).res = q.res
      /\ disturb(q).disturbed = (q.disturbed \/ q.pc # "accept")
  BY <1>2 DEF RequestType
<1> QED
  BY <1>1, <1>4, <1>5

(* The fields of a request, typed.                                          *)
LEMMA RequestFields ==
  ASSUME ClientTypeOK, NEW r \in Requests
  PROVE  /\ rq[r] \in RequestType /\ rq[r].pc \in RequestPcs /\ rq[r].cl \in Nat
         /\ rq[r].again \in BOOLEAN /\ rq[r].disturbed \in BOOLEAN
         /\ rq[r].res \in {"", "error", "served"}
  BY DEF ClientTypeOK, RequestType

(* 0 is no connection, and the next number is new.                          *)
LEMMA Numbers ==
  ASSUME Numbered
  PROVE  /\ cached \in Nat /\ 0 \notin openc
         /\ dialled + 1 \in Nat /\ dialled + 1 \notin deadc /\ dialled + 1 # cached
         /\ \A r \in Requests : rq[r].cl # dialled + 1
  BY DEF Numbered

(* Requests pass connections on, and none is dialled.                       *)
LEMMA NumberedKept ==
  ASSUME Numbered, UNCHANGED <<dialled, reboots, deadc>>, openc' \subseteq openc,
         cached' \in {0, cached} \cup openc,
         \A q \in Requests : rq'[q].cl \in {0, cached, rq[q].cl}
  PROVE  Numbered'
  BY DEF Numbered

(* One request dials the next connection.                                   *)
LEMMA NumberedDial ==
  ASSUME Numbered, UNCHANGED <<reboots, deadc, cached>>, dialled' = dialled + 1,
         openc' = openc \cup {dialled + 1},
         \A q \in Requests : rq'[q].cl \in {dialled + 1, rq[q].cl}
  PROVE  Numbered'
  BY DEF Numbered

(* No open connection is dropped on the way: a request that was about to    *)
(* publish one still is, or the connection is closed or shared now.         *)
LEMMA LeakFree ==
  ASSUME NoClientLeaked, openc' \subseteq openc,
         cached = cached' \/ cached \notin openc',
         \A q \in Requests : rq[q].pc = "publish" =>
           \/ rq'[q].pc = "publish" /\ rq'[q].cl = rq[q].cl
           \/ rq[q].cl \notin openc' \/ rq[q].cl = cached'
  PROVE  NoClientLeaked'
<1> SUFFICES ASSUME NEW c \in openc', c # cached'
             PROVE  \E q \in Requests : rq'[q].pc = "publish" /\ rq'[q].cl = c
  BY DEF NoClientLeaked
<1>1. PICK q \in Requests : rq[q].pc = "publish" /\ rq[q].cl = c
  BY DEF NoClientLeaked
<1> QED
  BY <1>1

(* A proxy that has accepted nothing satisfies the invariant.               *)
LEMMA ClientInitInv == ClientInit => ClientInv
<1> SUFFICES ASSUME ClientInit PROVE ClientInv
  OBVIOUS
<1>1. Request0 \in RequestType /\ Request0.pc = "accept" /\ Request0.cl = 0
      /\ Request0.res = "" /\ ~Request0.again
  BY DEF Request0, RequestType, RequestPcs
<1>2. \A r \in Requests : rq[r] = Request0
  BY DEF ClientInit
<1>3. ClientTypeOK
  <2>0. \A r \in Requests : rq[r].cl = 0
    BY <1>1, <1>2
  <2>1. Numbered
    BY <2>0 DEF ClientInit, Numbered
  <2>2. rq \in [Requests -> RequestType] /\ sticky \in BOOLEAN
    BY <1>1 DEF ClientInit
  <2> QED
    BY <2>1, <2>2 DEF ClientTypeOK
<1>4. NoClientLeaked /\ OwnUntilPublished
  BY <1>1, <1>2 DEF ClientInit, NoClientLeaked, OwnUntilPublished
<1>5. \A r \in Requests : InOrder(r)
  BY <1>1, <1>2 DEF InOrder
<1>6. \A r \in Requests \ Refused : Undisturbed(r)
  BY <1>1, <1>2 DEF Undisturbed
<1> QED
  BY <1>3, <1>4, <1>5, <1>6 DEF ClientInv

(* A step of request r alone that neither dials, publishes nor drops a      *)
(* connection.                                                              *)
LEMMA RequestStep ==
  ASSUME ClientInv, NEW r \in Requests, NEW v \in RequestType,
         rq' = [rq EXCEPT ![r] = v], sticky' \in BOOLEAN,
         UNCHANGED <<cached, openc, deadc, dialled, reboots>>,
         rq[r].pc # "publish", v.pc \notin {"publish", "accept"}, v.cl \in {0, cached, rq[r].cl},
         v.pc # "done" => v.res = "", v.pc = "channel" => v.cl # 0,
         r \notin Refused /\ ~v.disturbed => Undisturbed(r)'
  PROVE  ClientInv'
<1>1. /\ ClientTypeOK /\ rq'[r] = v /\ \A q \in Requests \ {r} : rq'[q] = rq[q]
  BY DEF ClientInv, ClientTypeOK
<1>2. ClientTypeOK'
  <2>1. rq' \in [Requests -> RequestType]
    BY <1>1 DEF ClientTypeOK
  <2>2. \A q \in Requests : rq'[q].cl \in {0, cached, rq[q].cl}
    BY <1>1
  <2>3. Numbered'
    BY <1>1, <2>2, NumberedKept DEF ClientTypeOK
  <2> QED
    BY <2>1, <2>3 DEF ClientTypeOK
<1>3. NoClientLeaked'
  BY <1>1, LeakFree DEF ClientInv
<1>4. OwnUntilPublished'
  <2> SUFFICES ASSUME NEW q \in Requests, rq'[q].pc = "publish"
               PROVE  /\ rq'[q].cl \in openc /\ rq'[q].cl # cached
                      /\ \A x \in Requests \ {q} : rq'[x].cl # rq'[q].cl
    BY DEF OwnUntilPublished
  <2>1. q # r /\ rq'[q] = rq[q]
    BY <1>1
  <2>2. /\ rq[q].cl \in openc /\ rq[q].cl # cached
        /\ \A x \in Requests \ {q} : rq[x].cl # rq[q].cl
    BY <2>1 DEF ClientInv, OwnUntilPublished
  <2>3. rq[q].cl # 0
    BY <1>1, <2>2, Numbers DEF ClientTypeOK
  <2> QED
    BY <1>1, <2>1, <2>2, <2>3
<1>5. \A q \in Requests : InOrder(q)'
  BY <1>1 DEF ClientInv, InOrder
<1>6. \A q \in Requests \ Refused : ~rq'[q].disturbed => Undisturbed(q)'
  BY ZenonT(60), <1>1 DEF ClientInv, Undisturbed, Good
<1> QED
  BY <1>2, <1>3, <1>4, <1>5, <1>6 DEF ClientInv

(* forward touches one request and no connection.                           *)
LEMMA ForwardStep ==
  ASSUME ClientInv, NEW r \in Requests, forward(r)
  PROVE  ClientInv'
<1>0. /\ ClientTypeOK /\ rq[r] \in RequestType /\ rq[r].pc = "accept"
      /\ rq[r].res = "" /\ ~rq[r].again /\ rq \in [Requests -> RequestType]
      /\ sticky' \in BOOLEAN /\ UNCHANGED <<cached, openc, deadc, dialled, reboots>>
  BY RequestFields DEF ClientInv, InOrder, forward, ClientTypeOK
<1> DEFINE f == [rq[r] EXCEPT !.pc = "done", !.cl = 0, !.res = "error"]
           g == [rq[r] EXCEPT !.pc = "copy"]
           h == [rq[r] EXCEPT !.pc = "lookup"]
<1>1. PICK v \in {f, g, h} : rq' = [rq EXCEPT ![r] = v]
  BY Zenon, <1>0 DEF forward, fail
<1>2. f \in RequestType /\ g \in RequestType /\ h \in RequestType
  BY Zenon, <1>0 DEF RequestType, RequestPcs
<1>3. /\ f.pc = "done" /\ f.cl = 0 /\ g.pc = "copy" /\ g.cl = rq[r].cl /\ g.res = ""
      /\ h.pc = "lookup" /\ h.cl = rq[r].cl /\ h.res = "" /\ ~h.again
  BY <1>0 DEF RequestType
<1> HIDE DEF f, g, h
<1>4. /\ v \in RequestType /\ v.pc \in {"done", "copy", "lookup"} /\ v.cl \in {0, rq[r].cl}
      /\ (v.pc # "done" => v.res = "") /\ (v.pc = "lookup" => ~v.again) /\ rq'[r] = v
  BY <1>0, <1>1, <1>2, <1>3
<1>5. Undisturbed(r)'
  BY <1>4 DEF Undisturbed
<1> QED
  BY <1>0, <1>1, <1>4, <1>5, RequestStep

(* A request takes the shared connection, or goes on to dial.               *)
LEMMA LookupStep ==
  ASSUME ClientInv, NEW r \in Requests, lookupClient(r)
  PROVE  ClientInv'
<1>0. /\ ClientTypeOK /\ rq[r] \in RequestType /\ rq[r].pc = "lookup"
      /\ rq[r].res = "" /\ rq \in [Requests -> RequestType] /\ cached \in Nat
      /\ sticky' \in BOOLEAN /\ UNCHANGED <<cached, openc, deadc, dialled, reboots>>
  BY RequestFields, Numbers DEF ClientInv, InOrder, lookupClient, ClientTypeOK
<1>1. r \notin Refused /\ ~rq[r].disturbed /\ rq[r].again => cached = 0 \/ Good(cached)
  BY <1>0 DEF ClientInv, Undisturbed
<1>2. CASE cached # 0
  <2> DEFINE v == [rq[r] EXCEPT !.pc = "channel", !.cl = cached]
  <2>1. rq' = [rq EXCEPT ![r] = v]
    BY Zenon, <1>0, <1>2 DEF lookupClient
  <2>2. v \in RequestType
    BY Zenon, <1>0 DEF RequestType, RequestPcs
  <2>3. /\ v.pc = "channel" /\ v.cl = cached /\ v.again = rq[r].again /\ v.res = ""
        /\ v.disturbed = rq[r].disturbed
    BY <1>0 DEF RequestType
  <2> HIDE DEF v
  <2>4. rq'[r] = v
    BY <1>0, <2>1
  <2>5. r \notin Refused /\ ~v.disturbed => Undisturbed(r)'
    BY <1>0, <1>1, <1>2, <2>3, <2>4 DEF Undisturbed, Good
  <2> QED
    BY <1>0, <1>2, <2>1, <2>2, <2>3, <2>5, RequestStep
<1>3. CASE cached = 0
  <2> DEFINE v == [rq[r] EXCEPT !.pc = "dial"]
  <2>1. rq' = [rq EXCEPT ![r] = v]
    BY Zenon, <1>0, <1>3 DEF lookupClient
  <2>2. v \in RequestType
    BY Zenon, <1>0 DEF RequestType, RequestPcs
  <2>3. v.pc = "dial" /\ v.cl = rq[r].cl /\ v.res = ""
    BY <1>0 DEF RequestType
  <2> HIDE DEF v
  <2>4. rq'[r] = v
    BY <1>0, <2>1
  <2>5. Undisturbed(r)'
    BY <1>0, <1>3, <2>3, <2>4 DEF Undisturbed, Good
  <2> QED
    BY <1>0, <2>1, <2>2, <2>3, <2>5, RequestStep
<1> QED
  BY <1>2, <1>3

(* A request ends, or its channel is opened.                                *)
LEMMA EndStep ==
  ASSUME ClientInv, NEW r \in Requests, dialFails(r) \/ copyEnds(r) \/ channelOpens(r)
  PROVE  ClientInv'
<1>0. /\ ClientTypeOK /\ rq[r] \in RequestType /\ rq[r].pc \in {"dial", "copy", "channel"}
      /\ rq[r].res = "" /\ rq \in [Requests -> RequestType]
      /\ sticky' \in BOOLEAN /\ UNCHANGED <<cached, openc, deadc, dialled, reboots>>
  BY RequestFields DEF ClientInv, InOrder, dialFails, copyEnds, channelOpens, ClientTypeOK
<1> DEFINE f == [rq[r] EXCEPT !.pc = "done", !.cl = 0, !.res = "error"]
           g == [rq[r] EXCEPT !.pc = "done", !.cl = 0, !.res = "served"]
           h == [rq[r] EXCEPT !.pc = "copy"]
<1>1. PICK v \in {f, g, h} : rq' = [rq EXCEPT ![r] = v]
  BY Zenon, <1>0 DEF dialFails, copyEnds, channelOpens, fail
<1>2. f \in RequestType /\ g \in RequestType /\ h \in RequestType
  BY Zenon, <1>0 DEF RequestType, RequestPcs
<1>3. /\ f.pc = "done" /\ f.cl = 0 /\ g.pc = "done" /\ g.cl = 0
      /\ h.pc = "copy" /\ h.cl = rq[r].cl /\ h.res = ""
  BY <1>0 DEF RequestType
<1> HIDE DEF f, g, h
<1>4. /\ v \in RequestType /\ v.pc \in {"done", "copy"} /\ v.cl \in {0, rq[r].cl}
      /\ (v.pc # "done" => v.res = "") /\ rq'[r] = v
  BY <1>0, <1>1, <1>2, <1>3
<1>5. Undisturbed(r)'
  BY <1>4 DEF Undisturbed
<1> QED
  BY <1>0, <1>1, <1>4, <1>5, RequestStep

-----------------------------------------------------------------------------
(* Steps that dial, publish or drop a connection.                           *)

(* A new connection is held by the request that dialled it.                 *)
LEMMA DialStep ==
  ASSUME ClientInv, NEW r \in Requests, dialSSH(r)
  PROVE  ClientInv'
<1> DEFINE n == dialled + 1
           v == [rq[r] EXCEPT !.pc = "publish", !.cl = n]
<1>0. /\ ClientTypeOK /\ rq[r] \in RequestType /\ rq[r].pc = "dial"
      /\ rq[r].res = "" /\ rq \in [Requests -> RequestType] /\ dialled' = n
      /\ openc' = openc \cup {n} /\ UNCHANGED <<cached, deadc, reboots, sticky>>
  BY RequestFields DEF ClientInv, InOrder, dialSSH, ClientTypeOK
<1>n. /\ n \in Nat /\ n \notin deadc /\ n # cached
      /\ \A q \in Requests : rq[q].cl # n
  BY <1>0, Numbers DEF ClientTypeOK
<1>N. Numbered /\ dialled' = dialled + 1 /\ openc' = openc \cup {dialled + 1}
  BY <1>0 DEF ClientTypeOK
<1>1. rq' = [rq EXCEPT ![r] = v]
  BY Zenon, <1>0 DEF dialSSH
<1>2. v \in RequestType
  BY Zenon, <1>0, <1>n DEF RequestType, RequestPcs
<1>3. /\ v.pc = "publish" /\ v.cl = n /\ v.again = rq[r].again /\ v.res = ""
      /\ v.disturbed = rq[r].disturbed
  BY <1>0 DEF RequestType
<1> HIDE DEF v
<1>4. rq'[r] = v /\ \A q \in Requests \ {r} : rq'[q] = rq[q]
  BY <1>0, <1>1
<1>5. ClientTypeOK'
  <2>1. rq' \in [Requests -> RequestType]
    BY <1>0, <1>1, <1>2
  <2>2. \A q \in Requests : rq'[q].cl \in {dialled + 1, rq[q].cl}
    BY <1>3, <1>4
  <2>3. Numbered'
    BY <1>0, <1>N, <2>2, NumberedDial
  <2> QED
    BY <1>0, <2>1, <2>3 DEF ClientTypeOK
<1> HIDE DEF n
<1>7. NoClientLeaked'
  <2> SUFFICES ASSUME NEW c \in openc', c # cached'
               PROVE  \E q \in Requests : rq'[q].pc = "publish" /\ rq'[q].cl = c
    BY DEF NoClientLeaked
  <2>1. CASE c = n
    BY <1>3, <1>4, <2>1
  <2>2. CASE c # n
    <3>1. PICK q \in Requests : rq[q].pc = "publish" /\ rq[q].cl = c
      BY <1>0, <2>2 DEF ClientInv, NoClientLeaked
    <3> QED
      BY <1>0, <1>4, <3>1
  <2> QED
    BY <2>1, <2>2
<1>8. OwnUntilPublished'
  BY ZenonT(60), <1>0, <1>n, <1>3, <1>4 DEF ClientInv, OwnUntilPublished
<1>9. \A q \in Requests : InOrder(q)'
  BY <1>3, <1>4 DEF ClientInv, InOrder
<1>11. \A q \in Requests \ Refused : ~rq'[q].disturbed => Undisturbed(q)'
  BY <1>0, <1>n, <1>3, <1>4 DEF ClientInv, Undisturbed, Good
<1> QED
  BY <1>5, <1>7, <1>8, <1>9, <1>11 DEF ClientInv

(* Another request's connection is not touched by what r does with its own. *)
LEMMA PublishStep ==
  ASSUME ClientInv, NEW r \in Requests, publish(r)
  PROVE  ClientInv'
<1>0. /\ ClientTypeOK /\ rq[r] \in RequestType /\ rq[r].pc = "publish" /\ rq[r].res = ""
      /\ rq \in [Requests -> RequestType] /\ UNCHANGED <<deadc, dialled, reboots, sticky>>
      /\ rq[r].cl \in openc /\ rq[r].cl # cached /\ cached \in Nat
      /\ \A q \in Requests \ {r} : rq[q].cl # rq[r].cl
  BY RequestFields, Numbers DEF ClientInv, InOrder, publish, ClientTypeOK, OwnUntilPublished
<1>1. CASE cached # 0
  <2> DEFINE v == [rq[r] EXCEPT !.pc = "channel", !.cl = cached]
  <2>0. openc' = openc \ {rq[r].cl} /\ cached' = cached
    BY <1>1 DEF publish
  <2>1. rq' = [rq EXCEPT ![r] = v]
    BY Zenon, <1>0, <1>1 DEF publish
  <2>2. v \in RequestType
    BY Zenon, <1>0 DEF RequestType, RequestPcs
  <2>3. /\ v.pc = "channel" /\ v.cl = cached /\ v.again = rq[r].again /\ v.res = ""
        /\ v.disturbed = rq[r].disturbed
    BY <1>0 DEF RequestType
  <2> HIDE DEF v
  <2>4. rq'[r] = v /\ \A q \in Requests \ {r} : rq'[q] = rq[q]
    BY <1>0, <2>1
  <2>5. ClientTypeOK'
    <3>1. rq' \in [Requests -> RequestType]
      BY <1>0, <2>1, <2>2
    <3>2. \A q \in Requests : rq'[q].cl \in {0, cached, rq[q].cl}
      BY <2>3, <2>4
    <3>3. Numbered'
      BY <1>0, <2>0, <3>2, NumberedKept DEF ClientTypeOK
    <3> QED
      BY <1>0, <3>1, <3>3 DEF ClientTypeOK
  <2>6. NoClientLeaked'
    BY <1>0, <2>0, <2>4, LeakFree DEF ClientInv
  <2>7. OwnUntilPublished'
    BY ZenonT(60), <1>0, <2>0, <2>3, <2>4 DEF ClientInv, OwnUntilPublished
  <2>8. \A q \in Requests : InOrder(q)'
    BY <1>1, <2>3, <2>4 DEF ClientInv, InOrder
  <2>9. ASSUME NEW q \in Requests \ Refused, ~rq'[q].disturbed PROVE Undisturbed(q)'
    <3>1. CASE q = r
      <4>1. rq[r].again => Good(cached)
        BY <1>0, <1>1, <2>3, <2>4, <2>9, <3>1 DEF ClientInv, Undisturbed
      <4> QED
        BY <1>0, <2>0, <2>3, <2>4, <3>1, <4>1 DEF Undisturbed, Good
    <3>2. CASE q # r
      <4>1. Undisturbed(q) /\ rq'[q] = rq[q] /\ rq[q].cl # rq[r].cl
        BY <1>0, <2>4, <2>9, <3>2 DEF ClientInv
      <4> QED
        BY <1>0, <2>0, <4>1 DEF Undisturbed, Good
    <3> QED
      BY <3>1, <3>2
  <2> QED
    BY <2>5, <2>6, <2>7, <2>8, <2>9 DEF ClientInv
<1>2. CASE cached = 0
  <2> DEFINE v == [rq[r] EXCEPT !.pc = "channel"]
             c == rq[r].cl
  <2>0. openc' = openc /\ cached' = c
    BY <1>2 DEF publish
  <2>1. rq' = [q \in Requests |-> IF q = r THEN v
                 ELSE IF c \in deadc THEN disturb(rq[q]) ELSE rq[q]]
    BY Zenon, <1>2 DEF publish
  <2>2. v \in RequestType
    BY Zenon, <1>0 DEF RequestType, RequestPcs
  <2>3. /\ v.pc = "channel" /\ v.cl = c /\ v.again = rq[r].again /\ v.res = ""
        /\ v.disturbed = rq[r].disturbed
    BY <1>0 DEF RequestType
  <2> HIDE DEF v
  <2>4. /\ rq'[r] = v
        /\ \A q \in Requests \ {r} : rq'[q] = IF c \in deadc THEN disturb(rq[q]) ELSE rq[q]
    BY <2>1
  <2>5. \A q \in Requests \ {r} :
           /\ rq'[q] \in RequestType /\ rq'[q].pc = rq[q].pc /\ rq'[q].cl = rq[q].cl
           /\ rq'[q].again = rq[q].again /\ rq'[q].res = rq[q].res
           /\ ~rq'[q].disturbed => ~rq[q].disturbed /\ (c \in deadc => rq[q].pc = "accept")
    <3> SUFFICES ASSUME NEW q \in Requests \ {r}
                 PROVE  /\ rq'[q] \in RequestType /\ rq'[q].pc = rq[q].pc
                        /\ rq'[q].cl = rq[q].cl /\ rq'[q].again = rq[q].again
                        /\ rq'[q].res = rq[q].res
                        /\ ~rq'[q].disturbed =>
                             ~rq[q].disturbed /\ (c \in deadc => rq[q].pc = "accept")
      OBVIOUS
    <3>1. rq[q] \in RequestType
      BY <1>0
    <3> QED
      BY <2>4, <3>1, Disturb
  <2>6. ClientTypeOK'
    <3>1. rq' \in [Requests -> RequestType]
      BY <2>1, <2>2, <2>4, <2>5
    <3>2. \A q \in Requests : rq'[q].cl \in {0, cached, rq[q].cl}
      BY <2>3, <2>4, <2>5
    <3>3. Numbered'
      BY <1>0, <2>0, <3>2, NumberedKept DEF ClientTypeOK
    <3> QED
      BY <1>0, <3>1, <3>3 DEF ClientTypeOK
  <2>7. NoClientLeaked'
    <3>1. cached \notin openc'
      BY <1>0, <1>2, <2>0, Numbers DEF ClientTypeOK
    <3> QED
      BY <1>0, <2>0, <2>5, <3>1, LeakFree DEF ClientInv
  <2>8. OwnUntilPublished'
    <3> SUFFICES ASSUME NEW q \in Requests, rq'[q].pc = "publish"
                 PROVE  /\ rq'[q].cl \in openc' /\ rq'[q].cl # cached'
                        /\ \A x \in Requests \ {q} : rq'[x].cl # rq'[q].cl
      BY DEF OwnUntilPublished
    <3>1. q # r /\ rq'[q].cl = rq[q].cl /\ rq[q].pc = "publish"
      BY <2>3, <2>4, <2>5
    <3>2. /\ rq[q].cl \in openc /\ rq[q].cl # c
          /\ \A x \in Requests \ {q} : rq[x].cl # rq[q].cl
      BY <1>0, <3>1 DEF ClientInv, OwnUntilPublished
    <3>3. \A x \in Requests : rq'[x].cl = rq[x].cl
      BY <2>3, <2>4, <2>5
    <3> QED
      BY <2>0, <3>2, <3>3
  <2>9. \A q \in Requests : InOrder(q)'
    <3>1. c # 0
      BY <1>0, Numbers DEF ClientTypeOK
    <3> QED
      BY ZenonT(60), <2>3, <2>4, <2>5, <3>1 DEF ClientInv, InOrder
  <2>10. ASSUME NEW q \in Requests \ Refused, ~rq'[q].disturbed PROVE Undisturbed(q)'
    <3>1. CASE q = r
      <4>1. Good(c)
        BY <1>0, <2>3, <2>4, <2>10, <3>1 DEF ClientInv, Undisturbed
      <4> QED
        BY <1>0, <2>0, <2>3, <2>4, <3>1, <4>1 DEF Undisturbed, Good
    <3>2. CASE q # r
      <4>1. /\ Undisturbed(q) /\ (c \in deadc => rq[q].pc = "accept")
            /\ rq'[q].pc = rq[q].pc /\ rq'[q].cl = rq[q].cl /\ rq'[q].again = rq[q].again
        BY <2>5, <2>10, <3>2 DEF ClientInv
      <4>2. CASE c \in deadc
        BY <4>1, <4>2 DEF Undisturbed
      <4>3. CASE c \notin deadc
        BY <1>0, <1>2, <2>0, <4>1, <4>3 DEF ClientInv, InOrder, Undisturbed, Good
      <4> QED
        BY <4>2, <4>3
    <3> QED
      BY <3>1, <3>2
  <2> QED
    BY <2>6, <2>7, <2>8, <2>9, <2>10 DEF ClientInv
<1> QED
  BY <1>0, <1>1, <1>2

(* A broken connection is closed and, if it was the shared one, evicted;    *)
(* the requests that lost it are marked.                                    *)
LEMMA DropStep ==
  ASSUME ClientInv, NEW r \in Requests, channelFails(r)
  PROVE  ClientInv'
<1> DEFINE c == rq[r].cl
           f == [rq[r] EXCEPT !.pc = "lookup", !.cl = 0, !.again = TRUE]
           g == [rq[r] EXCEPT !.pc = "done", !.cl = 0, !.res = "error"]
           v == IF retryOnce(r) THEN f ELSE g
<1>0. /\ ClientTypeOK /\ rq[r] \in RequestType /\ rq[r].pc = "channel" /\ rq[r].res = ""
      /\ rq \in [Requests -> RequestType] /\ UNCHANGED <<deadc, dialled, reboots, sticky>>
      /\ openc' = openc \ {c} /\ cached' = (IF cached = c THEN 0 ELSE cached) /\ ~works(r)
      /\ c # 0
  BY RequestFields DEF ClientInv, InOrder, channelFails, evict, ClientTypeOK
<1>1. rq' = [q \in Requests |-> IF q = r THEN v ELSE disturb(rq[q])]
  BY Zenon DEF channelFails
<1>2. f \in RequestType /\ g \in RequestType
  BY Zenon, <1>0 DEF RequestType, RequestPcs
<1>3. /\ f.pc = "lookup" /\ f.cl = 0 /\ f.res = "" /\ f.again
      /\ f.disturbed = rq[r].disturbed /\ g.pc = "done" /\ g.cl = 0
  BY <1>0 DEF RequestType
<1> HIDE DEF f, g
<1>4. /\ v \in RequestType /\ v.pc \in {"lookup", "done"} /\ v.cl = 0
      /\ v.pc = "lookup" => v.res = "" /\ v.disturbed = rq[r].disturbed /\ ~rq[r].again
  BY <1>2, <1>3 DEF retryOnce
<1> HIDE DEF v
<1>5. rq'[r] = v /\ \A q \in Requests \ {r} : rq'[q] = disturb(rq[q])
  BY <1>1
<1>6. \A q \in Requests \ {r} :
         /\ rq'[q] \in RequestType /\ rq'[q].pc = rq[q].pc /\ rq'[q].cl = rq[q].cl
         /\ rq'[q].again = rq[q].again /\ rq'[q].res = rq[q].res
         /\ ~rq'[q].disturbed => rq[q].pc = "accept"
  <2> SUFFICES ASSUME NEW q \in Requests \ {r}
               PROVE  /\ rq'[q] \in RequestType /\ rq'[q].pc = rq[q].pc
                      /\ rq'[q].cl = rq[q].cl /\ rq'[q].again = rq[q].again
                      /\ rq'[q].res = rq[q].res
                      /\ ~rq'[q].disturbed => rq[q].pc = "accept"
    OBVIOUS
  <2>1. rq'[q] = disturb(rq[q]) /\ rq[q] \in RequestType
    BY <1>0, <1>5
  <2> QED
    BY <2>1, Disturb
<1>7. ClientTypeOK'
  <2>1. rq' \in [Requests -> RequestType]
    BY <1>1, <1>4, <1>5, <1>6
  <2>2. \A q \in Requests : rq'[q].cl \in {0, cached, rq[q].cl}
    BY <1>4, <1>5, <1>6
  <2>3. Numbered'
    BY <1>0, <2>2, NumberedKept DEF ClientTypeOK
  <2> QED
    BY <1>0, <2>1, <2>3 DEF ClientTypeOK
<1>8. NoClientLeaked'
  BY <1>0, <1>6, LeakFree DEF ClientInv
<1>9. OwnUntilPublished'
  <2> SUFFICES ASSUME NEW q \in Requests, rq'[q].pc = "publish"
               PROVE  /\ rq'[q].cl \in openc' /\ rq'[q].cl # cached'
                      /\ \A x \in Requests \ {q} : rq'[x].cl # rq'[q].cl
    BY DEF OwnUntilPublished
  <2>1. q # r /\ rq'[q].cl = rq[q].cl /\ rq[q].pc = "publish"
    BY <1>4, <1>5, <1>6
  <2>2. /\ rq[q].cl \in openc /\ rq[q].cl # cached
        /\ \A x \in Requests \ {q} : rq[x].cl # rq[q].cl
    BY <2>1 DEF ClientInv, OwnUntilPublished
  <2>3. rq[q].cl # 0
    BY <1>0, <2>2, Numbers DEF ClientTypeOK
  <2> QED
    BY ZenonT(60), <1>0, <1>4, <1>5, <1>6, <2>1, <2>2, <2>3
<1>10. ASSUME NEW q \in Requests PROVE InOrder(q)'
  <2>1. CASE q = r
    BY <1>4, <1>5, <2>1 DEF InOrder
  <2>2. CASE q # r
    BY <1>6, <2>2 DEF ClientInv, InOrder
  <2> QED
    BY <2>1, <2>2
<1>11. ASSUME NEW q \in Requests \ Refused, ~rq'[q].disturbed PROVE Undisturbed(q)'
  <2>1. CASE q = r
    <3>1. v.pc = "lookup" => cached' = 0
      BY <1>0, <1>4, <1>5, <1>11, <2>1 DEF ClientInv, Undisturbed, Good, works
    <3> QED
      BY <1>4, <1>5, <2>1, <3>1 DEF Undisturbed
  <2>2. CASE q # r
    BY <1>6, <1>11, <2>2 DEF Undisturbed
  <2> QED
    BY <2>1, <2>2
<1> QED
  BY <1>7, <1>8, <1>9, <1>10, <1>11 DEF ClientInv

(* A reboot breaks every open connection and marks every request in         *)
(* progress.                                                                *)
LEMMA RebootStep ==
  ASSUME ClientInv, guestReboots
  PROVE  ClientInv'
<1>0. /\ ClientTypeOK /\ rq \in [Requests -> RequestType] /\ deadc' = openc
      /\ UNCHANGED <<cached, openc, dialled, sticky>> /\ reboots' = reboots + 1
      /\ rq' = [q \in Requests |-> disturb(rq[q])]
  BY DEF ClientInv, guestReboots, ClientTypeOK
<1>1. \A q \in Requests :
         /\ rq'[q] \in RequestType /\ rq'[q].pc = rq[q].pc /\ rq'[q].cl = rq[q].cl
         /\ rq'[q].again = rq[q].again /\ rq'[q].res = rq[q].res
         /\ ~rq'[q].disturbed => rq[q].pc = "accept"
  BY <1>0, Disturb
<1>2. ClientTypeOK'
  <2>1. rq' \in [Requests -> RequestType]
    BY <1>0, <1>1
  <2>2. Numbered /\ \A q \in Requests : rq'[q].cl = rq[q].cl
    BY <1>0, <1>1 DEF ClientTypeOK
  <2>3. Numbered'
    BY <1>0, <2>2 DEF Numbered
  <2> QED
    BY <1>0, <2>1, <2>3 DEF ClientTypeOK
<1>3. NoClientLeaked' /\ OwnUntilPublished'
  BY <1>0, <1>1 DEF ClientInv, NoClientLeaked, OwnUntilPublished
<1>4. \A q \in Requests : InOrder(q)'
  BY <1>1 DEF ClientInv, InOrder
<1>5. \A q \in Requests \ Refused : ~rq'[q].disturbed => Undisturbed(q)'
  BY <1>1 DEF Undisturbed
<1> QED
  BY <1>2, <1>3, <1>4, <1>5 DEF ClientInv

(* Every step of a request and of the guest keeps the invariant.            *)
LEMMA ClientPreserved ==
  ASSUME ClientInv, [ClientNext]_clientVars
  PROVE  ClientInv'
<1>1. ASSUME NEW r \in Requests, request(r) PROVE ClientInv'
  BY <1>1, ForwardStep, LookupStep, DialStep, EndStep, PublishStep, DropStep DEF request
<1>2. CASE guestReboots
  BY <1>2, RebootStep
<1>3. CASE UNCHANGED clientVars
  BY <1>3 DEF clientVars, ClientInv, ClientTypeOK, Numbered, NoClientLeaked, OwnUntilPublished,
              InOrder, Undisturbed, Good
<1> QED
  BY <1>1, <1>2, <1>3 DEF ClientNext

(* The invariant of the shared connection holds throughout.                 *)
LEMMA ClientInductive == ClientSpec => []ClientInv
<1>1. ClientInv /\ [ClientNext]_clientVars => ClientInv'
  BY ClientPreserved
<1> QED
  BY <1>1, ClientInitInv, PTL DEF ClientSpec

(* For any number of requests, dials and reboots, no SSH connection is      *)
(* leaked: one that sshTunnelClient has opened and nobody has closed is the *)
(* shared one, or its request is about to publish or to discard it.         *)
THEOREM NothingDialledLeaks == ClientSpec => []NoClientLeaked
<1>1. ClientInv => NoClientLeaked
  BY DEF ClientInv
<1> QED
  BY <1>1, ClientInductive, PTL

(* sshFallbackDialer's one retry is enough: a request that nothing breaks   *)
(* while it is served is not refused for a connection that died before.     *)
THEOREM OneRetrySuffices == ClientSpec => RecoversFromReboot
<1>1. ASSUME ClientInv, NEW r \in Requests \ Refused, channelFails(r), rq'[r].res = "error"
      PROVE  rq[r].disturbed
  <2>0. /\ rq[r] \in RequestType /\ rq[r].pc = "channel" /\ rq[r].res = "" /\ ~works(r)
        /\ rq[r].disturbed \in BOOLEAN
    BY <1>1, RequestFields DEF ClientInv, InOrder, channelFails
  <2>1. rq[r].again
    <3> SUFFICES ASSUME ~rq[r].again PROVE FALSE
      OBVIOUS
    <3>1. rq'[r] = [rq[r] EXCEPT !.pc = "lookup", !.cl = 0, !.again = TRUE]
      BY <1>1 DEF channelFails, retryOnce
    <3>2. rq'[r].res = ""
      BY <2>0, <3>1 DEF RequestType
    <3> QED
      BY <1>1, <3>2
  <2>2. ~Good(rq[r].cl)
    BY <1>1, <2>0 DEF works, Good
  <2> QED
    BY <1>1, <2>0, <2>1, <2>2 DEF ClientInv, Undisturbed
<1>2. ClientInv /\ [ClientNext]_clientVars =>
        [\A r \in Requests \ Refused :
           channelFails(r) /\ rq'[r].res = "error" => rq[r].disturbed]_clientVars
  BY <1>1
<1> QED
  BY <1>2, ClientInductive, PTL DEF ClientSpec, RecoversFromReboot

-----------------------------------------------------------------------------
(* The listeners for bridge-mode guests.                                    *)

ConfType   == [bridge : BOOLEAN, port : Nat \ {0}]
RecordType == [running : BOOLEAN, boot : Nat, port : Nat]
HoldType   == [v : ProxyVMs \cup {NoProxyVM}, base : RecordType, copy : RecordType]
ProxyPcs   == {"idle", "work", "save", "stopping", "stopsave", "off"}
DaemonType == [pc : ProxyPcs, todo : SUBSET ProxyVMs, prefs : [ProxyVMs -> Nat],
               hold : HoldType, failed : SUBSET ProxyVMs, synced : BOOLEAN,
               left : SUBSET ProxyVMs]

ProxyTypeOK ==
  /\ pconf \in [ProxyVMs -> ConfType] /\ pstate \in [ProxyVMs -> RecordType]
  /\ boots \in Nat /\ proc \in [ProxyVMs -> Nat] /\ starting \in [ProxyVMs -> Nat]
  /\ fwd \in [ProxyVMs -> SUBSET Nat] /\ proxies \in [ProxyVMs -> Nat]
  /\ pd \in DaemonType /\ writer \in HoldType /\ behind \subseteq ProxyVMs
  /\ pd.pc \in {"save", "stopsave"} => pd.hold.v \in ProxyVMs

(* A held copy differs from the record that was loaded in its port only,    *)
(* and no record is of a process that has yet to be started.                *)
HoldFits(h) == /\ h.copy.running = h.base.running /\ h.copy.boot = h.base.boot
               /\ h.base.boot <= boots

Bounded == /\ HoldFits(pd.hold) /\ HoldFits(writer)
           /\ \A v \in ProxyVMs : pstate[v].boot <= boots /\ starting[v] <= boots

saving(v)  == pd.pc \in {"save", "stopsave"} /\ pd.hold.v = v
Settled(v) == starting[v] = 0 /\ v \notin behind

(* While a Start has not saved its record, nobody has one of its process.   *)
Fresh(v) ==
  starting[v] # 0 =>
    /\ pstate[v].boot # starting[v] /\ proc[v] \in {0, starting[v]}
    /\ writer.v = v => writer.base.boot # starting[v]
    /\ saving(v) => pd.hold.base.boot # starting[v]

(* A process forwards a port just when its VM is on user-mode networking,   *)
(* and never the one the daemon listens on.                                 *)
Mode(v) == proc[v] # 0 /\ (starting[v] # 0 \/ v \notin behind) => (pconf[v].bridge <=> fwd[v] = {})
Apart(v) == 0 \notin fwd[v] /\ (proc[v] # 0 => proxies[v] \notin fwd[v])

(* The record of a running VM is its own, and where it forwards a port the  *)
(* daemon has not loaded it.                                                *)
OwnRecord(v) ==
  Settled(v) /\ proc[v] # 0 =>
    /\ isLive(v)
    /\ fwd[v] # {} => /\ pstate[v].port # 0 /\ pstate[v].port # proxies[v]
                      /\ ~moving(v) => pstate[v].port \in fwd[v]
                      /\ saving(v) => pd.hold.base.boot # proc[v]

(* While SetSSHPort is to save the port it moved to, that port is           *)
(* forwarded, and no save of the daemon can bring an older record back.     *)
MovedTo(v) ==
  moving(v) =>
    /\ writer.base.running
    /\ Settled(v) /\ pstate[v].running /\ pstate[v].boot = writer.base.boot =>
         /\ fwd[v] # {} /\ pstate[v].port # 0 /\ pstate[v].port # proxies[v]
         /\ saving(v) => pd.hold.base.boot # writer.base.boot
    /\ Settled(v) /\ pstate[v] = writer.base => writer.copy.port \in fwd[v]

CopyHolds(v) == saving(v) => pd.hold.copy.port = proxies[v]

(* A port on the record of a bridge run is the listener's; after a daemon   *)
(* was killed there may be no listener.                                     *)
Carries(v) == Settled(v) /\ fwd[v] = {} /\ pstate[v].running

PortHolds(v) ==
  Carries(v) /\ ~saving(v) /\ (v \in pd.left => proxies[v] # 0)
    => pstate[v].port \in {0, proxies[v]}

(* Such a port without a listener is work of the pass that is going on, or  *)
(* its listener could not be opened.                                        *)
Owed(v) ==
  /\ pd.pc \in {"work", "save"} \/ (pd.pc = "idle" /\ pd.synced)
  /\ Carries(v) /\ pstate[v].port # 0 /\ proxies[v] = 0
  => v \in pd.failed \/ saving(v) \/ (pd.pc \in {"work", "save"} /\ v \in pd.todo)

Closing(v) == /\ pd.pc \in {"stopping", "stopsave"} /\ proxies[v] # 0 => v \in pd.todo
              /\ pd.pc = "off" => proxies[v] = 0

Kept(v) == /\ Fresh(v) /\ Mode(v) /\ Apart(v) /\ OwnRecord(v) /\ MovedTo(v) /\ CopyHolds(v)
           /\ PortHolds(v) /\ Owed(v) /\ Closing(v)

ProxyInv == ProxyTypeOK /\ Bounded /\ \A v \in ProxyVMs : Kept(v)

-----------------------------------------------------------------------------
(* The least of a non-empty set of ports is one of them.                    *)
LEMMA LeastPort ==
  ASSUME NEW S, S \subseteq Nat, S # {}
  PROVE  (CHOOSE p \in S : \A q \in S : p <= q) \in S
<1>1. PICK x \in S : \A y \in S : ~(<<y, x>> \in OpToRel(<, Nat))
  BY WFMin, NatLessThanWellFounded
<1>2. \A y \in S : x <= y
  <2> SUFFICES ASSUME NEW y \in S PROVE x <= y
    OBVIOUS
  <2>1. x \in Nat /\ y \in Nat
    OBVIOUS
  <2>2. ~(y < x)
    BY Zenon, <1>1, <2>1 DEF OpToRel
  <2> QED
    BY <2>1, <2>2
<1> QED
  BY Zenon, <1>2

(* availablePort hands out a port number, which is 0 only where 0 was       *)
(* preferred.                                                               *)
LEMMA PortIsNumber ==
  ASSUME NEW x \in Nat
  PROVE  availablePort(x) \in Nat /\ (x # 0 => availablePort(x) # 0)
<1> DEFINE free == ProxyPorts \ inUse
<1>1. free \subseteq Nat \ {0}
  BY Zenon, ProxyAssumption
<1>2. free \subseteq Nat
  BY Zenon, <1>1
<1>3. free # {} => (CHOOSE p \in free : \A q \in free : p <= q) \in free
  BY Zenon, <1>2, LeastPort
<1>4. free # {} => (CHOOSE p \in free : \A q \in free : p <= q) \in Nat \ {0}
  BY Zenon, <1>1, <1>3
<1> QED
  BY Zenon, <1>4 DEF availablePort

(* The fields of the daemon and of a held record, with their types.         *)
LEMMA ProxyFields ==
  ASSUME ProxyTypeOK
  PROVE  /\ pd.pc \in ProxyPcs /\ pd.todo \in SUBSET ProxyVMs /\ pd.prefs \in [ProxyVMs -> Nat]
         /\ pd.hold \in HoldType /\ pd.failed \in SUBSET ProxyVMs /\ pd.synced \in BOOLEAN
         /\ pd.left \in SUBSET ProxyVMs
         /\ \A v \in ProxyVMs : /\ pstate[v] \in RecordType /\ pconf[v] \in ConfType
                                /\ proxies[v] \in Nat /\ proc[v] \in Nat /\ starting[v] \in Nat
                                /\ fwd[v] \in SUBSET Nat
  BY DEF ProxyTypeOK, DaemonType

(* The fields of a record that a program holds.                             *)
LEMMA HoldFields ==
  ASSUME NEW h \in HoldType
  PROVE  /\ h.base \in RecordType /\ h.copy \in RecordType /\ h.v \in ProxyVMs \cup {NoProxyVM}
         /\ h.base.boot \in Nat /\ h.copy.boot \in Nat /\ h.copy.port \in Nat
         /\ h.base.running \in BOOLEAN
  BY DEF HoldType, RecordType

(* What a program holds that loaded v's record to give it port p.           *)
LEMMA HoldMade ==
  ASSUME ProxyTypeOK, NEW v \in ProxyVMs, NEW p \in Nat
  PROVE  /\ Hold(v, p) \in HoldType /\ Hold(v, p).v = v /\ Hold(v, p).base = pstate[v]
         /\ Hold(v, p).copy.port = p /\ Hold(v, p).copy.running = pstate[v].running
         /\ Hold(v, p).copy.boot = pstate[v].boot
         /\ (pstate[v].port = p => Hold(v, p).copy = pstate[v])
<1> DEFINE s == [pstate[v] EXCEPT !.port = p]
<1>0. pstate[v] \in RecordType
  BY ProxyFields
<1>1. /\ s \in RecordType /\ s.port = p /\ s.running = pstate[v].running
      /\ s.boot = pstate[v].boot /\ (pstate[v].port = p => s = pstate[v])
  BY <1>0 DEF RecordType
<1>2. Hold(v, p) = [v |-> v, base |-> pstate[v], copy |-> s]
  BY Zenon DEF Hold
<1> HIDE DEF s
<1>3. Hold(v, p) \in HoldType
  <2>1. v \in ProxyVMs \cup {NoProxyVM}
    OBVIOUS
  <2> QED
    BY <1>0, <1>1, <1>2, <2>1 DEF HoldType
<1>4. Hold(v, p).v = v /\ Hold(v, p).base = pstate[v] /\ Hold(v, p).copy = s
  BY <1>2
<1> QED
  BY Zenon, <1>1, <1>3, <1>4

(* A program that holds nothing, and a daemon that has just started.        *)
LEMMA NothingHeld ==
  /\ NoState \in RecordType /\ NoState.port = 0 /\ NoState.boot = 0 /\ NoState.running = FALSE
  /\ NoHold \in HoldType /\ NoHold.v = NoProxyVM /\ NoHold.base = NoState /\ NoHold.copy = NoState
  /\ Daemon0 \in DaemonType /\ Daemon0.pc = "idle" /\ Daemon0.synced = FALSE
  /\ Daemon0.hold = NoHold /\ Daemon0.todo = {} /\ Daemon0.failed = {}
<1>1. NoState \in RecordType /\ NoState.port = 0 /\ NoState.boot = 0 /\ NoState.running = FALSE
  BY DEF NoState, RecordType
<1>2. NoHold \in HoldType
  BY Zenon, <1>1 DEF NoHold, HoldType
<1>3. NoHold.v = NoProxyVM /\ NoHold.base = NoState /\ NoHold.copy = NoState
  BY DEF NoHold
<1>4. NoPrefs \in [ProxyVMs -> Nat]
  BY DEF NoPrefs
<1>5. Daemon0 \in DaemonType
  BY Zenon, <1>2, <1>4 DEF Daemon0, DaemonType, ProxyPcs
<1>6. /\ Daemon0.pc = "idle" /\ Daemon0.synced = FALSE /\ Daemon0.hold = NoHold
      /\ Daemon0.todo = {} /\ Daemon0.failed = {}
  BY DEF Daemon0
<1> QED
  BY Zenon, <1>1, <1>2, <1>3, <1>5, <1>6

(* A step that changes nothing of VM u keeps what holds of it.              *)
LEMMA OtherVM ==
  ASSUME NEW u \in ProxyVMs, Kept(u),
         /\ pstate'[u] = pstate[u] /\ proc'[u] = proc[u] /\ starting'[u] = starting[u]
         /\ fwd'[u] = fwd[u] /\ proxies'[u] = proxies[u]
         /\ pconf'[u].bridge = pconf[u].bridge,
         u \in behind' <=> u \in behind,
         writer'.v = u \/ writer.v = u => writer' = writer,
         saving(u)' <=> saving(u), saving(u) => pd'.hold = pd.hold,
         u \in pd.left => u \in pd'.left,
         Owed(u)', Closing(u)'
  PROVE  Kept(u)'
<1>1. (isLive(u)' <=> isLive(u)) /\ (Settled(u)' <=> Settled(u)) /\ (moving(u)' <=> moving(u))
  BY Zenon DEF isLive, Settled, moving
<1>2. Fresh(u)' /\ Mode(u)' /\ Apart(u)' /\ OwnRecord(u)'
  BY ZenonT(60), <1>1 DEF Kept, Fresh, Mode, Apart, OwnRecord
<1>3. MovedTo(u)'
  BY ZenonT(60), <1>1 DEF Kept, MovedTo, moving
<1>4. CopyHolds(u)' /\ PortHolds(u)'
  BY ZenonT(60), <1>1 DEF Kept, CopyHolds, PortHolds, Carries
<1> QED
  BY Zenon, <1>2, <1>3, <1>4 DEF Kept

(* The invariant holds before a daemon has run.                             *)
LEMMA ProxyInitInv == ProxyInit => ProxyInv
<1> SUFFICES ASSUME ProxyInit PROVE ProxyInv
  OBVIOUS
<1>1. /\ pstate = [v \in ProxyVMs |-> NoState] /\ boots = 0 /\ proc = [v \in ProxyVMs |-> 0]
      /\ starting = [v \in ProxyVMs |-> 0] /\ fwd = [v \in ProxyVMs |-> {}]
      /\ proxies = [v \in ProxyVMs |-> 0] /\ pd = Daemon0 /\ writer = NoHold /\ behind = {}
  BY Zenon DEF ProxyInit
<1>2. pconf \in [ProxyVMs -> ConfType]
  BY ProxyAssumption DEF ProxyInit, ConfType
<1>3. /\ pd.pc = "idle" /\ pd.synced = FALSE /\ pd.hold = NoHold /\ pd \in DaemonType
  BY <1>1, NothingHeld
<1>4. ProxyTypeOK
  BY <1>1, <1>2, <1>3, NothingHeld DEF ProxyTypeOK
<1>5. Bounded
  BY <1>1, <1>3, NothingHeld DEF Bounded, HoldFits
<1>6. ASSUME NEW v \in ProxyVMs PROVE Kept(v)
  <2>1. /\ proc[v] = 0 /\ proxies[v] = 0 /\ pstate[v] = NoState /\ starting[v] = 0
        /\ fwd[v] = {} /\ ~saving(v) /\ ~moving(v)
    BY <1>1, <1>3, NothingHeld DEF saving, moving
  <2>2. pstate[v].running = FALSE /\ pd.pc = "idle" /\ pd.synced = FALSE
    BY <1>3, <2>1, NothingHeld
  <2> QED
    BY Zenon, <2>1, <2>2 DEF Kept, Fresh, Mode, Apart, OwnRecord, MovedTo, CopyHolds, PortHolds,
                             Carries, Owed, Closing
<1> QED
  BY Zenon, <1>4, <1>5, <1>6 DEF ProxyInv

-----------------------------------------------------------------------------
(* What programs other than the daemon do.                                  *)

(* A step of such a program is about one VM.                                *)
LEMMA VMStep ==
  ASSUME ProxyInv, NEW v \in ProxyVMs, ProxyTypeOK', Bounded', UNCHANGED <<pd, proxies>>,
         \A u \in ProxyVMs \ {v} :
           /\ pstate'[u] = pstate[u] /\ proc'[u] = proc[u] /\ starting'[u] = starting[u]
           /\ fwd'[u] = fwd[u] /\ pconf'[u].bridge = pconf[u].bridge
           /\ u \in behind' <=> u \in behind
           /\ (writer'.v # u /\ writer.v # u) \/ writer' = writer,
         Kept(v)'
  PROVE  ProxyInv'
<1>1. ASSUME NEW u \in ProxyVMs \ {v} PROVE Kept(u)'
  <2>1. Kept(u)
    BY Zenon DEF ProxyInv
  <2>2. (Owed(u)' <=> Owed(u)) /\ (Closing(u)' <=> Closing(u)) /\ (saving(u)' <=> saving(u))
    BY Zenon DEF Owed, Carries, Settled, Closing, saving
  <2> QED
    BY Zenon, <2>1, <2>2, OtherVM DEF Kept
<1> QED
  BY Zenon, <1>1 DEF ProxyInv

(* A VM whose record names its process has no Start that is yet to save.    *)
LEMMA LiveIsSaved ==
  ASSUME NEW v \in ProxyVMs, Fresh(v), isLive(v)
  PROVE  starting[v] = 0
  BY Zenon DEF Fresh, isLive

(* What is held is of a VM, or of none.                                     *)
LEMMA HeldOf ==
  NoProxyVM \notin ProxyVMs
  BY ProxyAssumption

(* Start launches a process nobody has a record of.                         *)
LEMMA LaunchStep ==
  ASSUME ProxyInv, NEW v \in ProxyVMs, startVM(v)
  PROVE  ProxyInv'
<1> DEFINE n == boots + 1
           p == availablePort(pconf[v].port)
<1>0. /\ ProxyTypeOK /\ Bounded /\ Kept(v) /\ boots \in Nat /\ pconf[v] \in ConfType
      /\ pd.hold \in HoldType /\ writer \in HoldType /\ pstate[v] \in RecordType
  BY ProxyFields DEF ProxyInv, ProxyTypeOK
<1>1. /\ proc[v] = 0 /\ starting[v] = 0 /\ boots' = n /\ proc' = [proc EXCEPT ![v] = n]
      /\ starting' = [starting EXCEPT ![v] = n] /\ UNCHANGED <<pstate, proxies, pd, writer, behind>>
  BY Zenon DEF startVM
<1>2. \/ pconf' = pconf /\ fwd' = [fwd EXCEPT ![v] = {}] /\ pconf[v].bridge
      \/ /\ pconf' = [pconf EXCEPT ![v].port = p] /\ fwd' = [fwd EXCEPT ![v] = {p}]
         /\ ~pconf[v].bridge /\ p \notin inUse
  BY Zenon DEF startVM
<1>3. p \in Nat \ {0}
  <2>1. pconf[v].port \in Nat /\ pconf[v].port # 0
    BY <1>0 DEF ConfType
  <2> QED
    BY Zenon, <2>1, PortIsNumber
<1>4. n \in Nat /\ n # 0 /\ \A b \in Nat : b <= boots => b # n /\ b <= n
  BY <1>0
<1> HIDE DEF n, p
<1>5. [pconf[v] EXCEPT !.port = p] \in ConfType /\ [pconf[v] EXCEPT !.port = p].bridge = pconf[v].bridge
  BY <1>0, <1>3 DEF ConfType
<1>6. pconf' \in [ProxyVMs -> ConfType] /\ \A u \in ProxyVMs : pconf'[u].bridge = pconf[u].bridge
  BY ZenonT(40), <1>0, <1>2, <1>5 DEF ProxyTypeOK
<1>7. fwd' \in [ProxyVMs -> SUBSET Nat] /\ \A u \in ProxyVMs \ {v} : fwd'[u] = fwd[u]
  BY <1>0, <1>2, <1>3 DEF ProxyTypeOK
<1>8. (pconf[v].bridge /\ fwd'[v] = {}) \/ (~pconf[v].bridge /\ fwd'[v] = {p} /\ p \notin inUse)
  BY <1>0, <1>2 DEF ProxyTypeOK
<1>9. /\ proc' \in [ProxyVMs -> Nat] /\ starting' \in [ProxyVMs -> Nat]
      /\ proc'[v] = n /\ starting'[v] = n
      /\ \A u \in ProxyVMs \ {v} : proc'[u] = proc[u] /\ starting'[u] = starting[u]
  BY <1>0, <1>1, <1>4 DEF ProxyTypeOK
<1>10. ProxyTypeOK'
  BY Zenon, <1>0, <1>1, <1>4, <1>6, <1>7, <1>9 DEF ProxyTypeOK
<1>11. /\ pd.hold.base.boot \in Nat /\ writer.base.boot \in Nat
       /\ \A u \in ProxyVMs : pstate[u].boot \in Nat /\ starting[u] \in Nat
  BY <1>0, ProxyFields, HoldFields DEF RecordType
<1>b. /\ pd.hold.base.boot <= boots /\ writer.base.boot <= boots
      /\ \A u \in ProxyVMs : pstate[u].boot <= boots /\ starting[u] <= boots
  BY Zenon, <1>0 DEF Bounded, HoldFits
<1>12. Bounded'
  <2>1. n <= n
    BY <1>4
  <2>2. \A u \in ProxyVMs : pstate'[u].boot <= n /\ starting'[u] <= n
    BY Zenon, <1>1, <1>4, <1>9, <1>11, <1>b, <2>1
  <2>3. HoldFits(pd.hold)' /\ HoldFits(writer)'
    BY Zenon, <1>0, <1>1, <1>4, <1>11, <1>b DEF Bounded, HoldFits
  <2> QED
    BY Zenon, <1>1, <2>2, <2>3 DEF Bounded
<1>13. Kept(v)'
  <2>1. Fresh(v)'
    BY Zenon, <1>1, <1>4, <1>9, <1>11, <1>b DEF Fresh, saving
  <2>2. Mode(v)'
    BY <1>6, <1>8 DEF Mode
  <2>3. Apart(v)'
    <3>1. proxies[v] \in inUse
      BY Zenon DEF inUse
    <3> QED
      BY <1>1, <1>3, <1>8, <3>1 DEF Apart
  <2>4. ~Settled(v)' /\ ~Carries(v)'
    BY Zenon, <1>4, <1>9 DEF Settled, Carries
  <2>5. (saving(v)' <=> saving(v)) /\ (moving(v)' <=> moving(v))
    BY Zenon, <1>1 DEF saving, moving
  <2>6. OwnRecord(v)' /\ PortHolds(v)' /\ Owed(v)'
    BY Zenon, <2>4 DEF OwnRecord, PortHolds, Owed
  <2>7. MovedTo(v)' /\ CopyHolds(v)' /\ Closing(v)'
    BY Zenon, <1>0, <1>1, <2>4, <2>5 DEF Kept, MovedTo, CopyHolds, Closing
  <2> QED
    BY Zenon, <2>1, <2>2, <2>3, <2>6, <2>7 DEF Kept
<1> QED
  BY Zenon, <1>1, <1>6, <1>7, <1>9, <1>10, <1>12, <1>13, VMStep

(* Start saves the record of its process.                                   *)
LEMMA StartSaveStep ==
  ASSUME ProxyInv, NEW v \in ProxyVMs, startSave(v)
  PROVE  ProxyInv'
<1> DEFINE n == starting[v]
<1>0. /\ ProxyTypeOK /\ Bounded /\ Kept(v) /\ n \in Nat /\ fwd[v] \in SUBSET Nat
  BY ProxyFields DEF ProxyInv
<1>1. PICK p \in IF fwd[v] = {} THEN {0} ELSE fwd[v] :
        pstate' = [pstate EXCEPT ![v] = [running |-> TRUE, boot |-> n, port |-> p]]
  BY Zenon DEF startSave
<1>2. /\ n # 0 /\ starting' = [starting EXCEPT ![v] = 0] /\ behind' = behind \ {v}
      /\ UNCHANGED <<pconf, boots, proc, fwd, proxies, pd, writer>>
  BY Zenon DEF startSave
<1>3. p \in Nat /\ (fwd[v] = {} => p = 0) /\ (fwd[v] # {} => p \in fwd[v])
  BY <1>0, <1>1
<1> DEFINE s == [running |-> TRUE, boot |-> n, port |-> p]
<1> HIDE DEF n
<1>4. s \in RecordType /\ s.running = TRUE /\ s.boot = n /\ s.port = p
  BY <1>0, <1>3 DEF RecordType
<1>5. pstate' = [pstate EXCEPT ![v] = s]
  BY Zenon, <1>1
<1> HIDE DEF s
<1>6. /\ pstate' \in [ProxyVMs -> RecordType] /\ pstate'[v] = s
      /\ \A u \in ProxyVMs \ {v} : pstate'[u] = pstate[u]
  BY <1>0, <1>4, <1>5 DEF ProxyTypeOK
<1>7. /\ starting' \in [ProxyVMs -> Nat] /\ starting'[v] = 0
      /\ \A u \in ProxyVMs \ {v} : starting'[u] = starting[u]
  BY <1>0, <1>2 DEF ProxyTypeOK
<1>8. ProxyTypeOK'
  BY <1>0, <1>2, <1>6, <1>7 DEF ProxyTypeOK
<1>9. Bounded'
  <2>1. n <= boots /\ 0 <= boots
    BY <1>0 DEF Bounded, ProxyTypeOK, n
  <2>2. \A u \in ProxyVMs : pstate'[u].boot <= boots /\ starting'[u] <= boots
    BY Zenon, <1>0, <1>4, <1>6, <1>7, <2>1 DEF Bounded
  <2> QED
    BY Zenon, <1>0, <1>2, <2>2 DEF Bounded, HoldFits
<1>10. Kept(v)'
  <2>1. (saving(v)' <=> saving(v)) /\ (moving(v)' <=> moving(v)) /\ pstate'[v].running = TRUE
    BY Zenon, <1>2, <1>4, <1>6 DEF saving, moving
  <2>2. Fresh(v)' /\ Apart(v)' /\ CopyHolds(v)' /\ Closing(v)'
    BY Zenon, <1>0, <1>2, <1>7, <2>1 DEF Kept, Fresh, Apart, CopyHolds, Closing
  <2>3. Mode(v)'
    BY Zenon, <1>0, <1>2, <1>7 DEF Kept, Mode, n
  <2>4. /\ proc[v] \in {0, n} /\ (writer.v = v => writer.base.boot # n)
        /\ (saving(v) => pd.hold.base.boot # n)
    BY Zenon, <1>0, <1>2 DEF Kept, Fresh, n
  <2>5. OwnRecord(v)'
    <3>1. proc'[v] # 0 => isLive(v)'
      BY Zenon, <1>2, <1>4, <1>6, <2>1, <2>4 DEF isLive
    <3>2. proc'[v] # 0 /\ fwd'[v] # {} =>
            /\ pstate'[v].port # 0 /\ pstate'[v].port # proxies'[v] /\ pstate'[v].port \in fwd'[v]
      BY Zenon, <1>0, <1>2, <1>3, <1>4, <1>6 DEF Kept, Apart
    <3>3. proc'[v] # 0 /\ saving(v)' => pd'.hold.base.boot # proc'[v]
      BY Zenon, <1>2, <2>1, <2>4
    <3> QED
      BY Zenon, <3>1, <3>2, <3>3 DEF OwnRecord
  <2>6. MovedTo(v)'
    <3>1. moving(v)' => writer'.base.running /\ writer'.base.boot # pstate'[v].boot
      BY Zenon, <1>0, <1>2, <1>4, <1>6, <2>1, <2>4 DEF Kept, MovedTo, moving
    <3> QED
      BY Zenon, <3>1 DEF MovedTo
  <2>7. PortHolds(v)' /\ Owed(v)'
    BY Zenon, <1>2, <1>3, <1>4, <1>6 DEF PortHolds, Owed, Carries
  <2> QED
    BY Zenon, <2>2, <2>3, <2>5, <2>6, <2>7 DEF Kept
<1>11. \A u \in ProxyVMs \ {v} : u \in behind' <=> u \in behind
  BY Zenon, <1>2
<1> QED
  BY Zenon, <1>2, <1>6, <1>7, <1>8, <1>9, <1>10, <1>11, VMStep

(* Stop writes the record anew.                                             *)
LEMMA StopVMStep ==
  ASSUME ProxyInv, NEW v \in ProxyVMs, stopVM(v)
  PROVE  ProxyInv'
<1>0. ProxyTypeOK /\ Bounded /\ Kept(v) /\ boots \in Nat
  BY DEF ProxyInv, ProxyTypeOK
<1>1. /\ pstate' = [pstate EXCEPT ![v] = NoState]
      /\ proc' = [proc EXCEPT ![v] = IF isLive(v) THEN 0 ELSE proc[v]]
      /\ behind' = IF proc'[v] = 0 THEN behind \ {v} ELSE behind
      /\ UNCHANGED <<pconf, boots, starting, fwd, proxies, pd, writer>>
  BY Zenon DEF stopVM
<1>2. /\ pstate' \in [ProxyVMs -> RecordType] /\ pstate'[v] = NoState
      /\ \A u \in ProxyVMs \ {v} : pstate'[u] = pstate[u]
  BY <1>0, <1>1, NothingHeld DEF ProxyTypeOK
<1>3. /\ proc' \in [ProxyVMs -> Nat]
      /\ proc'[v] = 0 \/ (proc'[v] = proc[v] /\ ~isLive(v) /\ behind' = behind)
      /\ \A u \in ProxyVMs \ {v} : proc'[u] = proc[u]
  BY <1>0, <1>1 DEF ProxyTypeOK
<1>4. behind' \subseteq behind /\ \A u \in ProxyVMs \ {v} : u \in behind' <=> u \in behind
  BY Zenon, <1>1
<1>5. ProxyTypeOK'
  BY Zenon, <1>0, <1>1, <1>2, <1>3, <1>4 DEF ProxyTypeOK
<1>6. Bounded'
  <2>1. 0 <= boots
    BY <1>0
  <2> QED
    BY Zenon, <1>0, <1>1, <1>2, <2>1, NothingHeld DEF Bounded, HoldFits
<1>7. Kept(v)'
  <2>1. /\ (saving(v)' <=> saving(v)) /\ (moving(v)' <=> moving(v))
        /\ pstate'[v].running = FALSE /\ pstate'[v].boot = 0 /\ ~Carries(v)'
    BY Zenon, <1>1, <1>2, NothingHeld DEF saving, moving, Carries
  <2>2. Fresh(v)' /\ Apart(v)' /\ CopyHolds(v)' /\ Closing(v)'
    BY Zenon, <1>0, <1>1, <1>3, <2>1 DEF Kept, Fresh, Apart, CopyHolds, Closing
  <2>3. Mode(v)'
    BY Zenon, <1>0, <1>1, <1>3 DEF Kept, Mode
  <2>4. OwnRecord(v)'
    BY Zenon, <1>0, <1>1, <1>3 DEF Kept, OwnRecord, Settled
  <2>5. MovedTo(v)'
    BY Zenon, <1>0, <1>1, <2>1 DEF Kept, MovedTo
  <2>6. PortHolds(v)' /\ Owed(v)'
    BY Zenon, <2>1 DEF PortHolds, Owed
  <2> QED
    BY Zenon, <2>2, <2>3, <2>4, <2>5, <2>6 DEF Kept
<1> QED
  BY Zenon, <1>1, <1>2, <1>3, <1>4, <1>5, <1>6, <1>7, VMStep

(* A process that dies leaves its record; the network of a VM that is off   *)
(* may be edited.                                                           *)
LEMMA CrashEditStep ==
  ASSUME ProxyInv, NEW v \in ProxyVMs, crashVM(v) \/ editNIC(v)
  PROVE  ProxyInv'
<1>0. ProxyTypeOK /\ Bounded /\ Kept(v) /\ pconf[v] \in ConfType
  BY ProxyFields DEF ProxyInv
<1>1. /\ proc' = [proc EXCEPT ![v] = 0] \/ (proc' = proc /\ proc[v] = 0)
      /\ pconf' = [pconf EXCEPT ![v].bridge = ~pconf[v].bridge] \/ pconf' = pconf
      /\ UNCHANGED <<pstate, boots, starting, fwd, proxies, pd, writer, behind>>
  BY Zenon DEF crashVM, editNIC, vmVars
<1>2. /\ proc' \in [ProxyVMs -> Nat] /\ proc'[v] = 0
      /\ \A u \in ProxyVMs \ {v} : proc'[u] = proc[u]
  BY <1>0, <1>1 DEF ProxyTypeOK
<1>3. [pconf[v] EXCEPT !.bridge = ~pconf[v].bridge] \in ConfType
  BY ZenonT(40), <1>0 DEF ConfType
<1>4. /\ pconf' \in [ProxyVMs -> ConfType]
      /\ \A u \in ProxyVMs \ {v} : pconf'[u].bridge = pconf[u].bridge
  BY <1>0, <1>1, <1>3 DEF ProxyTypeOK
<1>5. ProxyTypeOK'
  BY Zenon, <1>0, <1>1, <1>2, <1>4 DEF ProxyTypeOK
<1>6. Bounded'
  BY Zenon, <1>0, <1>1 DEF Bounded, HoldFits
<1>7. Kept(v)'
  <2>1. /\ (saving(v)' <=> saving(v)) /\ (moving(v)' <=> moving(v))
        /\ (Settled(v)' <=> Settled(v)) /\ (Carries(v)' <=> Carries(v))
    BY Zenon, <1>1 DEF saving, moving, Settled, Carries
  <2>2. Fresh(v)' /\ Apart(v)' /\ CopyHolds(v)' /\ Closing(v)'
    BY Zenon, <1>0, <1>1, <1>2, <2>1 DEF Kept, Fresh, Apart, CopyHolds, Closing
  <2>3. Mode(v)' /\ OwnRecord(v)'
    BY Zenon, <1>2 DEF Mode, OwnRecord
  <2>4. MovedTo(v)' /\ PortHolds(v)' /\ Owed(v)'
    BY Zenon, <1>0, <1>1, <2>1 DEF Kept, MovedTo, PortHolds, Owed
  <2> QED
    BY Zenon, <2>2, <2>3, <2>4 DEF Kept
<1> QED
  BY Zenon, <1>1, <1>2, <1>4, <1>5, <1>6, <1>7, VMStep

(* A record is loaded, to be saved with the same port.                      *)
LEMMA TouchStep ==
  ASSUME ProxyInv, NEW v \in ProxyVMs, touchLoad(v)
  PROVE  ProxyInv'
<1> DEFINE h == Hold(v, pstate[v].port)
<1>0. ProxyTypeOK /\ Bounded /\ Kept(v) /\ pstate[v].port \in Nat
  BY ProxyFields DEF ProxyInv, RecordType
<1>1. /\ writer.v = NoProxyVM /\ writer' = h
      /\ UNCHANGED <<pconf, pstate, boots, proc, starting, fwd, proxies, pd, behind>>
  BY Zenon DEF touchLoad, vmVars
<1>2. h \in HoldType /\ h.v = v /\ h.base = pstate[v] /\ h.copy = pstate[v]
  BY Zenon, <1>0, HoldMade
<1> HIDE DEF h
<1>3. ProxyTypeOK'
  BY Zenon, <1>0, <1>1, <1>2 DEF ProxyTypeOK
<1>4. Bounded'
  BY Zenon, <1>0, <1>1, <1>2 DEF Bounded, HoldFits
<1>5. Kept(v)'
  <2>1. /\ (saving(v)' <=> saving(v)) /\ ~moving(v) /\ ~moving(v)' /\ (isLive(v)' <=> isLive(v))
        /\ (Settled(v)' <=> Settled(v)) /\ (Carries(v)' <=> Carries(v))
    BY Zenon, <1>1, <1>2, HeldOf DEF saving, moving, Settled, Carries, isLive
  <2>2. Fresh(v)' /\ Mode(v)' /\ Apart(v)' /\ CopyHolds(v)' /\ Closing(v)'
    BY Zenon, <1>0, <1>1, <1>2, <2>1 DEF Kept, Fresh, Mode, Apart, CopyHolds, Closing
  <2>3. OwnRecord(v)' /\ MovedTo(v)' /\ PortHolds(v)' /\ Owed(v)'
    BY Zenon, <1>0, <1>1, <2>1 DEF Kept, OwnRecord, MovedTo, PortHolds, Owed
  <2> QED
    BY Zenon, <2>2, <2>3 DEF Kept
<1>6. \A u \in ProxyVMs \ {v} : writer'.v # u /\ writer.v # u
  BY Zenon, <1>1, <1>2, HeldOf
<1> QED
  BY Zenon, <1>1, <1>3, <1>4, <1>5, <1>6, VMStep

(* SetSSHPort saves the port and may move the forward.                      *)
LEMMA SetPortStep ==
  ASSUME ProxyInv, NEW v \in ProxyVMs, NEW p \in ProxyPorts, SetSSHPort(v, p)
  PROVE  ProxyInv'
<1> DEFINE rest == IF pstate[v].port = p THEN fwd[v] ELSE fwd[v] \ {pstate[v].port}
           free == p \notin (inUse \ fwd[v]) \cup rest
<1>0. /\ ProxyTypeOK /\ Bounded /\ Kept(v) /\ pconf[v] \in ConfType /\ fwd[v] \in SUBSET Nat
      /\ p \in Nat /\ p # 0
  BY ProxyFields, ProxyAssumption DEF ProxyInv
<1>1. /\ writer.v = NoProxyVM /\ pconf' = [pconf EXCEPT ![v].port = p]
      /\ UNCHANGED <<pstate, boots, proc, starting, proxies, pd>>
  BY Zenon DEF SetSSHPort, vmVars
<1>2. \/ UNCHANGED <<fwd, writer, behind>>
      \/ /\ isLive(v) /\ ~pconf[v].bridge /\ free /\ fwd' = [fwd EXCEPT ![v] = rest \cup {p}]
         /\ writer' = Hold(v, p) /\ behind' = behind
      \/ /\ isLive(v) /\ fwd' = [fwd EXCEPT ![v] = rest]
         /\ writer' = writer /\ rest = fwd[v] /\ behind' = behind
      \/ /\ isLive(v) /\ fwd' = [fwd EXCEPT ![v] = rest]
         /\ writer' = writer /\ behind' = behind \cup {v}
  BY Zenon DEF SetSSHPort
<1>3. [pconf[v] EXCEPT !.port = p] \in ConfType /\ [pconf[v] EXCEPT !.port = p].bridge = pconf[v].bridge
  BY <1>0 DEF ConfType
<1>4. pconf' \in [ProxyVMs -> ConfType] /\ \A u \in ProxyVMs : pconf'[u].bridge = pconf[u].bridge
  BY <1>0, <1>1, <1>3 DEF ProxyTypeOK
<1>5. rest \subseteq fwd[v] /\ rest \in SUBSET Nat /\ rest \cup {p} \in SUBSET Nat
  BY <1>0
<1>6. free => p \notin inUse \ fwd[v]
  BY Zenon
<1>7. pstate[v].port = p \/ rest = fwd[v] \ {pstate[v].port}
  BY Zenon
<1> HIDE DEF rest, free
<1>8. fwd' \in [ProxyVMs -> SUBSET Nat] /\ \A u \in ProxyVMs \ {v} : fwd'[u] = fwd[u]
  BY ZenonT(40), <1>0, <1>2, <1>5 DEF ProxyTypeOK
<1>9. \/ UNCHANGED <<writer, behind>> /\ fwd'[v] = fwd[v]
      \/ /\ isLive(v) /\ ~pconf[v].bridge /\ free /\ fwd'[v] = rest \cup {p}
         /\ writer' = Hold(v, p) /\ behind' = behind
      \/ /\ isLive(v) /\ fwd'[v] \subseteq fwd[v] /\ writer' = writer /\ behind' = behind \cup {v}
  BY ZenonT(40), <1>0, <1>2, <1>5 DEF ProxyTypeOK
<1>10. /\ Hold(v, p) \in HoldType /\ Hold(v, p).v = v /\ Hold(v, p).base = pstate[v]
       /\ Hold(v, p).copy.port = p /\ Hold(v, p).copy.running = pstate[v].running
       /\ Hold(v, p).copy.boot = pstate[v].boot
  BY Zenon, <1>0, HoldMade
<1>11. /\ behind' \subseteq ProxyVMs /\ behind \subseteq behind'
       /\ \A u \in ProxyVMs \ {v} : u \in behind' <=> u \in behind
  BY Zenon, <1>0, <1>9 DEF ProxyTypeOK
<1>12. ProxyTypeOK'
  <2>1. writer' \in HoldType
    BY Zenon, <1>0, <1>9, <1>10 DEF ProxyTypeOK
  <2> QED
    BY Zenon, <1>0, <1>1, <1>4, <1>8, <1>11, <2>1 DEF ProxyTypeOK
<1>13. Bounded'
  <2>1. HoldFits(writer)'
    BY Zenon, <1>0, <1>1, <1>9, <1>10 DEF Bounded, HoldFits
  <2> QED
    BY Zenon, <1>0, <1>1, <2>1 DEF Bounded, HoldFits
<1>14. Kept(v)'
  <2>1. (saving(v)' <=> saving(v)) /\ ~moving(v) /\ (isLive(v)' <=> isLive(v))
    BY Zenon, <1>1, HeldOf DEF saving, moving, isLive
  <2>2. CopyHolds(v)' /\ Closing(v)'
    BY Zenon, <1>0, <1>1, <2>1 DEF Kept, CopyHolds, Closing
  <2>3. CASE UNCHANGED <<writer, behind>> /\ fwd'[v] = fwd[v]
    <3>1. /\ ~moving(v)' /\ (Settled(v)' <=> Settled(v)) /\ (Carries(v)' <=> Carries(v))
      BY Zenon, <1>1, <2>1, <2>3 DEF moving, Settled, Carries
    <3>2. Fresh(v)' /\ Mode(v)' /\ Apart(v)'
      BY Zenon, <1>0, <1>1, <1>4, <2>1, <2>3 DEF Kept, Fresh, Mode, Apart
    <3>3. OwnRecord(v)' /\ MovedTo(v)' /\ PortHolds(v)' /\ Owed(v)'
      BY Zenon, <1>0, <1>1, <2>1, <2>3, <3>1 DEF Kept, OwnRecord, MovedTo, PortHolds, Owed
    <3> QED
      BY Zenon, <2>2, <3>2, <3>3 DEF Kept
  <2>4. CASE /\ isLive(v) /\ ~pconf[v].bridge /\ free /\ fwd'[v] = rest \cup {p}
             /\ writer' = Hold(v, p) /\ behind' = behind
    <3>1. starting[v] = 0 /\ starting'[v] = 0 /\ proc[v] # 0 /\ pstate[v].running
          /\ pstate[v].boot = proc[v] /\ fwd'[v] # {}
      BY Zenon, <1>0, <1>1, <2>4, LiveIsSaved DEF Kept, isLive
    <3>2. Settled(v) => fwd[v] # {}
      BY Zenon, <1>0, <2>4, <3>1 DEF Kept, Mode, Settled
    <3>3. p # proxies[v]
      <4>1. proxies[v] \in inUse /\ proxies[v] \notin fwd[v]
        BY Zenon, <1>0, <3>1 DEF Kept, Apart, inUse
      <4> QED
        BY Zenon, <1>6, <2>4, <4>1
    <3>4. Fresh(v)' /\ Mode(v)'
      BY Zenon, <1>4, <2>4, <3>1 DEF Fresh, Mode
    <3>5. Apart(v)'
      BY Zenon, <1>0, <1>1, <1>5, <2>4, <3>3 DEF Kept, Apart
    <3>6. ~moving(v)' => pstate[v].port = p
      BY Zenon, <1>10, <2>4 DEF moving
    <3>7. Settled(v)' <=> Settled(v)
      BY Zenon, <1>1, <2>4 DEF Settled
    <3>8. OwnRecord(v)'
      BY Zenon, <1>0, <1>1, <2>1, <2>4, <3>1, <3>2, <3>6, <3>7 DEF Kept, OwnRecord
    <3>9. MovedTo(v)'
      <4>1. Settled(v) => /\ pstate[v].port # 0 /\ pstate[v].port # proxies[v]
                          /\ saving(v) => pd.hold.base.boot # proc[v]
        BY Zenon, <1>0, <3>1, <3>2 DEF Kept, OwnRecord
      <4> QED
        BY Zenon, <1>1, <1>10, <2>1, <2>4, <3>1, <3>7, <4>1 DEF MovedTo
    <3>10. PortHolds(v)' /\ Owed(v)'
      BY Zenon, <3>1 DEF PortHolds, Owed, Carries
    <3> QED
      BY Zenon, <2>2, <3>4, <3>5, <3>8, <3>9, <3>10 DEF Kept
  <2>5. CASE isLive(v) /\ fwd'[v] \subseteq fwd[v] /\ writer' = writer /\ behind' = behind \cup {v}
    <3>1. starting[v] = 0 /\ starting'[v] = 0
      BY Zenon, <1>0, <1>1, <2>5, LiveIsSaved DEF Kept
    <3>2. ~Settled(v)' /\ ~moving(v)' /\ v \in behind' /\ ~Carries(v)'
      BY Zenon, <2>1, <2>5 DEF Settled, moving, Carries
    <3>3. Fresh(v)' /\ Mode(v)' /\ Apart(v)'
      BY Zenon, <1>0, <1>1, <2>5, <3>1, <3>2 DEF Kept, Fresh, Mode, Apart
    <3>4. OwnRecord(v)' /\ MovedTo(v)' /\ PortHolds(v)' /\ Owed(v)'
      BY Zenon, <3>2 DEF OwnRecord, MovedTo, PortHolds, Owed
    <3> QED
      BY Zenon, <2>2, <3>3, <3>4 DEF Kept
  <2> QED
    BY Zenon, <1>9, <2>3, <2>4, <2>5
<1>15. \A u \in ProxyVMs \ {v} : writer'.v # u /\ writer.v # u
  BY Zenon, <1>1, <1>9, <1>10, HeldOf
<1> QED
  BY Zenon, <1>1, <1>4, <1>8, <1>11, <1>12, <1>13, <1>14, <1>15, VMStep

(* A save either puts the held copy in the place of the very record that    *)
(* was loaded, or leaves the VM behind.                                     *)
LEMMA SaveFields ==
  ASSUME ProxyTypeOK, NEW h \in HoldType, h.v \in ProxyVMs, saveState(h)
  PROVE  /\ pstate' \in [ProxyVMs -> RecordType] /\ behind' \in SUBSET ProxyVMs
         /\ behind \subseteq behind'
         /\ \A u \in ProxyVMs \ {h.v} : pstate'[u] = pstate[u] /\ (u \in behind' <=> u \in behind)
         /\ \/ pstate'[h.v] = h.copy /\ pstate[h.v] = h.base /\ behind' = behind
            \/ pstate'[h.v] \in {h.copy, pstate[h.v]} /\ h.v \in behind'
<1>1. \/ /\ pstate' = [pstate EXCEPT ![h.v] = h.copy]
         /\ behind' = IF pstate[h.v] = h.base THEN behind ELSE behind \cup {h.v}
      \/ behind' = behind \cup {h.v} /\ pstate' = pstate
  BY Zenon DEF saveState
<1>2. h.copy \in RecordType
  BY HoldFields
<1>3. pstate' \in [ProxyVMs -> RecordType] /\ \A u \in ProxyVMs \ {h.v} : pstate'[u] = pstate[u]
  BY <1>1, <1>2 DEF ProxyTypeOK
<1>4. /\ behind' \in SUBSET ProxyVMs /\ behind \subseteq behind'
      /\ \A u \in ProxyVMs \ {h.v} : u \in behind' <=> u \in behind
  BY <1>1 DEF ProxyTypeOK
<1>5. \/ pstate'[h.v] = h.copy /\ pstate[h.v] = h.base /\ behind' = behind
      \/ pstate'[h.v] = h.copy /\ h.v \in behind'
      \/ pstate'[h.v] = pstate[h.v] /\ h.v \in behind'
  BY <1>1 DEF ProxyTypeOK
<1> QED
  BY Zenon, <1>3, <1>4, <1>5

(* Another program saves the record it holds.                               *)
LEMMA WriterSaveStep ==
  ASSUME ProxyInv, NEW v \in ProxyVMs, writer.v = v, writerSave
  PROVE  ProxyInv'
<1>0. /\ ProxyTypeOK /\ Bounded /\ writer \in HoldType /\ v \in ProxyVMs
  BY DEF ProxyInv, ProxyTypeOK
<1>k. Kept(v)
  BY Zenon, <1>0 DEF ProxyInv
<1>1. /\ saveState(writer) /\ writer' = NoHold
      /\ UNCHANGED <<pconf, boots, proc, starting, fwd, proxies, pd>>
  BY Zenon DEF writerSave, vmVars
<1>2. /\ pstate' \in [ProxyVMs -> RecordType] /\ behind' \in SUBSET ProxyVMs
      /\ behind \subseteq behind'
      /\ \A u \in ProxyVMs \ {v} : pstate'[u] = pstate[u] /\ (u \in behind' <=> u \in behind)
  BY Zenon, <1>0, <1>1, SaveFields
<1>3. \/ pstate'[v] = writer.copy /\ pstate[v] = writer.base /\ behind' = behind
      \/ pstate'[v] \in {writer.copy, pstate[v]} /\ v \in behind'
  BY Zenon, <1>0, <1>1, SaveFields
<1>4. /\ writer.copy.running = writer.base.running /\ writer.copy.boot = writer.base.boot
      /\ writer.base.boot <= boots
  BY Zenon, <1>0 DEF Bounded, HoldFits
<1>5. writer' \in HoldType /\ writer'.v = NoProxyVM /\ \A u \in ProxyVMs : ~moving(u)'
  BY Zenon, <1>1, NothingHeld, HeldOf DEF moving
<1>6. ProxyTypeOK'
  BY Zenon, <1>0, <1>1, <1>2, <1>5 DEF ProxyTypeOK
<1>7. Bounded'
  <2>1. 0 <= boots
    BY <1>0 DEF ProxyTypeOK
  <2>2. HoldFits(writer)'
    BY Zenon, <1>1, <2>1, NothingHeld DEF HoldFits
  <2>3. \A u \in ProxyVMs : pstate'[u].boot <= boots
    BY Zenon, <1>0, <1>2, <1>3, <1>4 DEF Bounded
  <2> QED
    BY Zenon, <1>0, <1>1, <2>2, <2>3 DEF Bounded, HoldFits
<1>8. Kept(v)'
  <2>1. saving(v)' <=> saving(v)
    BY Zenon, <1>1 DEF saving
  <2>2. Fresh(v)'
    <3>1. starting[v] # 0 => pstate[v].boot # starting[v] /\ writer.base.boot # starting[v]
      BY Zenon, <1>k DEF Kept, Fresh
    <3>2. starting[v] # 0 => pstate'[v].boot # starting[v]
      BY Zenon, <1>3, <1>4, <3>1
    <3> QED
      BY Zenon, <1>k, <1>0, <1>1, <1>5, <2>1, <3>2, HeldOf DEF Kept, Fresh
  <2>3. Mode(v)' /\ Apart(v)' /\ CopyHolds(v)' /\ Closing(v)' /\ MovedTo(v)'
    BY Zenon, <1>k, <1>0, <1>1, <1>2, <1>5, <2>1
       DEF Kept, Mode, Apart, CopyHolds, Closing, MovedTo
  <2>4. CASE v \in behind'
    <3>1. ~Settled(v)' /\ ~Carries(v)'
      BY Zenon, <2>4 DEF Settled, Carries
    <3>2. OwnRecord(v)' /\ PortHolds(v)' /\ Owed(v)'
      BY Zenon, <3>1 DEF OwnRecord, PortHolds, Owed
    <3> QED
      BY Zenon, <2>2, <2>3, <3>2 DEF Kept
  <2>5. CASE pstate'[v] = writer.copy /\ pstate[v] = writer.base /\ behind' = behind
    <3>1. /\ pstate'[v].running = pstate[v].running /\ pstate'[v].boot = pstate[v].boot
          /\ (Settled(v)' <=> Settled(v)) /\ (Carries(v)' <=> Carries(v))
          /\ (isLive(v)' <=> isLive(v))
      BY Zenon, <1>1, <1>4, <2>5 DEF Settled, Carries, isLive
    <3>2. Settled(v) => (pstate'[v] = pstate[v] /\ ~moving(v)) \/ pstate'[v].port \in fwd[v]
      BY Zenon, <1>k, <2>5 DEF Kept, MovedTo, moving
    <3>3. OwnRecord(v)'
      <4>1. Settled(v) /\ proc[v] # 0 /\ fwd[v] # {} =>
              /\ pstate'[v].port \in fwd[v]
              /\ saving(v) => pd.hold.base.boot # proc[v]
        BY Zenon, <1>k, <3>2 DEF Kept, OwnRecord
      <4>2. Settled(v) /\ proc[v] # 0 /\ fwd[v] # {} => pstate'[v].port # 0 /\ pstate'[v].port # proxies[v]
        BY Zenon, <1>k, <4>1 DEF Kept, Apart
      <4> QED
        BY Zenon, <1>k, <1>1, <2>1, <3>1, <4>1, <4>2 DEF Kept, OwnRecord
    <3>4. Carries(v) => pstate'[v] = pstate[v]
      BY Zenon, <3>2 DEF Carries
    <3>5. PortHolds(v)' /\ Owed(v)'
      BY Zenon, <1>k, <1>1, <2>1, <3>1, <3>4 DEF Kept, PortHolds, Owed
    <3> QED
      BY Zenon, <2>2, <2>3, <3>3, <3>5 DEF Kept
  <2> QED
    BY Zenon, <1>3, <2>4, <2>5
<1>9. \A u \in ProxyVMs \ {v} : writer'.v # u /\ writer.v # u
  BY Zenon, <1>5, HeldOf
<1> QED
  BY Zenon, <1>1, <1>2, <1>6, <1>7, <1>8, <1>9, VMStep

-----------------------------------------------------------------------------
(* A pass over the VMs.                                                     *)

(* The rest of the world, as a step of the daemon leaves it.                *)
Outside == <<pconf, boots, proc, starting, fwd, writer>>

(* A step of the daemon that touches no record, no listener and saves       *)
(* nothing.                                                                 *)
LEMMA DaemonOnly ==
  ASSUME ProxyInv, pd' \in DaemonType, UNCHANGED <<Outside, pstate, proxies, behind>>,
         pd'.pc \notin {"save", "stopsave"}, pd.pc \notin {"save", "stopsave"},
         HoldFits(pd.hold)',
         \A u \in ProxyVMs : PortHolds(u)' /\ Owed(u)' /\ Closing(u)'
  PROVE  ProxyInv'
<1>0. /\ UNCHANGED <<pconf, boots, proc, starting, fwd, writer, pstate, proxies, behind>>
      /\ ProxyTypeOK /\ Bounded
  BY Zenon DEF Outside, ProxyInv
<1>1. ProxyTypeOK'
  BY Zenon, <1>0 DEF ProxyTypeOK
<1>2. Bounded'
  BY Zenon, <1>0 DEF Bounded, HoldFits
<1>3. ASSUME NEW u \in ProxyVMs PROVE Kept(u)'
  <2>1. Kept(u) /\ ~saving(u)' /\ ~saving(u) /\ (moving(u)' <=> moving(u))
        /\ (Settled(u)' <=> Settled(u)) /\ (isLive(u)' <=> isLive(u))
    BY Zenon, <1>0 DEF ProxyInv, saving, moving, Settled, isLive
  <2>2. Fresh(u)' /\ Mode(u)' /\ Apart(u)' /\ CopyHolds(u)'
    BY Zenon, <1>0, <2>1 DEF Kept, Fresh, Mode, Apart, CopyHolds
  <2>3. OwnRecord(u)' /\ MovedTo(u)'
    BY Zenon, <1>0, <2>1 DEF Kept, OwnRecord, MovedTo
  <2> QED
    BY Zenon, <2>2, <2>3 DEF Kept
<1> QED
  BY Zenon, <1>1, <1>2, <1>3 DEF ProxyInv

(* A pass begins with the proxies to close and those to open; the records   *)
(* of processes that are gone are rewritten.                                *)
LEMMA ListStep ==
  ASSUME ProxyInv, reconcileList
  PROVE  ProxyInv'
<1> DEFINE T == work({v \in ProxyVMs : isWanted(v)})
           F == [v \in ProxyVMs |-> pconf[v].port]
<1>0. /\ ProxyTypeOK /\ Bounded /\ pd \in DaemonType /\ pd.pc = "idle" /\ boots \in Nat
      /\ UNCHANGED <<pconf, boots, proc, starting, fwd, proxies, writer, behind>>
  BY DEF ProxyInv, ProxyTypeOK, reconcileList, vmVars
<1>1. pd' = [pd EXCEPT !.pc = "work", !.todo = T, !.failed = {}, !.prefs = F]
  BY Zenon DEF reconcileList
<1>2. T \in SUBSET ProxyVMs /\ \A u \in ProxyVMs : isWanted(u) /\ proxies[u] = 0 => u \in T
  BY Zenon DEF work
<1>3. F \in [ProxyVMs -> Nat] /\ \A u \in ProxyVMs : pconf[u].port > 0
  BY <1>0 DEF ProxyTypeOK, ConfType
<1>p. pstate' = [v \in ProxyVMs |-> IF pstate[v].running /\ ~isLive(v) THEN NoState ELSE pstate[v]]
  BY Zenon DEF reconcileList
<1> HIDE DEF T, F
<1>4. pd' \in DaemonType
  BY Zenon, <1>0, <1>1, <1>2, <1>3 DEF DaemonType, ProxyPcs
<1>5. pd'.pc = "work" /\ pd'.todo = T /\ pd'.left = pd.left /\ pd'.hold = pd.hold
  BY <1>0, <1>1 DEF DaemonType
<1>6. /\ pstate' \in [ProxyVMs -> RecordType]
      /\ \A u \in ProxyVMs : \/ pstate'[u] = NoState
                             \/ pstate'[u] = pstate[u] /\ (pstate[u].running => isLive(u))
      /\ \A u \in ProxyVMs : isLive(u) => pstate'[u] = pstate[u]
  BY <1>0, <1>p, NothingHeld DEF ProxyTypeOK
<1>7. ProxyTypeOK'
  BY <1>0, <1>4, <1>5, <1>6 DEF ProxyTypeOK
<1>8. Bounded'
  <2>1. 0 <= boots
    BY <1>0
  <2>2. \A u \in ProxyVMs : pstate'[u].boot <= boots
    BY Zenon, <1>0, <1>6, <2>1, NothingHeld DEF Bounded
  <2> QED
    BY Zenon, <1>0, <1>5, <2>2 DEF Bounded, HoldFits
<1>9. ASSUME NEW u \in ProxyVMs PROVE Kept(u)'
  <2>1. Kept(u) /\ ~saving(u)' /\ ~saving(u) /\ (moving(u)' <=> moving(u))
        /\ (Settled(u)' <=> Settled(u))
    BY <1>0, <1>5 DEF ProxyInv, saving, moving, Settled
  <2>2. CASE pstate'[u] = NoState /\ ~isLive(u)
    <3>1. pstate'[u].running = FALSE /\ pstate'[u].boot = 0
      BY Zenon, <2>2, NothingHeld
    <3>2. Fresh(u)' /\ Mode(u)' /\ Apart(u)' /\ CopyHolds(u)'
      BY Zenon, <1>0, <2>1, <3>1 DEF Kept, Fresh, Mode, Apart, CopyHolds
    <3>3. OwnRecord(u)' /\ MovedTo(u)'
      BY Zenon, <1>0, <2>1, <2>2, <3>1 DEF Kept, OwnRecord, MovedTo
    <3>4. PortHolds(u)' /\ Owed(u)' /\ Closing(u)'
      BY Zenon, <1>5, <3>1 DEF PortHolds, Owed, Carries, Closing
    <3> QED
      BY Zenon, <3>2, <3>3, <3>4 DEF Kept
  <2>3. CASE pstate'[u] = pstate[u] /\ (pstate[u].running => isLive(u))
    <3>1. (isLive(u)' <=> isLive(u)) /\ (Carries(u)' <=> Carries(u))
      BY Zenon, <1>0, <2>1, <2>3 DEF isLive, Carries
    <3>2. Fresh(u)' /\ Mode(u)' /\ Apart(u)' /\ CopyHolds(u)'
      BY Zenon, <1>0, <2>1, <2>3 DEF Kept, Fresh, Mode, Apart, CopyHolds
    <3>3. OwnRecord(u)' /\ MovedTo(u)' /\ PortHolds(u)'
      BY Zenon, <1>0, <1>5, <2>1, <2>3, <3>1 DEF Kept, OwnRecord, MovedTo, PortHolds
    <3>4. Carries(u) => isWanted(u)
      BY Zenon, <1>3, <2>1, <2>3 DEF Kept, Mode, Carries, Settled, isWanted, isLive
    <3>5. Owed(u)' /\ Closing(u)'
      BY Zenon, <1>0, <1>2, <1>5, <2>1, <3>1, <3>4 DEF Owed, Closing
    <3> QED
      BY Zenon, <3>2, <3>3, <3>5 DEF Kept
  <2> QED
    BY Zenon, <1>6, <2>2, <2>3
<1> QED
  BY Zenon, <1>7, <1>8, <1>9 DEF ProxyInv

(* A step of the pass that treats VM v: it may close or open v's listener,  *)
(* and then has v's record saved or not.                                    *)
LEMMA TreatStep ==
  ASSUME ProxyInv, NEW v \in ProxyVMs, NEW p \in Nat, pd' \in DaemonType,
         proxies' = [proxies EXCEPT ![v] = p], UNCHANGED <<Outside, pstate>>,
         behind \subseteq behind', behind' \subseteq behind \cup {v},
         pd.pc \in {"work", "stopping"}, pd'.todo = pd.todo \ {v},
         pd'.left = pd.left, pd'.synced = pd.synced, pd.failed \subseteq pd'.failed,
         HoldFits(pd.hold)',
         \/ pd'.pc = pd.pc
         \/ pd'.pc = (IF pd.pc = "work" THEN "save" ELSE "stopsave") /\ pd'.hold.v = v,
         Kept(v)'
  PROVE  ProxyInv'
<1>0. /\ UNCHANGED <<pconf, boots, proc, starting, fwd, writer, pstate>> /\ ProxyTypeOK /\ Bounded
  BY Zenon DEF Outside, ProxyInv
<1>1. /\ proxies' \in [ProxyVMs -> Nat] /\ \A u \in ProxyVMs \ {v} : proxies'[u] = proxies[u]
  BY <1>0 DEF ProxyTypeOK
<1>2. /\ behind' \subseteq ProxyVMs /\ \A u \in ProxyVMs \ {v} : u \in behind' <=> u \in behind
  BY <1>0 DEF ProxyTypeOK
<1>3. ProxyTypeOK'
  BY Zenon, <1>0, <1>1, <1>2 DEF ProxyTypeOK
<1>4. Bounded'
  BY Zenon, <1>0 DEF Bounded, HoldFits
<1>5. ASSUME NEW u \in ProxyVMs \ {v} PROVE Kept(u)'
  <2>1. Kept(u) /\ ~saving(u) /\ ~saving(u)'
    BY Zenon DEF ProxyInv, saving
  <2>2. Carries(u)' <=> Carries(u)
    BY Zenon, <1>0, <1>2 DEF Carries, Settled
  <2>3. Owed(u)'
    <3>1. pd'.pc \in {"work", "save"} \/ (pd'.pc = "idle" /\ pd'.synced) => pd.pc = "work"
      OBVIOUS
    <3>2. pd'.pc # "idle" /\ (u \in pd.todo => u \in pd'.todo) /\ (u \in pd.failed => u \in pd'.failed)
      OBVIOUS
    <3> QED
      BY Zenon, <1>0, <1>1, <2>1, <2>2, <3>1, <3>2 DEF Kept, Owed
  <2>4. Closing(u)'
    <3>1. /\ pd'.pc # "off" /\ (u \in pd.todo => u \in pd'.todo)
          /\ (pd'.pc \in {"stopping", "stopsave"} => pd.pc \in {"stopping", "stopsave"})
      OBVIOUS
    <3> QED
      BY Zenon, <1>1, <2>1, <3>1 DEF Kept, Closing
  <2> QED
    BY Zenon, <1>0, <1>1, <1>2, <2>1, <2>3, <2>4, OtherVM
<1> QED
  BY Zenon, <1>3, <1>4, <1>5 DEF ProxyInv

(* The daemon when it has treated v: nothing is to be saved, the listener   *)
(* could not be opened, or the record is to be saved.                       *)
Treated(v)       == [pd EXCEPT !.todo = @ \ {v}]
NotOpened(v)     == [Treated(v) EXCEPT !.failed = @ \cup {v}]
ToSave(v, pc, h) == [Treated(v) EXCEPT !.pc = pc, !.hold = h]

TreatedFields(v, x) ==
  /\ x \in DaemonType /\ x.todo = pd.todo \ {v} /\ x.left = pd.left
  /\ x.synced = pd.synced /\ pd.failed \subseteq x.failed

(* What the daemon holds once a VM is treated, not opened, or waits for     *)
(* its record to be saved.                                                  *)
LEMMA TreatFields ==
  ASSUME ProxyTypeOK, NEW v \in ProxyVMs, NEW h \in HoldType,
         NEW pc \in {"save", "stopsave"}
  PROVE  /\ TreatedFields(v, Treated(v)) /\ Treated(v).pc = pd.pc /\ Treated(v).hold = pd.hold
         /\ TreatedFields(v, NotOpened(v)) /\ NotOpened(v).pc = pd.pc
         /\ NotOpened(v).hold = pd.hold /\ v \in NotOpened(v).failed
         /\ TreatedFields(v, ToSave(v, pc, h)) /\ ToSave(v, pc, h).pc = pc
         /\ ToSave(v, pc, h).hold = h
<1> DEFINE a == Treated(v)
           b == NotOpened(v)
           c == ToSave(v, pc, h)
<1>0. pd \in DaemonType /\ pd.todo \ {v} \in SUBSET ProxyVMs /\ pd.failed \in SUBSET ProxyVMs
  BY ProxyFields DEF ProxyTypeOK
<1>1. a \in DaemonType
  BY Zenon, <1>0 DEF DaemonType, Treated
<1>2. /\ a.pc = pd.pc /\ a.todo = pd.todo \ {v} /\ a.failed = pd.failed
      /\ a.left = pd.left /\ a.synced = pd.synced /\ a.hold = pd.hold
  BY SMTT(30), <1>0 DEF DaemonType, Treated
<1>3. a.failed \cup {v} \in SUBSET ProxyVMs /\ pc \in ProxyPcs
  BY <1>0, <1>2 DEF ProxyPcs
<1>4. b \in DaemonType /\ c \in DaemonType
  BY Zenon, <1>1, <1>3 DEF DaemonType, NotOpened, ToSave
<1>5. /\ b.pc = a.pc /\ b.todo = a.todo /\ b.failed = a.failed \cup {v}
      /\ b.left = a.left /\ b.synced = a.synced /\ b.hold = a.hold
  BY <1>1 DEF DaemonType, NotOpened
<1>6. /\ c.pc = pc /\ c.todo = a.todo /\ c.failed = a.failed /\ c.hold = h
      /\ c.left = a.left /\ c.synced = a.synced
  BY <1>1 DEF DaemonType, ToSave
<1> HIDE DEF a, b, c
<1>7. TreatedFields(v, a) /\ TreatedFields(v, c)
  BY Zenon, <1>1, <1>2, <1>4, <1>6 DEF TreatedFields
<1>8. TreatedFields(v, b) /\ v \in b.failed
  BY Zenon, <1>2, <1>4, <1>5 DEF TreatedFields
<1> QED
  BY Zenon, <1>2, <1>5, <1>6, <1>7, <1>8 DEF a, b, c

(* A proxy is closed and the record without its port waits to be saved.     *)
LEMMA CloseStep ==
  ASSUME ProxyInv, NEW v \in ProxyVMs, NEW save \in {"save", "stopsave"},
         closeProxy(v, save), pd.pc = IF save = "save" THEN "work" ELSE "stopping",
         save = "save" => proxies[v] # 0
  PROVE  ProxyInv'
<1> DEFINE h == Hold(v, 0)
<1>0. /\ ProxyTypeOK /\ Bounded /\ Kept(v) /\ 0 \in Nat /\ pd.pc \in {"work", "stopping"}
  BY DEF ProxyInv
<1>1. /\ proxies' = [proxies EXCEPT ![v] = 0] /\ UNCHANGED <<Outside, pstate, behind>>
      /\ UNCHANGED <<pconf, boots, proc, starting, fwd, writer>>
  BY Zenon DEF closeProxy, Outside, vmVars
<1>p. proxies'[v] = 0
  BY <1>0, <1>1 DEF ProxyTypeOK
<1>2. h \in HoldType /\ h.v = v /\ h.base = pstate[v] /\ h.copy.port = 0
      /\ h.copy.running = pstate[v].running /\ h.copy.boot = pstate[v].boot
  BY ZenonT(40), <1>0, HoldMade
<1>3. (pd' = Treated(v) /\ pstate[v].port # proxies[v])
        \/ (pd' = ToSave(v, save, h) /\ pstate[v].port = proxies[v])
  BY ZenonT(60) DEF closeProxy, Treated, ToSave
<1> HIDE DEF h
<1>t. /\ TreatedFields(v, Treated(v)) /\ Treated(v).pc = pd.pc /\ Treated(v).hold = pd.hold
      /\ TreatedFields(v, ToSave(v, save, h)) /\ ToSave(v, save, h).pc = save
      /\ ToSave(v, save, h).hold = h
  BY ZenonT(40), <1>0, <1>2, TreatFields
<1>4. TreatedFields(v, pd')
  BY Zenon, <1>3, <1>t
<1>5. /\ pd' \in DaemonType /\ pd'.todo = pd.todo \ {v} /\ pd'.left = pd.left
      /\ pd'.synced = pd.synced /\ pd.failed \subseteq pd'.failed
  BY Zenon, <1>4 DEF TreatedFields
<1>6. \/ pd'.pc = pd.pc /\ pd'.hold = pd.hold /\ pstate[v].port # proxies[v]
      \/ pd'.pc = save /\ pd'.hold = h /\ pstate[v].port = proxies[v]
  BY Zenon, <1>3, <1>t
<1>7. HoldFits(pd.hold)'
  BY Zenon, <1>0, <1>1, <1>2, <1>6 DEF Bounded, HoldFits
<1>8. Kept(v)'
  <2>1. /\ ~saving(v) /\ (moving(v)' <=> moving(v)) /\ (Settled(v)' <=> Settled(v))
        /\ (isLive(v)' <=> isLive(v)) /\ (Carries(v)' <=> Carries(v))
        /\ (saving(v)' => pd'.hold = h /\ pstate[v].port = proxies[v])
        /\ (~saving(v)' => pstate[v].port # proxies[v])
    <3>1. pd.pc \notin {"save", "stopsave"}
      BY <1>0
    <3> QED
      BY Zenon, <1>1, <1>2, <1>6, <3>1 DEF saving, moving, Settled, isLive, Carries
  <2>2. Fresh(v)' /\ Mode(v)'
    BY ZenonT(40), <1>0, <1>1, <1>2, <2>1 DEF Kept, Fresh, Mode
  <2>3. Apart(v)' /\ CopyHolds(v)' /\ Closing(v)'
    <3>1. pd'.pc # "off"
      BY <1>0, <1>6
    <3> QED
      BY Zenon, <1>0, <1>1, <1>p, <1>2, <2>1, <3>1 DEF Kept, Apart, CopyHolds, Closing
  <2>4. OwnRecord(v)'
    BY Zenon, <1>0, <1>1, <1>p, <2>1 DEF Kept, OwnRecord
  <2>5. MovedTo(v)'
    BY Zenon, <1>0, <1>1, <1>p, <2>1 DEF Kept, MovedTo
  <2>6. PortHolds(v)'
    BY Zenon, <1>0, <1>1, <1>p, <1>5, <2>1 DEF Kept, PortHolds
  <2>7. Owed(v)'
    <3>1. pd'.pc \in {"work", "save"} \/ (pd'.pc = "idle" /\ pd'.synced) => proxies[v] # 0
      BY <1>0, <1>6
    <3>2. Carries(v) /\ ~saving(v)' /\ proxies[v] # 0 => pstate[v].port = 0
      BY Zenon, <1>0, <2>1 DEF Kept, PortHolds
    <3> QED
      BY Zenon, <1>1, <2>1, <3>1, <3>2 DEF Owed
  <2> QED
    BY Zenon, <2>2, <2>3, <2>4, <2>5, <2>6, <2>7 DEF Kept
<1>9. pd'.pc = pd.pc \/ (pd'.pc = (IF pd.pc = "work" THEN "save" ELSE "stopsave") /\ pd'.hold.v = v)
  BY <1>2, <1>6
<1>10. behind \subseteq behind' /\ behind' \subseteq behind \cup {v}
  BY Zenon, <1>1
<1> QED
  BY Zenon, <1>0, <1>1, <1>5, <1>7, <1>8, <1>9, <1>10, TreatStep

(* A proxy is opened, or fails to be, for a VM that was listed as up.       *)
LEMMA OpenStep ==
  ASSUME ProxyInv, NEW v \in ProxyVMs, reconcileStart(v)
  PROVE  ProxyInv'
<1> DEFINE p == availablePort(pd.prefs[v])
           h == Hold(v, p)
<1>0. /\ ProxyTypeOK /\ Bounded /\ Kept(v) /\ pd.pc = "work" /\ proxies[v] = 0
      /\ pd.prefs[v] \in Nat
  BY ProxyFields DEF ProxyInv, reconcileStart
<1>1. p \in Nat
  BY Zenon, <1>0, PortIsNumber
<1>2. /\ UNCHANGED <<Outside, pstate>> /\ UNCHANGED <<pconf, boots, proc, starting, fwd, writer>>
  BY Zenon DEF reconcileStart, Outside, vmVars
<1>3. \/ proxies' = proxies /\ pd' = NotOpened(v) /\ behind' = behind
      \/ /\ p \notin inUse /\ proxies' = [proxies EXCEPT ![v] = p]
         /\ behind' = (IF isWanted(v) THEN behind ELSE behind \cup {v})
         /\ \/ pd' = Treated(v) /\ pstate[v].port = p
            \/ pd' = ToSave(v, "save", h)
  BY ZenonT(60) DEF reconcileStart, Treated, NotOpened, ToSave
<1>4. /\ h \in HoldType /\ h.v = v /\ h.base = pstate[v] /\ h.copy.port = p
      /\ h.copy.running = pstate[v].running /\ h.copy.boot = pstate[v].boot
  BY ZenonT(40), <1>0, <1>1, HoldMade
<1> HIDE DEF h
<1> HIDE DEF p
<1>t. /\ TreatedFields(v, Treated(v)) /\ Treated(v).pc = pd.pc /\ Treated(v).hold = pd.hold
      /\ TreatedFields(v, NotOpened(v)) /\ NotOpened(v).pc = pd.pc
      /\ NotOpened(v).hold = pd.hold /\ v \in NotOpened(v).failed
      /\ TreatedFields(v, ToSave(v, "save", h)) /\ ToSave(v, "save", h).pc = "save"
      /\ ToSave(v, "save", h).hold = h
  BY <1>0, <1>4, TreatFields
<1>5. TreatedFields(v, pd')
  BY Zenon, <1>3, <1>t
<1>6. /\ pd' \in DaemonType /\ pd'.todo = pd.todo \ {v} /\ pd'.left = pd.left
      /\ pd'.synced = pd.synced /\ pd.failed \subseteq pd'.failed
  BY Zenon, <1>5 DEF TreatedFields
<1>7. PICK n \in Nat : proxies' = [proxies EXCEPT ![v] = n] /\ proxies'[v] = n
  BY <1>0, <1>1, <1>3 DEF ProxyTypeOK
<1>8. /\ pd'.pc \in {"work", "save"} /\ (pd'.pc = "save" => pd'.hold = h)
      /\ (pd'.pc = "work" => pd'.hold = pd.hold)
  BY Zenon, <1>0, <1>3, <1>t
<1>9. \/ proxies'[v] = 0 /\ pd'.pc = "work" /\ v \in pd'.failed /\ behind' = behind
      \/ /\ p \notin inUse /\ proxies'[v] = p
         /\ behind' = (IF isWanted(v) THEN behind ELSE behind \cup {v})
         /\ (pd'.pc = "work" => pstate[v].port = p)
  <2>1. proxies' = [proxies EXCEPT ![v] = p] => proxies'[v] = p
    BY <1>0, <1>1 DEF ProxyTypeOK
  <2>2. "work" # "save"
    OBVIOUS
  <2> QED
    BY Zenon, <1>0, <1>3, <1>t, <2>1, <2>2
<1>10. HoldFits(pd.hold)'
  BY Zenon, <1>0, <1>2, <1>4, <1>8 DEF Bounded, HoldFits
<1>11. behind \subseteq behind' /\ behind' \subseteq behind \cup {v}
  BY Zenon, <1>9
<1>12. Kept(v)'
  <2>1. /\ ~saving(v) /\ (moving(v)' <=> moving(v)) /\ (isLive(v)' <=> isLive(v))
        /\ (Settled(v)' => Settled(v)) /\ (Carries(v)' => Carries(v))
        /\ (saving(v)' <=> pd'.pc = "save")
    <3>1. pd.pc \notin {"save", "stopsave"} /\ pd'.pc # "stopsave"
      BY <1>0, <1>8
    <3> QED
      BY ZenonT(40), <1>2, <1>4, <1>8, <1>11, <3>1 DEF saving, moving, Settled, isLive, Carries
  <2>2. Fresh(v)'
    BY Zenon, <1>0, <1>2, <1>4, <1>8, <2>1 DEF Kept, Fresh
  <2>3. Mode(v)'
    BY Zenon, <1>0, <1>2, <1>11 DEF Kept, Mode
  <2>4. proc[v] # 0 => p \in inUse \/ p \notin fwd[v]
    <3>1. proc[v] # 0 => fwd[v] \subseteq inUse
      BY Zenon DEF inUse, forwarded
    <3> QED
      BY Zenon, <3>1
  <2>5. Apart(v)'
    BY Zenon, <1>0, <1>2, <1>9, <2>4 DEF Kept, Apart
  <2>6. Closing(v)'
    <3>1. pd'.pc \notin {"stopping", "stopsave", "off"}
      BY <1>8
    <3> QED
      BY Zenon, <3>1 DEF Closing
  <2>7. CASE proxies'[v] = 0 /\ pd'.pc = "work" /\ v \in pd'.failed /\ behind' = behind
    <3>1. (Settled(v)' <=> Settled(v)) /\ ~saving(v)'
      BY Zenon, <1>2, <2>1, <2>7 DEF Settled
    <3>2. OwnRecord(v)' /\ MovedTo(v)'
      BY Zenon, <1>0, <1>2, <2>1, <2>7, <3>1 DEF Kept, OwnRecord, MovedTo
    <3>3. CopyHolds(v)' /\ PortHolds(v)' /\ Owed(v)'
      BY Zenon, <1>0, <1>2, <1>6, <2>1, <2>7, <3>1 DEF Kept, CopyHolds, PortHolds, Owed
    <3> QED
      BY Zenon, <2>2, <2>3, <2>5, <2>6, <3>2, <3>3 DEF Kept
  <2>8. CASE /\ p \notin inUse /\ proxies'[v] = p
             /\ behind' = (IF isWanted(v) THEN behind ELSE behind \cup {v})
             /\ (pd'.pc = "work" => pstate[v].port = p)
    <3>1. p # 0
      <4>1. proxies[v] \in inUse
        BY Zenon DEF inUse
      <4> QED
        BY Zenon, <1>0, <2>8, <4>1
    <3>2. Settled(v)' => isWanted(v) /\ fwd[v] = {} /\ proc[v] # 0
      BY Zenon, <1>0, <2>1, <2>8 DEF Kept, Mode, Settled, isWanted, isLive
    <3>3. OwnRecord(v)'
      BY Zenon, <1>2, <2>1, <3>2 DEF OwnRecord, isWanted
    <3>4. MovedTo(v)'
      <4>1. moving(v) => writer.base.running
        BY Zenon, <1>0 DEF Kept, MovedTo
      <4>2. moving(v) /\ Settled(v)' => pstate[v].boot # writer.base.boot
        BY Zenon, <1>0, <2>1, <3>2 DEF Kept, MovedTo, isWanted, isLive
      <4> QED
        BY Zenon, <1>2, <2>1, <4>1, <4>2 DEF MovedTo
    <3>5. CopyHolds(v)' /\ Owed(v)'
      BY Zenon, <1>4, <1>8, <2>1, <2>8, <3>1 DEF CopyHolds, Owed
    <3>6. PortHolds(v)'
      BY Zenon, <1>2, <1>8, <2>1, <2>8 DEF PortHolds
    <3> QED
      BY Zenon, <2>2, <2>3, <2>5, <2>6, <3>3, <3>4, <3>5, <3>6 DEF Kept
  <2> QED
    BY Zenon, <1>9, <2>7, <2>8
<1>13. pd'.pc = pd.pc \/ (pd'.pc = (IF pd.pc = "work" THEN "save" ELSE "stopsave") /\ pd'.hold.v = v)
  BY Zenon, <1>0, <1>4, <1>8
<1>14. pd.pc \in {"work", "stopping"}
  BY Zenon, <1>0
<1> QED
  BY Zenon, <1>2, <1>6, <1>7, <1>10, <1>11, <1>12, <1>13, <1>14, TreatStep

(* The record loaded before the proxy changed is written, or is not.        *)
LEMMA SaveStep ==
  ASSUME ProxyInv, NEW v \in ProxyVMs, pd.hold.v = v, saveStateSSHPort
  PROVE  ProxyInv'
<1> DEFINE pc == IF pd.pc = "save" THEN "work" ELSE "stopping"
           h  == pd.hold
<1>0. /\ ProxyTypeOK /\ Bounded /\ Kept(v) /\ pd \in DaemonType /\ h \in HoldType /\ saving(v)
      /\ pd.pc \in {"save", "stopsave"}
  BY ProxyFields DEF ProxyInv, ProxyTypeOK, saveStateSSHPort, saving
<1>1. /\ saveState(pd.hold) /\ pd' = [pd EXCEPT !.pc = pc, !.hold = NoHold]
      /\ UNCHANGED <<pconf, boots, proc, starting, fwd, proxies, writer>>
  BY Zenon DEF saveStateSSHPort, vmVars
<1>2. /\ pstate' \in [ProxyVMs -> RecordType] /\ behind' \in SUBSET ProxyVMs
      /\ behind \subseteq behind'
      /\ \A u \in ProxyVMs \ {v} : pstate'[u] = pstate[u] /\ (u \in behind' <=> u \in behind)
  BY Zenon, <1>0, <1>1, SaveFields
<1>3. \/ pstate'[v] = pd.hold.copy /\ pstate[v] = pd.hold.base /\ behind' = behind
      \/ pstate'[v] \in {pd.hold.copy, pstate[v]} /\ v \in behind'
  BY Zenon, <1>0, <1>1, SaveFields
<1>4. /\ pd.hold.copy.running = pd.hold.base.running /\ pd.hold.copy.boot = pd.hold.base.boot
      /\ pd.hold.base.boot <= boots
  BY Zenon, <1>0 DEF Bounded, HoldFits
<1>5. pc \in ProxyPcs /\ pc \notin {"save", "stopsave", "idle", "off"}
      /\ (pc = "work" <=> pd.pc = "save") /\ (pc = "stopping" <=> pd.pc = "stopsave")
  BY <1>0 DEF ProxyPcs
<1> HIDE DEF pc
<1>6. pd' \in DaemonType
  BY Zenon, <1>0, <1>1, <1>5, NothingHeld DEF DaemonType
<1>7. /\ pd'.pc = pc /\ pd'.todo = pd.todo /\ pd'.failed = pd.failed /\ pd'.hold = NoHold
      /\ pd'.synced = pd.synced /\ pd'.left = pd.left
  BY <1>0, <1>1 DEF DaemonType
<1>8. ProxyTypeOK'
  BY Zenon, <1>0, <1>1, <1>2, <1>5, <1>6, <1>7 DEF ProxyTypeOK
<1>9. Bounded'
  <2>1. 0 <= boots
    BY <1>0 DEF ProxyTypeOK
  <2>2. HoldFits(pd.hold)'
    BY Zenon, <1>1, <1>7, <2>1, NothingHeld DEF HoldFits
  <2>3. \A u \in ProxyVMs : pstate'[u].boot <= boots
    BY Zenon, <1>0, <1>2, <1>3, <1>4 DEF Bounded
  <2> QED
    BY Zenon, <1>0, <1>1, <2>2, <2>3 DEF Bounded, HoldFits
<1>10. \A u \in ProxyVMs : ~saving(u)'
  BY Zenon, <1>5, <1>7 DEF saving
<1>11. Kept(v)'
  <2>1. (moving(v)' <=> moving(v)) /\ ~saving(v)'
    BY Zenon, <1>1, <1>10 DEF moving
  <2>2. Fresh(v)'
    <3>1. starting[v] # 0 => pstate[v].boot # starting[v] /\ pd.hold.base.boot # starting[v]
      BY Zenon, <1>0 DEF Kept, Fresh
    <3>2. starting[v] # 0 => pstate'[v].boot # starting[v]
      BY Zenon, <1>3, <1>4, <3>1
    <3> QED
      BY Zenon, <1>0, <1>1, <2>1, <3>2 DEF Kept, Fresh
  <2>3. Mode(v)' /\ Apart(v)' /\ CopyHolds(v)' /\ Closing(v)'
    BY Zenon, <1>0, <1>1, <1>2, <1>5, <1>7, <2>1 DEF Kept, Mode, Apart, CopyHolds, Closing
  <2>m. moving(v) => writer.base.running
    BY Zenon, <1>0 DEF Kept, MovedTo
  <2>4. CASE v \in behind'
    <3>1. ~Settled(v)' /\ ~Carries(v)'
      BY Zenon, <2>4 DEF Settled, Carries
    <3>2. OwnRecord(v)' /\ MovedTo(v)' /\ PortHolds(v)' /\ Owed(v)'
      BY Zenon, <1>1, <2>1, <2>m, <3>1 DEF OwnRecord, MovedTo, PortHolds, Owed
    <3> QED
      BY Zenon, <2>2, <2>3, <3>2 DEF Kept
  <2>5. CASE pstate'[v] = pd.hold.copy /\ pstate[v] = pd.hold.base /\ behind' = behind
    <3>1. /\ pstate'[v].running = pstate[v].running /\ pstate'[v].boot = pstate[v].boot
          /\ (Settled(v)' <=> Settled(v)) /\ (Carries(v)' <=> Carries(v))
          /\ (isLive(v)' <=> isLive(v))
      BY Zenon, <1>1, <1>4, <2>5 DEF Settled, Carries, isLive
    <3>2. pstate'[v].port = proxies'[v]
      BY Zenon, <1>0, <1>1, <2>5 DEF Kept, CopyHolds
    <3>3. Settled(v) /\ proc[v] # 0 => isLive(v) /\ fwd[v] = {}
      BY Zenon, <1>0, <2>5 DEF Kept, OwnRecord, isLive
    <3>4. OwnRecord(v)'
      BY Zenon, <1>1, <3>1, <3>3 DEF OwnRecord
    <3>5. moving(v) /\ Settled(v) /\ pstate[v].running => pstate[v].boot # writer.base.boot
      BY Zenon, <1>0, <2>5 DEF Kept, MovedTo
    <3>6. MovedTo(v)'
      BY Zenon, <1>1, <2>1, <2>m, <3>1, <3>5 DEF MovedTo
    <3>7. PortHolds(v)' /\ Owed(v)'
      BY Zenon, <3>2 DEF PortHolds, Owed
    <3> QED
      BY Zenon, <2>2, <2>3, <3>4, <3>6, <3>7 DEF Kept
  <2> QED
    BY Zenon, <1>3, <2>4, <2>5
<1>12. ASSUME NEW u \in ProxyVMs \ {v} PROVE Kept(u)'
  <2>1. Kept(u) /\ ~saving(u) /\ ~saving(u)' /\ (Carries(u)' <=> Carries(u))
    BY Zenon, <1>1, <1>2, <1>10 DEF ProxyInv, saving, Carries, Settled
  <2>2. Owed(u)' /\ Closing(u)'
    BY Zenon, <1>0, <1>1, <1>2, <1>5, <1>7, <2>1 DEF Kept, Owed, Closing
  <2> QED
    BY Zenon, <1>1, <1>2, <1>7, <2>1, <2>2, OtherVM
<1> QED
  BY Zenon, <1>8, <1>9, <1>11, <1>12 DEF ProxyInv

(* The pass is done: what a killed daemon left has been treated.            *)
LEMMA DoneStep ==
  ASSUME ProxyInv, reconcileDone
  PROVE  ProxyInv'
<1>0. /\ ProxyTypeOK /\ Bounded /\ pd \in DaemonType /\ pd.pc = "work" /\ pd.todo = {}
      /\ UNCHANGED <<Outside, pstate, proxies, behind>>
      /\ UNCHANGED <<pconf, boots, proc, starting, fwd, writer, pstate, proxies, behind>>
      /\ pd' = [pd EXCEPT !.pc = "idle", !.prefs = NoPrefs, !.synced = TRUE,
                          !.left = pd.left \cap pd.failed]
  BY Zenon DEF ProxyInv, ProxyTypeOK, reconcileDone, Outside, vmVars
<1>1. NoPrefs \in [ProxyVMs -> Nat]
  BY DEF NoPrefs
<1>2. pd.left \cap pd.failed \in SUBSET ProxyVMs
  BY <1>0 DEF DaemonType
<1>3. pd' \in DaemonType
  BY Zenon, <1>0, <1>1, <1>2 DEF DaemonType, ProxyPcs
<1>4. /\ pd'.pc = "idle" /\ pd'.left = pd.left \cap pd.failed /\ pd'.failed = pd.failed
      /\ pd'.hold = pd.hold
  BY <1>0 DEF DaemonType
<1>5. ASSUME NEW u \in ProxyVMs PROVE PortHolds(u)' /\ Owed(u)' /\ Closing(u)'
  <2>1. /\ Kept(u) /\ ~saving(u) /\ ~saving(u)' /\ (Carries(u)' <=> Carries(u))
    BY <1>0, <1>4 DEF ProxyInv, saving, Carries, Settled
  <2>2. Carries(u) /\ pstate[u].port # 0 /\ proxies[u] = 0 => u \in pd.failed
    BY Zenon, <1>0, <2>1 DEF Kept, Owed
  <2>3. PortHolds(u)'
    BY Zenon, <1>0, <1>4, <2>1, <2>2 DEF Kept, PortHolds
  <2>4. Owed(u)'
    BY Zenon, <1>0, <1>4, <2>1, <2>2 DEF Owed
  <2>5. Closing(u)'
    BY <1>4 DEF Closing
  <2> QED
    BY Zenon, <2>3, <2>4, <2>5
<1>6. HoldFits(pd.hold)'
  BY Zenon, <1>0, <1>4 DEF Bounded, HoldFits
<1>7. pd'.pc \notin {"save", "stopsave"} /\ pd.pc \notin {"save", "stopsave"}
  BY <1>0, <1>4
<1> QED
  BY Zenon, <1>0, <1>3, <1>5, <1>6, <1>7, DaemonOnly

(* The daemon is told to exit, and is gone once every listener is closed.   *)
LEMMA StopStep ==
  ASSUME ProxyInv,
         \/ daemonStop
         \/ /\ pd.pc = "stopping" /\ pd.todo = {} /\ pd' = [pd EXCEPT !.pc = "off"]
            /\ UNCHANGED <<Outside, pstate, proxies, behind>>
  PROVE  ProxyInv'
<1> DEFINE T == {v \in ProxyVMs : proxies[v] # 0}
<1>0. /\ ProxyTypeOK /\ Bounded /\ pd \in DaemonType /\ pd.pc \in {"idle", "stopping"}
      /\ UNCHANGED <<Outside, pstate, proxies, behind>>
      /\ UNCHANGED <<pconf, boots, proc, starting, fwd, writer, pstate, proxies, behind>>
      /\ \/ pd' = [pd EXCEPT !.pc = "stopping", !.todo = T]
         \/ pd.pc = "stopping" /\ pd.todo = {} /\ pd' = [pd EXCEPT !.pc = "off"]
  BY Zenon DEF ProxyInv, ProxyTypeOK, daemonStop, Outside, vmVars
<1>1. T \in SUBSET ProxyVMs /\ \A u \in ProxyVMs : proxies[u] # 0 => u \in T
  OBVIOUS
<1> HIDE DEF T
<1>2. pd' \in DaemonType
  BY Zenon, <1>0, <1>1 DEF DaemonType, ProxyPcs
<1>3. /\ pd'.left = pd.left /\ pd'.hold = pd.hold /\ pd'.pc \in {"stopping", "off"}
      /\ (pd'.pc = "stopping" => pd'.todo = T)
      /\ (pd'.pc = "off" => pd.pc = "stopping" /\ pd.todo = {})
  BY ZenonT(40), <1>0 DEF DaemonType
<1>4. ASSUME NEW u \in ProxyVMs PROVE PortHolds(u)' /\ Owed(u)' /\ Closing(u)'
  <2>1. /\ Kept(u) /\ ~saving(u) /\ ~saving(u)' /\ (Carries(u)' <=> Carries(u))
    BY <1>0, <1>3 DEF ProxyInv, saving, Carries, Settled
  <2>2. PortHolds(u)'
    BY Zenon, <1>0, <1>3, <2>1 DEF Kept, PortHolds
  <2>3. Owed(u)'
    BY <1>3 DEF Owed
  <2>4. pd'.pc = "off" => proxies[u] = 0
    BY Zenon, <1>3, <2>1 DEF Kept, Closing
  <2>5. pd'.pc = "stopsave" => FALSE
    BY <1>3
  <2>6. Closing(u)'
    BY Zenon, <1>0, <1>1, <1>3, <2>4, <2>5 DEF Closing
  <2> QED
    BY Zenon, <2>2, <2>3, <2>6
<1>5. HoldFits(pd.hold)'
  BY Zenon, <1>0, <1>3 DEF Bounded, HoldFits
<1>6. pd'.pc \notin {"save", "stopsave"} /\ pd.pc \notin {"save", "stopsave"}
  BY <1>0, <1>3
<1> QED
  BY Zenon, <1>0, <1>2, <1>4, <1>5, <1>6, DaemonOnly

(* stopAllSSHProxies closes one listener after the other, then is done.     *)
LEMMA StopAllStep ==
  ASSUME ProxyInv, stopAllSSHProxies
  PROVE  ProxyInv'
<1>0. pd.pc = "stopping" /\ pd \in DaemonType
  BY DEF stopAllSSHProxies, ProxyInv, ProxyTypeOK
<1>1. CASE \E v \in pd.todo : closeProxy(v, "stopsave")
  <2>1. PICK v \in pd.todo : closeProxy(v, "stopsave")
    BY <1>1
  <2>2. v \in ProxyVMs
    BY <1>0 DEF DaemonType
  <2> QED
    BY <1>0, <2>1, <2>2, CloseStep
<1>2. CASE /\ pd.todo = {} /\ pd' = [pd EXCEPT !.pc = "off"]
           /\ UNCHANGED <<Outside, pstate, proxies, behind>>
  BY Zenon, <1>0, <1>2, StopStep
<1> QED
  BY Zenon, <1>1, <1>2 DEF stopAllSSHProxies, Outside, vmVars

(* The daemon is killed: its listeners are gone, the records stay.          *)
LEMMA KilledStep ==
  ASSUME ProxyInv, daemonKilled
  PROVE  ProxyInv'
<1> DEFINE none == [v \in ProxyVMs |-> 0]
<1>0. /\ ProxyTypeOK /\ Bounded /\ boots \in Nat
      /\ UNCHANGED <<pconf, boots, proc, starting, fwd, writer, pstate, behind>>
      /\ proxies' = none /\ pd' = [Daemon0 EXCEPT !.pc = "off", !.left = ProxyVMs]
  BY Zenon DEF ProxyInv, ProxyTypeOK, daemonKilled, vmVars
<1>1. none \in [ProxyVMs -> Nat] /\ \A u \in ProxyVMs : none[u] = 0
  OBVIOUS
<1> HIDE DEF none
<1>2. Daemon0 \in DaemonType
  <2>1. NoPrefs \in [ProxyVMs -> Nat]
    BY DEF NoPrefs
  <2> QED
    BY Zenon, <2>1, NothingHeld DEF Daemon0, DaemonType, ProxyPcs
<1>3. pd' \in DaemonType
  BY Zenon, <1>0, <1>2 DEF DaemonType, ProxyPcs
<1>4. pd'.pc = "off" /\ pd'.left = ProxyVMs /\ pd'.hold = NoHold
  BY <1>0, <1>2 DEF DaemonType, Daemon0
<1>5. pd'.pc \notin {"save", "stopsave", "idle", "work", "stopping"}
  BY <1>4
<1>6. ProxyTypeOK'
  BY Zenon, <1>0, <1>1, <1>3, <1>5 DEF ProxyTypeOK
<1>7. Bounded'
  <2>1. 0 <= boots
    BY <1>0
  <2> QED
    BY Zenon, <1>0, <1>4, <2>1, NothingHeld DEF Bounded, HoldFits
<1>8. ASSUME NEW u \in ProxyVMs PROVE Kept(u)'
  <2>1. /\ Kept(u) /\ ~saving(u)' /\ (moving(u)' <=> moving(u)) /\ proxies'[u] = 0
        /\ (Settled(u)' <=> Settled(u)) /\ (isLive(u)' <=> isLive(u))
    BY Zenon, <1>0, <1>1, <1>5 DEF ProxyInv, saving, moving, Settled, isLive
  <2>2. Fresh(u)' /\ Mode(u)' /\ Apart(u)' /\ CopyHolds(u)'
    BY Zenon, <1>0, <2>1 DEF Kept, Fresh, Mode, Apart, CopyHolds
  <2>3. OwnRecord(u)' /\ MovedTo(u)'
    BY Zenon, <1>0, <2>1 DEF Kept, OwnRecord, MovedTo
  <2>4. PortHolds(u)' /\ Owed(u)' /\ Closing(u)'
    BY Zenon, <1>4, <1>5, <2>1 DEF PortHolds, Owed, Closing
  <2> QED
    BY Zenon, <2>2, <2>3, <2>4 DEF Kept
<1> QED
  BY Zenon, <1>6, <1>7, <1>8 DEF ProxyInv

(* A daemon that starts has no listeners, and has completed no pass.        *)
LEMMA DaemonStartStep ==
  ASSUME ProxyInv, daemonStart
  PROVE  ProxyInv'
<1>0. /\ ProxyTypeOK /\ Bounded /\ boots \in Nat /\ pd \in DaemonType /\ pd.pc = "off"
      /\ UNCHANGED <<Outside, pstate, proxies, behind>>
      /\ UNCHANGED <<pconf, boots, proc, starting, fwd, writer, pstate, proxies, behind>>
      /\ pd' = [Daemon0 EXCEPT !.left = pd.left]
  BY Zenon DEF ProxyInv, ProxyTypeOK, daemonStart, Outside, vmVars
<1>1. Daemon0 \in DaemonType
  <2>1. NoPrefs \in [ProxyVMs -> Nat]
    BY DEF NoPrefs
  <2> QED
    BY Zenon, <2>1, NothingHeld DEF Daemon0, DaemonType, ProxyPcs
<1>2. pd.left \in SUBSET ProxyVMs
  BY <1>0 DEF DaemonType
<1>3. pd' \in DaemonType
  BY Zenon, <1>0, <1>1, <1>2 DEF DaemonType
<1>4. pd'.pc = "idle" /\ pd'.left = pd.left /\ pd'.hold = NoHold /\ pd'.synced = FALSE
  BY <1>0, <1>1 DEF DaemonType, Daemon0
<1>5. /\ pd'.pc \notin {"save", "stopsave", "work", "stopping", "off"}
      /\ pd.pc \notin {"save", "stopsave"}
  BY <1>0, <1>4
<1>6. ASSUME NEW u \in ProxyVMs PROVE PortHolds(u)' /\ Owed(u)' /\ Closing(u)'
  <2>1. /\ Kept(u) /\ ~saving(u) /\ ~saving(u)' /\ (Carries(u)' <=> Carries(u))
    BY Zenon, <1>0, <1>5 DEF ProxyInv, saving, Carries, Settled
  <2>2. PortHolds(u)'
    BY Zenon, <1>0, <1>4, <2>1 DEF Kept, PortHolds
  <2>3. Owed(u)' /\ Closing(u)'
    BY Zenon, <1>4, <1>5 DEF Owed, Closing
  <2> QED
    BY Zenon, <2>2, <2>3
<1>7. HoldFits(pd.hold)'
  <2>1. 0 <= boots
    BY <1>0
  <2> QED
    BY Zenon, <1>0, <1>4, <2>1, NothingHeld DEF HoldFits
<1> QED
  BY Zenon, <1>0, <1>3, <1>5, <1>6, <1>7, DaemonOnly

(* The invariant implies what is promised.                                  *)
LEMMA KeptMeans ==
  ASSUME ProxyInv
  PROVE  PortRecordsKept
<1>0. ASSUME NEW v \in ProxyVMs PROVE Kept(v)
  BY Zenon DEF ProxyInv
<1>1. ASSUME NEW v \in ProxyVMs \ behind, pd.pc = "idle", pd.synced, isWanted(v),
             pstate[v].port # 0, v \notin pd.failed
      PROVE  proxies[v] = pstate[v].port
  <2>1. Kept(v) /\ isLive(v) /\ proc[v] # 0 /\ pstate[v].running /\ pconf[v].bridge
    BY Zenon, <1>0, <1>1 DEF isWanted, isLive
  <2>2. starting[v] = 0
    BY Zenon, <2>1 DEF Kept, Fresh, isLive
  <2>3. Carries(v)
    BY Zenon, <1>1, <2>1, <2>2 DEF Kept, Mode, Carries, Settled
  <2>4. ~saving(v)
    BY <1>1 DEF saving
  <2>5. proxies[v] # 0
    <3>1. pd.pc \notin {"work", "save"}
      BY <1>1
    <3> QED
      BY Zenon, <1>1, <2>1, <2>3, <2>4, <3>1 DEF Kept, Owed
  <2> QED
    BY Zenon, <1>1, <2>1, <2>3, <2>4, <2>5 DEF Kept, PortHolds
<1>2. ASSUME NEW v \in ProxyVMs \ (behind \cup pd.left), pd.pc = "off", pstate[v].running,
             fwd[v] = {}, starting[v] = 0
      PROVE  pstate[v].port = 0
  <2>1. Kept(v) /\ Carries(v)
    BY Zenon, <1>0, <1>2 DEF Carries, Settled
  <2>2. ~saving(v)
    BY <1>2 DEF saving
  <2> QED
    BY Zenon, <1>2, <2>1, <2>2 DEF Kept, PortHolds, Closing
<1>3. ASSUME NEW v \in ProxyVMs \ behind, proc[v] # 0, starting[v] = 0
      PROVE  isLive(v) /\ (fwd[v] # {} /\ ~moving(v) => pstate[v].port \in fwd[v])
  BY Zenon, <1>0, <1>3 DEF Kept, OwnRecord, Settled
<1> QED
  BY Zenon, <1>1, <1>2, <1>3 DEF PortRecordsKept, RecordedPortServed, NoPortAfterExit, RecordKept

(* Every step keeps the invariant.                                          *)
LEMMA ProxyInductive ==
  ASSUME ProxyInv, [ProxyNext]_proxyVars
  PROVE  ProxyInv'
<1>1. ASSUME NEW v \in ProxyVMs, startVM(v) PROVE ProxyInv'
  BY Zenon, <1>1, LaunchStep
<1>2. ASSUME NEW v \in ProxyVMs, startSave(v) PROVE ProxyInv'
  BY Zenon, <1>2, StartSaveStep
<1>3. ASSUME NEW v \in ProxyVMs, stopVM(v) PROVE ProxyInv'
  BY Zenon, <1>3, StopVMStep
<1>4. ASSUME NEW v \in ProxyVMs, crashVM(v) \/ editNIC(v) PROVE ProxyInv'
  BY Zenon, <1>4, CrashEditStep
<1>5. ASSUME NEW v \in ProxyVMs, touchLoad(v) PROVE ProxyInv'
  BY Zenon, <1>5, TouchStep
<1>6. ASSUME NEW v \in ProxyVMs, NEW p \in ProxyPorts, SetSSHPort(v, p) PROVE ProxyInv'
  BY Zenon, <1>6, SetPortStep
<1>7. ASSUME writerSave PROVE ProxyInv'
  <2>1. writer.v \in ProxyVMs
    BY <1>7 DEF writerSave, ProxyInv, ProxyTypeOK, HoldType
  <2> QED
    BY Zenon, <1>7, <2>1, WriterSaveStep
<1>8. ASSUME reconcileList PROVE ProxyInv'
  BY Zenon, <1>8, ListStep
<1>9. ASSUME saveStateSSHPort PROVE ProxyInv'
  <2>1. pd.hold.v \in ProxyVMs
    BY Zenon, <1>9 DEF saveStateSSHPort, ProxyInv, ProxyTypeOK
  <2> QED
    BY Zenon, <1>9, <2>1, SaveStep
<1>10. ASSUME reconcileDone PROVE ProxyInv'
  BY Zenon, <1>10, DoneStep
<1>11. ASSUME NEW v \in ProxyVMs, reconcileClose(v) PROVE ProxyInv'
  <2>1. closeProxy(v, "save") /\ pd.pc = "work" /\ proxies[v] # 0
    BY Zenon, <1>11 DEF reconcileClose
  <2> QED
    BY <2>1, CloseStep
<1>12. ASSUME NEW v \in ProxyVMs, reconcileStart(v) PROVE ProxyInv'
  BY Zenon, <1>12, OpenStep
<1>13. ASSUME daemonStop \/ stopAllSSHProxies PROVE ProxyInv'
  BY Zenon, <1>13, StopStep, StopAllStep
<1>14. ASSUME daemonKilled \/ daemonStart PROVE ProxyInv'
  BY Zenon, <1>14, KilledStep, DaemonStartStep
<1>15. ASSUME \/ UNCHANGED proxyVars
              \/ \E p \in ProxyPorts : otherListens(p)
       PROVE  ProxyInv'
  <2>1. UNCHANGED <<pconf, pstate, boots, proc, starting, fwd, proxies, pd, writer, behind>>
    BY Zenon, <1>15 DEF proxyVars, otherListens, vmVars
  <2>2. ProxyTypeOK' /\ Bounded'
    BY Zenon, <2>1 DEF ProxyInv, ProxyTypeOK, Bounded, HoldFits
  <2>3. ASSUME NEW u \in ProxyVMs PROVE Kept(u)'
    <3>1. /\ Kept(u) /\ (saving(u)' <=> saving(u)) /\ (moving(u)' <=> moving(u))
          /\ (Settled(u)' <=> Settled(u)) /\ (isLive(u)' <=> isLive(u))
          /\ (Carries(u)' <=> Carries(u))
      BY Zenon, <2>1 DEF ProxyInv, saving, moving, Settled, isLive, Carries
    <3>2. Fresh(u)' /\ Mode(u)' /\ Apart(u)' /\ CopyHolds(u)'
      BY Zenon, <2>1, <3>1 DEF Kept, Fresh, Mode, Apart, CopyHolds
    <3>3. OwnRecord(u)' /\ MovedTo(u)'
      BY Zenon, <2>1, <3>1 DEF Kept, OwnRecord, MovedTo
    <3>4. PortHolds(u)' /\ Owed(u)' /\ Closing(u)'
      BY Zenon, <2>1, <3>1 DEF Kept, PortHolds, Owed, Closing
    <3> QED
      BY Zenon, <3>2, <3>3, <3>4 DEF Kept
  <2> QED
    BY Zenon, <2>2, <2>3 DEF ProxyInv
<1> QED
  BY ZenonT(60), <1>1, <1>2, <1>3, <1>4, <1>5, <1>6, <1>7, <1>8, <1>9, <1>10, <1>11, <1>12,
     <1>13, <1>14, <1>15 DEF ProxyNext, reconcileSSHProxies

(* The ports on record are the ports served, for any number of VMs, ports,  *)
(* starts, stops, daemons, other writers and failed saves: once a pass is   *)
(* done the port recorded for a running bridge VM is its listener's, a      *)
(* daemon that is gone leaves none, and no running VM loses its record or   *)
(* the port it forwards by it (reconcileSSHProxies, stopAllSSHProxies,      *)
(* clearStateSSHPort).                                                      *)
THEOREM RecordedPortsServed == ProxySpec => []PortRecordsKept
<1>1. ProxyInit => ProxyInv
  BY ProxyInitInv
<1>2. ProxyInv /\ [ProxyNext]_proxyVars => ProxyInv'
  BY ProxyInductive
<1>3. ProxyInv => PortRecordsKept
  BY KeptMeans
<1> QED
  BY <1>1, <1>2, <1>3, PTL DEF ProxySpec

=============================================================================
