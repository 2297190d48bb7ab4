----------------------------- MODULE SSHClients -----------------------------
(***************************************************************************)
(* Connections through a background tunnel (internal/vm/sshproxy.go):      *)
(* forward dials the guest's own address and falls back to a channel over  *)
(* an SSH connection, which all the requests for a VM share.  The shared   *)
(* connection is dialled outside the lock, kept by whoever publishes it    *)
(* first, and dropped by whoever finds it broken.                          *)
(***************************************************************************)
EXTENDS Naturals

CONSTANTS
  Requests,   \* connections accepted by the proxy
  Refused,    \* those whose target port nothing listens on in the guest
  MaxClients, \* bound: SSH connections dialled
  MaxReboots  \* bound: reboots of the guest

ASSUME ClientAssumption ==
  Refused \subseteq Requests /\ MaxClients \in Nat /\ MaxReboots \in Nat

VARIABLES
  cached,    \* sshTunnelClients[vm]: the shared connection, 0 none
  openc,     \* connections vee has not closed
  deadc,     \* connections that died with the guest
  dialled,   \* connections dialled so far
  reboots,   \* reboots so far
  sticky,    \* useFallback: the direct dial has been ruled out
  rq         \* [r] the state of a request

clientVars == <<cached, openc, deadc, dialled, reboots, sticky, rq>>

Request0 == [pc |-> "accept", cl |-> 0, again |-> FALSE, disturbed |-> FALSE, res |-> ""]

(* History: a request in progress may have lost its connection.             *)
disturb(q) == [q EXCEPT !.disturbed = @ \/ q.pc # "accept"]

fail(r) == [rq EXCEPT ![r].pc = "done", ![r].cl = 0, ![r].res = "error"]

(* forward: resolve the guest, then the direct dial unless it is known not  *)
(* to work.                                                                 *)
forward(r) ==
  /\ rq[r].pc = "accept"
  /\ \/ rq' = fail(r)   \* the guest's address does not resolve
     \/ ~sticky /\ rq' = [rq EXCEPT ![r].pc = "copy"]   \* it answers directly
     \/ rq' = [rq EXCEPT ![r].pc = "lookup"]
  /\ UNCHANGED <<cached, openc, deadc, dialled, reboots, sticky>>

(* sshTunnelClient: the shared connection if there is one.                  *)
lookupClient(r) ==
  /\ rq[r].pc = "lookup"
  /\ rq' = IF cached # 0 THEN [rq EXCEPT ![r].pc = "channel", ![r].cl = cached]
           ELSE [rq EXCEPT ![r].pc = "dial"]
  /\ UNCHANGED <<cached, openc, deadc, dialled, reboots, sticky>>

dialSSH(r) ==
  /\ rq[r].pc = "dial" /\ dialled < MaxClients
  /\ dialled' = dialled + 1
  /\ openc' = openc \cup {dialled'}
  /\ rq' = [rq EXCEPT ![r].pc = "publish", ![r].cl = dialled']
  /\ UNCHANGED <<cached, deadc, reboots, sticky>>

dialFails(r) ==
  /\ rq[r].pc = "dial"
  /\ rq' = fail(r)
  /\ UNCHANGED <<cached, openc, deadc, dialled, reboots, sticky>>

(* Mutant: the last to publish wins.                                        *)
publishLast(r) ==
  /\ rq[r].pc = "publish"
  /\ cached' = rq[r].cl /\ openc' = openc
  /\ rq' = [rq EXCEPT ![r].pc = "channel"]
  /\ UNCHANGED <<deadc, dialled, reboots, sticky>>

(* The first to publish wins; the others close theirs and use it.           *)
publish(r) ==
  /\ rq[r].pc = "publish"
  /\ IF cached # 0
     THEN /\ openc' = openc \ {rq[r].cl}
          /\ rq' = [rq EXCEPT ![r].pc = "channel", ![r].cl = cached]
          /\ cached' = cached
     ELSE /\ cached' = rq[r].cl /\ openc' = openc
          /\ rq' = [q \in Requests |->
               IF q = r THEN [rq[r] EXCEPT !.pc = "channel"]
               ELSE IF rq[r].cl \in deadc THEN disturb(rq[q]) ELSE rq[q]]
  /\ UNCHANGED <<deadc, dialled, reboots, sticky>>

works(r) == rq[r].cl \in openc \ deadc /\ r \notin Refused

(* markSticky: later requests of the proxy skip the direct dial.            *)
channelOpens(r) ==
  /\ rq[r].pc = "channel" /\ works(r)
  /\ sticky' = TRUE
  /\ rq' = [rq EXCEPT ![r].pc = "copy"]
  /\ UNCHANGED <<cached, openc, deadc, dialled, reboots>>

(* Only the connection that failed is evicted.                              *)
evict(r) == IF cached = rq[r].cl THEN 0 ELSE cached

(* Mutant: a request is given one attempt.                                  *)
retryNever(r) == FALSE

retryOnce(r) == ~rq[r].again

(* The channel is not opened: dropSSHTunnelClient, and once more.           *)
channelFails(r) ==
  /\ rq[r].pc = "channel" /\ ~works(r)
  /\ cached' = evict(r)
  /\ openc' = openc \ {rq[r].cl}
  /\ rq' = [q \in Requests |->
       IF q = r THEN IF retryOnce(r)
                     THEN [rq[r] EXCEPT !.pc = "lookup", !.cl = 0, !.again = TRUE]
                     ELSE [rq[r] EXCEPT !.pc = "done", !.cl = 0, !.res = "error"]
       ELSE disturb(rq[q])]
  /\ UNCHANGED <<deadc, dialled, reboots, sticky>>

(* The pair is torn down when either side ends.                             *)
copyEnds(r) ==
  /\ rq[r].pc = "copy"
  /\ rq' = [rq EXCEPT ![r].pc = "done", ![r].cl = 0, ![r].res = "served"]
  /\ UNCHANGED <<cached, openc, deadc, dialled, reboots, sticky>>

guestReboots ==
  /\ reboots < MaxReboots
  /\ reboots' = reboots + 1
  /\ deadc' = openc
  /\ rq' = [q \in Requests |-> disturb(rq[q])]
  /\ UNCHANGED <<cached, openc, dialled, sticky>>

-----------------------------------------------------------------------------
ClientInit ==
  /\ cached = 0 /\ openc = {} /\ deadc = {} /\ dialled = 0 /\ reboots = 0
  /\ sticky = FALSE
  /\ rq = [r \in Requests |-> Request0]

request(r) ==
  forward(r) \/ lookupClient(r) \/ dialSSH(r) \/ dialFails(r) \/ publish(r)
    \/ channelOpens(r) \/ channelFails(r) \/ copyEnds(r)

ClientNext == guestReboots \/ \E r \in Requests : request(r)

ClientSpec == ClientInit /\ [][ClientNext]_clientVars

-----------------------------------------------------------------------------
(* Properties.                                                              *)

(* No SSH connection is leaked: one that is open is the shared one, or      *)
(* a request still holds it.  Two requests may dial at the same time and    *)
(* two may find the same connection broken (sshTunnelClient: "keep the      *)
(* first and discard the duplicate rather than leaking it").                *)
NoClientLeaked ==
  \A c \in openc : c = cached \/ \E r \in Requests : rq[r].pc = "publish" /\ rq[r].cl = c

(* A request for a service that answers is only refused when the guest      *)
(* could not be resolved or dialled, or when, while it was being served, a  *)
(* reboot or another request's drop broke its connection or another request *)
(* published a broken one: a connection that died earlier is replaced       *)
(* (sshFallbackDialer: "retry once so a rebooted VM recovers without a      *)
(* daemon restart").                                                        *)
RecoversFromReboot ==
  [][\A r \in Requests \ Refused :
       channelFails(r) /\ rq'[r].res = "error" => rq[r].disturbed]_clientVars

=============================================================================
