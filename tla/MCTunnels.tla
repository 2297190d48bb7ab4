------------------------------ MODULE MCTunnels -----------------------------
(* Tunnels for TLC: two VMs that publish the same service name, as HTTP on  *)
(* port 80, as HTTPS on port 443 or as raw TCP on port 80.                  *)
EXTENDS Tunnels

CONSTANTS http, https, tcp

MCGuestPort == [g \in GuestServices |-> IF g = https THEN 443 ELSE 80]
=============================================================================
