CONSTANTS
  http = http
  https = https
  tcp = tcp
  VMs = {1}
  Services = {1}
  GuestServices = {http, https, tcp}
  GuestPort <- MCGuestPort
  HTTPServices = {http, https}
  PortRange = {2300}
  Ephemeral = {40000, 40001}
  Ticker = Ticker
  Commands = {c1}
  NoThread = NoThread
  MaxOps = 2
  MaxFaults = 2
SPECIFICATION Spec
INVARIANT AllocatedInRange
