CONSTANTS
  Callers = {c1, c2}
  NoCaller = NoCaller
  MaxCommands = 4
  MaxEvents = 2
  ProxyVMs = {a, b}
  Bridged = {a}
  ProxyPorts = {1, 2}
  NoProxyVM = NoProxyVM
  MaxBoots = 2
  MaxAsides = 1
SPECIFICATION DaemonSpec
INVARIANTS TypeOK LagBounded DrainResynchronises PortRecordsKept
PROPERTIES ResponseTakenOnce CallsReturn ProxiesAppear
CHECK_DEADLOCK FALSE
