SPECIFICATION Spec
CONSTANTS
  Lines <- ConsoleLines
  ReadyPids = {1, 2, 3}
  ChanCap = 1
  MaxEvents = 2
  Calls = {c1, c2}
  Powerdowns = {c2}
  Servers = {d1, d2}
  NoServer = NoServer
  MaxServes = 2
  HostVMs = {a, b}
  AutoStart = {a}
  MaxHostSteps = 3
  MaxFaults = 1
  Watchers = {w1}
  VsockPorts = {1}
  MaxRuns = 2
INVARIANTS
  NothingLeftBehind ExitedIsTrue RoutedOnce NoVMCutOff ReasonIsTrue
PROPERTIES
   WaitsEnd CallsReturn InhibitorServes StopsAreNoticed
CHECK_DEADLOCK FALSE
