CONSTANTS
  Pids = {p1, p2, p3}
  NoPid = NoPid
  Sessions = {s1}
  Daemon = Daemon
  Reboot = Reboot
  WithDaemon = TRUE
  AutoStart = TRUE
  SkipInstall = FALSE
  MaxOps = 1
  MaxFaults = 0
SPECIFICATION Spec
PROPERTY DaemonHonoursUserStop
CHECK_DEADLOCK FALSE
