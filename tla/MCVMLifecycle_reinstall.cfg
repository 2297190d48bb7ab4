CONSTANTS
  Pids = {p1, p2, p3}
  NoPid = NoPid
  Sessions = {s1}
  Daemon = Daemon
  Reboot = Reboot
  WithDaemon = TRUE
  AutoStart = TRUE
  SkipInstall = FALSE
  MaxOps = 0
  MaxFaults = 1
SPECIFICATION Spec
PROPERTY InstallNotRepeated
CHECK_DEADLOCK FALSE
