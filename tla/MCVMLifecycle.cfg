CONSTANTS
  Pids = {p1, p2}
  NoPid = NoPid
  Sessions = {s1}
  Daemon = Daemon
  Reboot = Reboot
  WithDaemon = TRUE
  AutoStart = TRUE
  SkipInstall = FALSE
  MaxOps = 2
  MaxFaults = 1
SPECIFICATION Spec
SYMMETRY Symmetry
INVARIANTS TypeOK NoOrphan
PROPERTY ParkedStays
CHECK_DEADLOCK FALSE
