SPECIFICATION Spec
CONSTANTS
  Procs <- TwoProcs
  Code <- TheCode
  Scenarios <- TheScenarios
  MaxFaults = 2
  Hosts <- TheHosts
  Asks <- TheAsks
  Requests = {r1, r2, r3}
  Refused = {r3}
  MaxClients = 2
  MaxReboots = 1
  TermOrder <- TheTermOrder
  MaxFlight = 3
  MaxPolls = 2
  FormTemplates <- TheFormTemplates
  FormAware = {"devbox"}
  FormDistros <- TheFormDistros
  FormVersions <- TheFormVersions
  FormHosts <- TheFormHosts
  MaxGiven = 2
  EditLoads <- TheEditLoads
  EditDevs <- TheEditDevs
  MaxEdits = 2
  MaxSaves = 1
  WizardGPUs = {2}
  WizardNVMes = {2}
  PickTrees <- ThePickTrees
  HostDirs <- TheHostDirs
  HostUp <- TheHostUp
  DotDirs = {".b"}
  PageHeight = 2
INVARIANTS
  MacGuestUsable NamedIsWhole SecretsOpen GuestFindsItsDisk HostKept KillSwitchHolds
  GuestsComeUpWhole MachineFitsGuest RequestReachesGuest NoClientLeaked
  TerminalKeepsUp FormsHold
PROPERTIES
  ResultsAreTrue IdentityIsAtomic RecoversFromReboot
CHECK_DEADLOCK FALSE
