SPECIFICATION Spec
CONSTANTS
  Procs <- TwoProcs
  Code <- TheCode
  Scenarios <- TheScenarios
  MaxFaults = 0
  Hosts <- TheHosts
  Asks <- TheAsks
  Requests = {r1}
  Refused = {}
  MaxClients = 1
  MaxReboots = 0
  TermOrder <- TheTermOrder
  MaxFlight = 2
  MaxPolls = 1
  FormTemplates <- TheFormTemplates
  FormAware = {"devbox"}
  FormDistros <- TheFormDistros
  FormVersions <- TheFormVersions
  FormHosts <- TheFormHosts
  MaxGiven = 1
  EditLoads <- TheEditLoads
  EditDevs <- TheEditDevs
  MaxEdits = 1
  MaxSaves = 1
  WizardGPUs = {2}
  WizardNVMes = {2}
  PickTrees <- ThePickTrees
  HostDirs <- TheHostDirs
  HostUp <- TheHostUp
  DotDirs = {".b"}
  PageHeight = 2
INVARIANT
  BIOSImageHasBIOS
CHECK_DEADLOCK FALSE
