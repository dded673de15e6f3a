\* The other components beside the control path, with all that may go wrong around them.
SPECIFICATION MCSpec
CONSTANTS
  Exercised = {"supervisor", "client", "manager", "worker", "web", "configuration", "polling", "collector", "cycles", "metering", "subs", "chain", "poller", "registration", "mailbox", "recorders", "writers", "target", "notifications", "reporting"}
  OnlyOrderly = FALSE
  Order <- MCOrder
  MaxRestarts = 1
  Threshold = 1
  MaxAttempts = 1
  First = "first"
  CmCallers = {"a"}
  CmThreads = {"t1", "t2"}
  WmThreads = {"t1", "t2"}
  NoThread = "none"
  NoWorker = "none"
  PwThreads = {"t1", "t2"}
  PwTargets <- MCTargets
  NoPoller = "none"
  UnstableThreshold = 2
  DegradedThreshold = 3
  MaxDelay = 2
  MaxSoc = 3
  Full = 2
  MaxCycles = 3
  MaxFaults = 3
  Keys = {"power", "timestamp"}
  RequiredKeys = {"power"}
  PartialThreshold = 2
  SbIds = {"s"}
  Hrefs = {"h1", "h2"}
  NoHref = "none"
  ChFsas = {"f1", "f2"}
  ChNames = {"n1"}
  ChTasks = {"t1"}
  ChEvents = 3
  Main = "main"
  CpControls = {"c1", "c2", "c3"}
  Retention = 2
  CpStops = 2
  XaCommands = 2
  History = 1
  XaSocs = {"low", "high"}
  HiIds = {"a", "b", "c"}
  HiMax = 1
  HiRecords = 4
  HiThreads = {"t1", "t2"}
  Devices = {"e1", "e2", "e3"}
  Nothing = "none"
  RgFaults = 3
  RgStarts = 3
  WordSize = 4
  RwValues <- MCValues
  RwCallers = {"a", "b"}
  PtNumbers = {0, 1, 3}
  PtLimits <- MCLimits
  PtPolls = 3
  WbThreads = {"t1", "t2"}
  WbSaves = 1
  WbRequests = 3
  Tokens = {"k1", "k2"}
  Hosts = {"here", "there"}
  NoToken = "none"
  CfChanges = 2
  NpTasks = {"r1", "r2"}
  NpRequests = 3
  NpStarts = 2
  Racks = {"k1", "k2"}
  RpRounds = 3
  RpRestarts = 1
  MaxLosses = 2
INVARIANTS MCTypeOK ManagersSafe SubscriptionsSafe SupSafe BmsSafe MessagesSafe HealthIsTrue MridsBelong PollerSafe RegistrationSafe SiteSafe
PROPERTIES CyclesSafe
CHECK_DEADLOCK FALSE
