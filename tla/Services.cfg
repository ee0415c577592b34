CONSTANTS
  Scenarios = {"events", "stdin", "server", "owner", "channels", "acquisition", "mux", "adapter",
               "files", "walk", "streams", "environment", "keyboard", "paths", "tools",
               "application", "service"}
  Profiles = {"static", "direct", "tty", "host", "hostpty"}
  MaxOutput = 3
  QueueCapacity = 2
  RetainedChunks = 2
  w1 = w1
  w2 = w2
  w3 = w3
  Writes = {w1, w2, w3}
  StdinCapacity = 1
  RetainedIds = 1
  MaxCommands = 2
  Ids = {i1, i2}
  BackendFeatures = {}
  MaxInFlight = 1
  OutCapacity = 1
  MaxFrames = 5
  l1 = l1
  l2 = l2
  Launches = {l1, l2}
  Nobody = Nobody
  Helper = Helper
  Origins <- MCOrigins
  MaxSerial = 2
  MaxBoot = 1
  ChannelKinds = {"files", "bootstrap", "v2"}
  MaxNumber = 3
  MaxPending = 2
  LinkCapacity = 2
  MaxFromServer = 1
  MaxFromClient = 2
  Threads = {t1}
  Cwds = {d, a}
  DefaultCwd = d
  Nowhere = Nowhere
  MaxRequests = 2
  Names = {"a", ".git"}
  MaxDepth = 2
  MaxEntries = 3
  FileBackends = {"managed", "ordinary"}
  HandleIds = {"h1", "h2", "h3"}
  Descriptors = {7, 8, 9}
  MaxHandles = 2
  WorkSteps = 3
  Alphabet = {"a", "B"}
  MaxPattern = 4
  MaxName = 3
  Variables = {"PATH", "API_KEY", "NODE_REPL_AUTH_TOKEN", "EDITOR"}
  Documents = {c1, c2}
  MaxSignals = 2
  MaxAttach = 2
  MaxEvents = 2
  MaxFailures = 2
  MaxRuns = 2
  MaxGenerations = 2
  MaxSockets = 2
SPECIFICATION Spec
INVARIANTS
  ProcessStreamsAreExact
  
  OwnershipIsExclusive
  
  AlgorithmsAreExact
  WorkIsOwned
  
  MeasurementIsSound
  EvidenceIsSound
  
PROPERTIES
  FileChangesAreSound
  KeepsTheirs
  
CHECK_DEADLOCK FALSE
