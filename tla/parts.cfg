SPECIFICATION PartsSpec
CONSTANTS
  FirstMain = m
  OtherMains = {n}
  SubFrames = {a, b}
  Contexts = {x, y}
  MaxPageSteps = 5
  MaxInFlight = 2
  Requests = {"r", "d"}
  DataRequests = {"d"}
  Modes = {"manager", "authenticate", "config", "intercept", "proxyAuth"}
  MaxHops = 2
  MaxTries = 2
  MaxInbox = 2
  Methods <- AllMethods
  MaxCalls = 2
  MaxDoc = 2
  Kinds = {"response", "download", "loadState", "popup", "dialog"}
  Items = {"i", "j"}
  BrowserContexts = {"c", "d", "e"}
  FromConfig = {"e"}
  MaxLines = 2
  MaxTargets = 2
  UserArgs <- MCUserArgs
  Installed <- Executables
  MaxSetters = 3
  Fetches = {"f", "g"}
  Options <- MCOptions
  Releases <- MCReleases
  LastChange = 1600000
  Entries <- MCEntries
  Clients = {"c", "d"}
  MaxRequests = 2
INVARIANTS
  PartsTypeOK
  TreeIsWellFormed
  TreeMirrorsPage
  ContextsAreLive
  PairedWithOwnHop
  EveryRequestIsReportedOnce
  NothingIsLeftUndone
  NothingStaysBehind
  HandlesAgree
  ScriptsRunWhereAsked
  WaitsReturnTheirOwn
  DialogsAreAnswered
  LaunchCleansUp
  TargetsKnowTheirContext
  SwitchesGoTogether
  InstallationIsWhole
  ClientsAreToldTheTruth
CHECK_DEADLOCK FALSE
