SPECIFICATION NetworkSpec
CONSTANTS
  Requests = {r}
  DataRequests = {}
  Modes = {"proxyAuth"}
  MaxHops = 2
  MaxTries = 2
  MaxInbox = 2
INVARIANT ProxyAuthLetsRequestsPass
CHECK_DEADLOCK FALSE
