\* One call to a browser that falls silent, a socket that stays open.
SPECIFICATION TaskSpec
CONSTANTS
  Calls = {c1}
  Closes = {}
  Discover = discover
  MayClose = FALSE
  MayDrop = FALSE
PROPERTIES
  TimedOutCallsEnd
CHECK_DEADLOCK FALSE
