\* An execute and a close, a browser that answers in any order or not at all, a
\* socket that may close, a Handler that may be dropped.
SPECIFICATION TaskSpec
CONSTANTS
  Calls = {c1, c2}
  Closes = {c2}
  Discover = discover
  MayClose = TRUE
  MayDrop = TRUE
INVARIANTS
  TypeOK
  OwnResponseOnly
  CallersAreHeld
PROPERTIES
  ImplementsFifo
  EveryCallResolves
CHECK_DEADLOCK FALSE
