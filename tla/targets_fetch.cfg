\* fetch_targets at any point of a new_page: the target is replaced and attached to
\* three times.
SPECIFICATION FairSpec
CONSTANTS
  Callers = {c1}
  Tabs = {t1}
  Sessions = {s1, s2, s3}
  Viewport = TRUE
  OpenAtStart = {}
  MaxFetches = 1
  MaxDetaches = 0
  MayClose = FALSE
  Deadlines = FALSE
INVARIANTS
  TrackedAreServed
  InitializedIsSetUp
PROPERTIES
  PagesAreReady
  NewPageResolves
