\* fetch_targets attaches twice to a tab; one of its sessions is detached.
SPECIFICATION Spec
CONSTANTS
  Callers = {c1}
  Tabs = {t1}
  Sessions = {s1, s2, s3}
  Viewport = FALSE
  OpenAtStart = {t1}
  MaxFetches = 1
  MaxDetaches = 1
  MayClose = FALSE
  Deadlines = FALSE
PROPERTIES
  DetachedSessionOnly
