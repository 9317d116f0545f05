\* One new_page through every stage, every refusal and every deadline.
SPECIFICATION FairSpec
CONSTANTS
  Callers = {c1}
  Tabs = {t1}
  Sessions = {s1}
  Viewport = TRUE
  OpenAtStart = {}
  MaxFetches = 0
  MaxDetaches = 1
  MayClose = TRUE
  Deadlines = TRUE
INVARIANTS
  TypeOK
PROPERTY NewPageResolves
