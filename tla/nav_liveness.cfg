\* Two gotos on a page that may swap its frame, one caller impatient: the line a page
\* promises, and, for a Handler that goes on being polled, an end to every goto.
SPECIFICATION FairSpec
CONSTANTS
  Calls = {c1, c2}
  PageLoaders = {}
  Impatient = {c1}
  MayDie = FALSE
  MayExpire = TRUE
  MaxPushes = 0
  MaxSwaps = 1
  MaxInbox = 1
PROPERTIES
  ImplementsNavigationQueue
  EveryGotoResolves
