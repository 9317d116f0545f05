\* Two gotos, no deadline passing: the second is answered by the first's load.
SPECIFICATION Spec
CONSTANTS
  Calls = {c1, c2}
  PageLoaders = {}
  Impatient = {}
  MayDie = FALSE
  MayExpire = FALSE
  MaxPushes = 0
  MaxSwaps = 0
  MaxInbox = 2
INVARIANT GotoResolvesAfterLoad
