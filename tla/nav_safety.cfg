\* Two concurrent gotos, a page that navigates, pushes history and swaps its
\* main frame by itself, a target that may die, deadlines that may pass.
SPECIFICATION Spec
CONSTANTS
  Calls = {c1, c2}
  PageLoaders = {p1}
  Impatient = {}
  MayDie = TRUE
  MayExpire = TRUE
  MaxPushes = 1
  MaxSwaps = 1
  MaxInbox = 1
INVARIANTS
  TypeOK
  EntriesAreServed
  CallersAreHeld
  UndisturbedGotoLoadsItsDocument
SYMMETRY CallSymmetry
