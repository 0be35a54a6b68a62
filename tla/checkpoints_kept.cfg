\* One handler creates and promotes, the other restores; two checkpoints, one kept snapshot,
\* two sessions and two contexts; the sweep runs beside them.
CONSTANTS
  h1 = h1
  h2 = h2
  s1 = s1
  s2 = s2
  raw = raw
  corrected = corrected
  None = None
  Handlers = {h1, h2}
  Creators = {h1}
  Promoters = {h1}
  Restorers = {h2}
  Sessions = {s1, s2}
  First = s1
  Contexts = {raw, corrected}
  Raw = raw
  Kept = 1
  IdBound = 2
SPECIFICATION FairSpec
CHECK_DEADLOCK FALSE
INVARIANTS SnapshotIsOfItsContext
PROPERTIES ContextIsNotUndone OrphansAreSwept
