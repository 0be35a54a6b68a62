\* The claim SnapshotIsKept, which the code does not keep.
CONSTANTS
  h1 = h1
  h2 = h2
  s1 = s1
  s2 = s2
  raw = raw
  corrected = corrected
  None = None
  Handlers = {h1, h2}
  Creators = {h1, h2}
  Promoters = {h1, h2}
  Restorers = {h2}
  Sessions = {s1, s2}
  First = s1
  Contexts = {raw, corrected}
  Raw = raw
  Kept = 1
  IdBound = 2
SPECIFICATION Spec
CHECK_DEADLOCK FALSE
INVARIANT SnapshotIsKept
