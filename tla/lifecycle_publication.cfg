\* Two handlers on two revisions of one document, which have no files.
SPECIFICATION Spec
CONSTANTS
  None = None
  Threads = {t1, t2}
  Documents = {d1}
  Snapshots = {s1, s2}
  KindOf <- OneKind
  Contents = {b1}
  RecordBound = 3
  RenderBound = 0
  AbortBound = 1
SYMMETRY Alike
INVARIANTS PublishedWasApproved NothingUnaudited DecisionsAreBound VersionsInOrder SupersededHasSuccessor
