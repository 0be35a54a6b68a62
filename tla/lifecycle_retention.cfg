\* Two handlers on one revision and its file, rendered up to twice.
SPECIFICATION Spec
CONSTANTS
  None = None
  Threads = {t1, t2}
  Documents = {d1}
  Snapshots = {s1}
  KindOf <- OneKind
  Contents = {b1}
  RecordBound = 3
  RenderBound = 2
  AbortBound = 1
SYMMETRY Alike
INVARIANTS TypeOK
PROPERTIES LostFilesAreTakenUp
