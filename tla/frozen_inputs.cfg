\* Two builds of one run, or two exports of one figure with two profiles; any of them may
\* die anywhere.
SPECIFICATION Spec
CONSTANTS
  b1 = b1
  b2 = b2
  p1 = p1
  p2 = p2
  c1 = c1
  c2 = c2
  body1 = body1
  body2 = body2
  k1 = k1
  r1 = r1
  f1 = f1
  q1 = q1
  q2 = q2
  None = None
  Contexts = {c1, c2}
  First = c1
  PinnedTo <- NamesOne
  Builders = {b1, b2}
  Printers = {p1, p2}
  Bodies = {body1, body2}
  Keys = {k1}
  Results = {r1}
  Figures = {f1}
  Profiles = {q1, q2}
  EventBound = 3
  BuildBound = 2
  InputBound = 2
CONSTRAINT Apart
SYMMETRY Alike
INVARIANTS SnapshotIsOfOneMoment AnswerIsWhatWasAsked PrintRevisionsInOrder
