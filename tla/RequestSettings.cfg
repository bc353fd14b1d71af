SPECIFICATION Spec
CONSTANTS
  PRs = {p1, p2}
  Requests = {q1, q2}
  None = none
  Files = {{}, {"knob", "pushes"}, {"ignore_title", "pushes"}, {"ignore_labels"}, {"knob", "quiet", "pushes"}}
  Commands = 2
  MaxFailures = 1
INVARIANTS
  OwnSettings
PROPERTIES
  FilePrevails
  Permitted
