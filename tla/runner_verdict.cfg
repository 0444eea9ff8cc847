\* Two submissions side by side, each called once.
\* The system stops when the calls are used up.
SPECIFICATION Spec
CONSTANTS
  w1 = w1
  w2 = w2
  s1 = s1
  s2 = s2
  c1 = c1
  c2 = c2
  Workers = {w1, w2}
  Submissions = {s1, s2}
  Containers = {c1, c2}
  MaxRetries = 1
  MaxTests = 2
  Faults = {"disk", "docker", "hang", "crash"}
INVARIANTS VerdictIsEarned NothingLeftBehind
CHECK_DEADLOCK FALSE
SYMMETRY Symmetry
