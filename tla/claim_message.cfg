\* No failure of the environment: the program does not build.
SPECIFICATION Spec
CONSTANTS
  s1 = s1
  s2 = s2
  w1 = w1
  Submissions = {s1}
  Workers = {w1}
  Languages = {2}
  MaxRetries = 3
  Faults = {}
INVARIANT CompilationErrorHasOutput
CHECK_DEADLOCK FALSE
