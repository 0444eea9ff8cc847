\* As many programs that do not end as there are workers.
SPECIFICATION FairSpec
CONSTANTS
  s1 = s1
  s2 = s2
  w1 = w1
  Submissions = {s1, s2}
  Workers = {w1}
  Languages = {1}
  MaxRetries = 3
  Faults = {"hang"}
PROPERTY HangIsIsolated
CHECK_DEADLOCK FALSE
