\* The process dies while a worker holds an acknowledged entry.
SPECIFICATION FairSpec
CONSTANTS
  s1 = s1
  s2 = s2
  w1 = w1
  Submissions = {s1}
  Workers = {w1}
  Languages = {1}
  MaxRetries = 3
  Faults = {"crash"}
PROPERTY AcceptedIsDecided
CHECK_DEADLOCK FALSE
