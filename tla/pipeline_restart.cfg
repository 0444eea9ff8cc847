\* The process dies and is restarted any number of times, with entries waiting
\* behind the one that the only worker holds; an id may be queued twice.
SPECIFICATION FairSpec
CONSTANTS
  s1 = s1
  s2 = s2
  w1 = w1
  Submissions = {s1, s2}
  Workers = {w1}
  Languages = {2}
  MaxRetries = 1
  Faults = {"crash", "ack", "load", "update", "xaddRetry"}
PROPERTY QueuedIsPickedUp
