\* No failure loses a submission, and every program ends.
\* The system stops once every submission is decided.
SPECIFICATION FairSpec
CONSTANTS
  s1 = s1
  s2 = s2
  w1 = w1
  w2 = w2
  Submissions = {s1, s2}
  Workers = {w1, w2}
  Languages = {2, 3}
  MaxRetries = 1
  Faults = {"xaddLost", "ack", "fetch", "execute"}
INVARIANT ProcessingHasOwner
PROPERTY AcceptedIsDecided
CHECK_DEADLOCK FALSE
