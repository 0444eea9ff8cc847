\* Every failure but a repeated XADD.
SPECIFICATION Spec
CONSTANTS
  s1 = s1
  s2 = s2
  w1 = w1
  w2 = w2
  Submissions = {s1, s2}
  Workers = {w1, w2}
  Languages = {0, 2, 3}
  MaxRetries = 1
  Faults = {"insertLost", "xadd", "xaddLost", "readLost", "ack", "load", "fetch",
            "execute", "hang", "update", "crash", "flush"}
INVARIANTS TypeOK JudgedAtMostOnce
PROPERTY LifecycleSpec
