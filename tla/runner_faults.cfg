\* One submission, which may be queued twice, judged by two workers, with every
\* failure of Execute and those of the pipeline around it that end or lose a job.
\* The system stops when the entries are used up.
SPECIFICATION ServiceSpec
CONSTANTS
  w1 = w1
  w2 = w2
  s1 = s1
  c1 = c1
  c2 = c2
  Workers = {w1, w2}
  Submissions = {s1}
  Containers = {c1, c2}
  MaxRetries = 1
  MaxTests = 1
  Languages = {1, 2, 3}
  Faults = {"docker", "exec", "cleanup", "hang", "crash", "twice"}
  ServerFaults = {"load", "flush"}
INVARIANTS TypeOK AcceptedIsEarned RowIsDeserved
PROPERTIES PipelineSpec RunnerSpec
CHECK_DEADLOCK FALSE
SYMMETRY Symmetry
