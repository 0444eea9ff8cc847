\* One user, who also comes without a session, one handler and one worker.  The
\* system code is edited; test cases and starter code have no part in an error.
\* The run has no end: a client can always ask again.
SPECIFICATION Spec
CONSTANTS
  u1 = u1
  h1 = h1
  w1 = w1
  Users = {u1}
  Handlers = {h1}
  Workers = {w1}
  Ttl = 2
  MaxSpent = 1
  Editable = {"system_code"}
  Faults = {"cache", "mysql"}
INVARIANTS TypeOK AnswersAreRecent AbsenceIsFresh SolvedIsOwn
