SPECIFICATION Spec
CONSTANTS
  A = A
  B = B
  pa = pa
  pb = pb
  pw = pw
  MaxCommits = 6
  Repo = {A, B}
  Proc = {pa, pb}
  Home <- HomeOf
  Founder = A
  Start = "founded"
  MaxEdits = 4
  MaxFaults = 2
  Faulty = {"commit", "push", "pull"}
INVARIANTS TypeOK NeverStranded RemoteHistoryComplete
PROPERTIES RefAdvances LocalTipAdvances
CHECK_DEADLOCK FALSE
