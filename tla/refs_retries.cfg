SPECIFICATION FairSpec
CONSTANTS
  A = A
  B = B
  pa = pa
  pb = pb
  pw = pw
  MaxCommits = 5
  Repo = {A, B}
  Proc = {pa, pb}
  Home <- HomeOf
  Founder = A
  Start = "founded"
  MaxEdits = 3
  MaxFaults = 2
  Faulty = {"commit", "push"}
PROPERTIES BranchesDelivered
CHECK_DEADLOCK FALSE
