SPECIFICATION Spec
CONSTANTS
  o1 = o1
  o2 = o2
  t1 = t1
  t2 = t2
  c1 = c1
  c2 = c2
  Object = {o1, o2}
  Tree = {t1, t2}
  Commit = {c1, c2}
  Sweeper = {"gc"}
  Leaves <- SharedLeaves
  Kids <- SharedKids
  Root <- SharedRoot
  Extra <- NoExtra
  Collide = {o2}
  Grace = 1
  MaxTime = 2
  MaxFaults = 0
  PromptPush = FALSE
INVARIANTS TreeRowsClosed GraceGuarantee
PROPERTIES SettledStaysSettled
