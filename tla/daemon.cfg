SPECIFICATION DmSpec
CONSTANTS
  Caller = {"n", "p"}
  Native = {"n"}
  Daemon = {1, 2}
  NoDaemon = 0
  MaxErrors = 1
  MaxCodeEdits = 1
INVARIANT RerunOnlyAfterLoss
PROPERTY EveryCommandReturns
CHECK_DEADLOCK FALSE
