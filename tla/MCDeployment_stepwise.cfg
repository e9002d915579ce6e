SPECIFICATION MCSpec
CONSTANTS
  Scenarios = {"stepwise"}
  Operators = {"alice", "bob"}
  Network = "kovan"
  Signers = {"operations", "stranger"}
  Requests <- AllRequests
  MaxRuns = 3
CHECK_DEADLOCK FALSE
PROPERTY FinishedMeansUpgraded
