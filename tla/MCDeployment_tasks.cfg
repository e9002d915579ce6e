\* Tasks again and again, at once, by two accounts, by hand, and with less than they need.
SPECIFICATION MCSpec
CONSTANTS
  Scenarios = {"again", "together", "accounts", "upgrades", "single"}
  Operators = {"alice", "bob"}
  Network = "kovan"
  Signers = {"operations", "stranger"}
  Requests <- AllRequests
  MaxRuns = 3
CHECK_DEADLOCK FALSE
INVARIANTS TypeOK RunsWhatItWasInitialisedFor
PROPERTIES DoneMeansDeployed RerunRecovers LifecycleHolds EveryRunEnds
