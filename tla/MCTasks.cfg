\* Verifications, rehearsals on forks of both kinds, rounds of redemptions and deployments of the pool.
SPECIFICATION TasksSpec
CONSTANTS
  Scenarios = {"verification", "rehearsals", "rounds", "pool"}
  Verifications <- Calls
  ContractOf <- SameContract
  NetworkOf <- OneElsewhere
  KeyOf <- OneKeyless
  Times = 4
  Operator = "alice"
  ETHERSCAN_KEY = TRUE
  Forks = {"tenderly", "hardhat"}
  MaxRuns <- FewRuns
  RehearsalTasks <- AllTasks
  VOTING_DURATION <- VotingDuration
  DELAY <- Delay
  GRACE_PERIOD = 4
  MINIMUM_QUORUM <- Quorum
  PROPOSITION_THRESHOLD <- Threshold
  Holdings <- Whales
  HoldersOf <- TwoHolders
  Top = 2
  ROUNDS = 2
  Rethrows = FALSE
  COOLDOWN_SECONDS = 3
  UNSTAKE_WINDOW = 7
  GAPS = {0, 2}
  InitialStake = 2
  Claims = {1}
  PoolNetwork = "main"
  Flags = {TRUE, FALSE}
  MaxPools = 3
  MaxBlocks = 3
CHECK_DEADLOCK FALSE
INVARIANTS
  TasksTypeOK RetriesAreCounted ParametersAtHand UploadsAllInTheEnd
  NothingIsLost
  FindsItsOwnPool StakedPoolsAreClosed
PROPERTIES
  EveryVerificationEnds
  FinishedMeansExecuted RehearsalsKeepTheSchedule EveryRehearsalEnds
  RedeemsInWindow
