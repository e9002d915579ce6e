\* Power and its history, across the upgrade of the first implementation.
CONSTANTS
  Users = {u1, u2}
  Rich = {u1}
  THIS = this
  REWARDS_VAULT = vault
  ZERO_ADDRESS = zero
  STAKED_TOKEN = lay
  REWARD_TOKEN = lay
  InitialLedger <- MCInitialLedger
  MAX_UINT = 1
  UserTokens = 1
  VaultTokens = 0
  LastCooldown = 3
  MaxDelegations = 2
  COOLDOWN_SECONDS = 0
  UNSTAKE_WINDOW = 2
  DISTRIBUTION_END_V1 = 0
  DISTRIBUTION_END = 0
  SCALE = 10
  START = 3
  MAX_TIME = 5
  Amounts = {1}
  Emissions = {0}
  Revisions = {4}
CONSTRAINTS
  FewCooldowns
  FewDelegations
VIEW PowerView
SPECIFICATION Spec
INVARIANTS
  PowerSurvivesUpgrade
  VotesAtBlockAreHistory
PROPERTY
  FinishedBlocksAreFinal
