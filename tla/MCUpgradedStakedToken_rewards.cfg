\* Rewards across an upgrade that extends the distribution, before its end and after it.
CONSTANTS
  Users = {u1, u2}
  Rich = {u1, u2}
  THIS = this
  REWARDS_VAULT = vault
  ZERO_ADDRESS = zero
  STAKED_TOKEN = lay
  REWARD_TOKEN = lay
  InitialLedger <- MCInitialLedger
  MAX_UINT = 9999
  UserTokens = 1
  VaultTokens = 1
  LastCooldown = 3
  MaxDelegations = 0
  COOLDOWN_SECONDS = 0
  UNSTAKE_WINDOW = 1
  DISTRIBUTION_END_V1 = 4
  DISTRIBUTION_END = 6
  SCALE = 3
  START = 3
  MAX_TIME = 7
  Amounts = {1}
  Emissions = {1}
  Revisions = {4}
CONSTRAINTS
  FewCooldowns
  FewDelegations
VIEW RewardView
SYMMETRY UserSymmetry
SPECIFICATION Spec
INVARIANTS
  SolventThroughUpgrade
