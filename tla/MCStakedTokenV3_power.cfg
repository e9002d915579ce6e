\* Delegated power of three users in one block, and its history over three with two.
CONSTANTS
  Users = {u1, u2, u3}
  Rich = {u1}
  THIS = this
  REWARDS_VAULT = vault
  ZERO_ADDRESS = zero
  STAKED_TOKEN = lay
  REWARD_TOKEN = lay
  InitialLedger <- MCInitialLedger
  MAX_UINT = 1
  UserTokens = 1
  LastCooldown = 3
  MaxDelegations = 6
  MaxLater = 1
  COOLDOWN_SECONDS = 0
  UNSTAKE_WINDOW = 2
  DISTRIBUTION_END = 0
  SCALE = 10
  START = 3
  MAX_TIME = 5
  Amounts = {1}
  Emissions = {0}
CONSTRAINTS
  FewCooldowns
  FewDelegations
VIEW PowerView
SYMMETRY UserSymmetry
SPECIFICATION Spec
INVARIANTS
  PowerIsDelegatedStake
  PowerAtBlockIsHistory
  DelegationNeverBlocks
