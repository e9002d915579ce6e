\* The redemption window: no emission, more time.
CONSTANTS
  Users = {u1, u2}
  THIS = this
  REWARDS_VAULT = vault
  ZERO_ADDRESS = zero
  STAKED_TOKEN = lay
  REWARD_TOKEN = lay
  InitialLedger <- MCInitialLedger
  InitialHook <- NoHook
  BeforeTokenTransfer <- MCBeforeTokenTransfer
  MAX_UINT = 9999
  UserTokens = 2
  VaultTokens = 0
  COOLDOWN_SECONDS = 2
  UNSTAKE_WINDOW = 1
  DISTRIBUTION_END = 0
  SCALE = 10
  START = 4
  MAX_TIME = 10
  Amounts = {0, 1, 2}
  Emissions = {0}
SYMMETRY UserSymmetry
SPECIFICATION Spec
INVARIANTS
  TypeOK
  Backed
  CooldownOfStake
PROPERTIES
  RedeemWaits
  CooldownOnlyPostponed
