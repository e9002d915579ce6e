\* The accrual of rewards, across the end of the distribution.
CONSTANTS
  Users = {u1, u2}
  THIS = this
  REWARDS_VAULT = vault
  ZERO_ADDRESS = zero
  STAKED_TOKEN = lay
  REWARD_TOKEN = lay
  InitialLedger <- MCInitialLedger
  InitialHook <- NoHook
  BeforeTokenTransfer <- MCBeforeTokenTransfer
  MAX_UINT = 9999
  UserTokens = 1
  VaultTokens = 1
  COOLDOWN_SECONDS = 0
  UNSTAKE_WINDOW = 1
  DISTRIBUTION_END = 6
  SCALE = 3
  START = 3
  MAX_TIME = 7
  Amounts = {1}
  Emissions = {0, 1}
CONSTRAINT EarlyCooldowns
SYMMETRY UserSymmetry
SPECIFICATION Spec
INVARIANTS
  Solvent
PROPERTIES
  KeepsPromise
