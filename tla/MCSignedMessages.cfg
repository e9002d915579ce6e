\* Allowances and signed messages: two users, one block, two nonces each and deadlines before and at it.
CONSTANTS
  Users = {u1, u2}
  Rich = {u1}
  THIS = this
  REWARDS_VAULT = vault
  ZERO_ADDRESS = zero
  STAKED_TOKEN = lay
  REWARD_TOKEN = lay
  InitialLedger <- MCInitialLedger
  MAX_UINT = 2
  UserTokens = 1
  LastCooldown = 0
  MaxGranted = 3
  MaxDelegations = 2
  COOLDOWN_SECONDS = 0
  UNSTAKE_WINDOW = 2
  DISTRIBUTION_END = 0
  SCALE = 10
  START = 3
  MAX_TIME = 3
  Amounts = {1}
  Emissions = {0}
  Nonces = {0, 1}
  Deadlines = {2, 3}
CONSTRAINTS
  FewCooldowns
  FewGrants
  FewDelegations
VIEW MandateView
SPECIFICATION SignedSpec
INVARIANTS
  SpentWithinGrants
  MessagesInOrder
