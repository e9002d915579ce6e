\* Two depositors, two aTokens, three blocks up to the end of the distribution.
CONSTANTS
  Users = {u1, u2}
  Assets = {aDai, aWeth}
  Recipients = {wallet}
  PSM = psm
  REWARDS_VAULT = vault
  EXTRA_PSM_REWARD = 100
  VaultTokens = 2
  DISTRIBUTION_END = 3
  SCALE = 3
  START = 1
  MAX_TIME = 3
  Balances = {0, 1}
  Amounts = {1, 99}
  Emissions = {1}
  AssetLists <- MCAssetLists
SYMMETRY ControllerSymmetry
SPECIFICATION Spec
INVARIANTS
  WithinEmission
  ViewIsWhatAClaimGives
PROPERTIES
  EarnedIsKept
