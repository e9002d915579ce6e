----------------------- MODULE IncentivesController -----------------------
(***************************************************************************)
(* contracts/stake/IncentivesController.sol: rewards for those who deposit *)
(* in the lending pool.  Every aToken of the pool calls handleAction with  *)
(* the balances from before a change; a user claims over a list of aTokens *)
(* of his choice, in part or in whole, and may have the claim staked.      *)
(*                                                                         *)
(* The aTokens are outside the repository: scaledBalances and              *)
(* scaledTotalSupply are what they answer to getScaledUserBalanceAndSupply.*)
(* A claim that is staked passes through this contract, which keeps none   *)
(* of it, to PSM.stake; psmStake is what was staked for whom, and what the *)
(* PSM does with it is StakedToken!Stake.                                  *)
(***************************************************************************)
EXTENDS DistributionManager, TokenSums, Sequences

CONSTANTS Users, Assets,
          Recipients,        \* the addresses that claims are paid to or staked for
          PSM,               \* the staked token, approved by initialize
          REWARDS_VAULT,     \* has approved THIS for every amount
          EXTRA_PSM_REWARD,  \* percent added to a claim that is staked
          VaultTokens,       \* the rewards in the vault at deployment
          START, MAX_TIME,
          Balances,          \* the balances a user may have of an aToken
          Amounts, Emissions, AssetLists

Accounts == Recipients \cup {PSM, REWARDS_VAULT}

ASSUME IncentivesControllerAssumption ==
  /\ IsFiniteSet(Users) /\ IsFiniteSet(Assets)
  /\ PSM \notin Recipients
  /\ EXTRA_PSM_REWARD \in Nat /\ VaultTokens \in Nat
  /\ START \in Nat /\ MAX_TIME \in Nat
  /\ Balances \subseteq Nat /\ Amounts \subseteq Nat /\ Emissions \subseteq Nat
  /\ AssetLists \subseteq Seq(Assets)

VARIABLES
  assets,                 \* the record of each asset
  usersUnclaimedRewards,
  scaledBalances,         \* of the users of each aToken
  scaledTotalSupply,      \* of each aToken
  rewardToken,            \* the balances of REWARD_TOKEN
  psmStake,               \* staked in the PSM for each recipient
  now,                    \* block.timestamp
  claimed,                \* history: rewards claimed, without what is added for staking
  emitted                 \* history: rewards emitted for each asset while somebody deposits

poolVars == <<scaledBalances, scaledTotalSupply>>
vars == <<assets, usersUnclaimedRewards, poolVars, rewardToken, psmStake, now,
          claimed, emitted>>

Init ==
  /\ assets = [a \in Assets |-> InitAssetData(Users)]
  /\ usersUnclaimedRewards = [u \in Users |-> 0]
  /\ scaledBalances = [a \in Assets |-> [u \in Users |-> 0]]
  /\ scaledTotalSupply = [a \in Assets |-> 0]
  /\ rewardToken = [x \in Accounts |-> IF x = REWARDS_VAULT THEN VaultTokens ELSE 0]
  /\ psmStake = [to \in Recipients |-> 0]
  /\ now = START
  /\ claimed = [u \in Users |-> 0]
  /\ emitted = [a \in Assets |-> 0]

----------------------------------------------------------------------------
(* _claimRewards: the assets of the list one after the other, each with the *)
(* record the earlier ones left.                                            *)

(* Mutant: the records are read before the loop. *)
ClaimOverStale(user, list) ==
  LET after[i \in 0..Len(list)] ==
        IF i = 0 THEN [records |-> assets, accrued |-> 0]
        ELSE LET records == after[i - 1].records
                 a       == list[i]
             IN  [records |-> [records EXCEPT ![a] =
                                 UpdateUserAsset(@, user, scaledTotalSupply[a], now)],
                  accrued |-> after[i - 1].accrued
                                + AccruedRewards(assets[a], user, scaledBalances[a][user],
                                                 scaledTotalSupply[a], now)]
  IN  after[Len(list)]

ClaimOver(user, list) ==
  LET after[i \in 0..Len(list)] ==
        IF i = 0 THEN [records |-> assets, accrued |-> 0]
        ELSE LET records == after[i - 1].records
                 a       == list[i]
             IN  [records |-> [records EXCEPT ![a] =
                                 UpdateUserAsset(@, user, scaledTotalSupply[a], now)],
                  accrued |-> after[i - 1].accrued
                                + AccruedRewards(records[a], user, scaledBalances[a][user],
                                                 scaledTotalSupply[a], now)]
  IN  after[Len(list)]

(* _getUnclaimedRewards: a view, which updates no record on its way. *)
GetUnclaimedRewardsOver(list, user) ==
  LET sum[i \in 0..Len(list)] ==
        IF i = 0 THEN 0
        ELSE sum[i - 1] + GetUnclaimedRewards(assets[list[i]], user,
                                              scaledBalances[list[i]][user],
                                              scaledTotalSupply[list[i]], now)
  IN  sum[Len(list)]

(* Mutant: the view forgets what earlier transactions accrued. *)
GetRewardsBalanceNotYetAccrued(list, user) == GetUnclaimedRewardsOver(list, user)

(* getRewardsBalance, what a wallet shows. *)
GetRewardsBalance(list, user) ==
  usersUnclaimedRewards[user] + GetUnclaimedRewardsOver(list, user)

----------------------------------------------------------------------------
(* Transactions. *)

(* A deposit to or a withdrawal from the lending pool: the aToken calls     *)
(* handleAction with the balance and the supply it had.                     *)
HandleAction(a, user, newBalance) ==
  /\ assets' = [assets EXCEPT ![a] = UpdateUserAsset(@, user, scaledTotalSupply[a], now)]
  /\ usersUnclaimedRewards' =
       [usersUnclaimedRewards EXCEPT ![user] =
          @ + AccruedRewards(assets[a], user, scaledBalances[a][user],
                             scaledTotalSupply[a], now)]
  /\ scaledBalances' = [scaledBalances EXCEPT ![a][user] = newBalance]
  /\ scaledTotalSupply' =
       [scaledTotalSupply EXCEPT ![a] = (@ - scaledBalances[a][user]) + newBalance]
  /\ UNCHANGED <<rewardToken, psmStake, now, claimed, emitted>>

(* Mutant: a partial claim gives up the rest. *)
ClaimRewardsAndForget(user, list, amount, to, stake) ==
  LET claim            == ClaimOver(user, list)
      unclaimedRewards == usersUnclaimedRewards[user] + claim.accrued
      amountToClaim    == IF amount > unclaimedRewards THEN unclaimedRewards ELSE amount
  IN  /\ amount # 0
      /\ assets' = claim.records
      /\ usersUnclaimedRewards' = [usersUnclaimedRewards EXCEPT ![user] = 0]
      /\ claimed' = [claimed EXCEPT ![user] = @ + amountToClaim]
      /\ rewardToken[REWARDS_VAULT] >= amountToClaim
      /\ rewardToken' = [rewardToken EXCEPT ![REWARDS_VAULT] = @ - amountToClaim,
                                            ![to] = @ + amountToClaim]
      /\ UNCHANGED <<psmStake, poolVars, now, emitted>>

(* claimRewards with an amount of zero returns before it does anything.     *)
(* With nothing to claim it returns once the records are up to date; else   *)
(* the vault pays, with an extra if the claim is staked.                    *)
ClaimRewards(user, list, amount, to, stake) ==
  LET claim            == ClaimOver(user, list)
      unclaimedRewards == usersUnclaimedRewards[user] + claim.accrued
      amountToClaim    == IF amount > unclaimedRewards THEN unclaimedRewards ELSE amount
      paid             == IF stake
                          THEN amountToClaim + (amountToClaim * EXTRA_PSM_REWARD) \div 100
                          ELSE amountToClaim
  IN  /\ amount # 0
      /\ assets' = claim.records
      /\ usersUnclaimedRewards' =
           [usersUnclaimedRewards EXCEPT ![user] = unclaimedRewards - amountToClaim]
      /\ claimed' = [claimed EXCEPT ![user] = @ + amountToClaim]
      /\ rewardToken[REWARDS_VAULT] >= paid
      /\ LET charged == [rewardToken EXCEPT ![REWARDS_VAULT] = @ - paid]
         IN  rewardToken' = [charged EXCEPT ![IF stake THEN PSM ELSE to] = @ + paid]
      /\ psmStake' = IF stake THEN [psmStake EXCEPT ![to] = @ + paid] ELSE psmStake
      /\ UNCHANGED <<poolVars, now, emitted>>

(* configureAssets by EMISSION_MANAGER, who reads the supply of the aToken. *)
ConfigureAssets(a, emissionPerSecond) ==
  /\ assets' = [assets EXCEPT ![a] =
                  ConfigureAsset(@, emissionPerSecond, scaledTotalSupply[a], now)]
  /\ UNCHANGED <<usersUnclaimedRewards, poolVars, rewardToken, psmStake, now,
                 claimed, emitted>>

(* The next block.  Emission is counted apart from the index. *)
Tick ==
  /\ now < MAX_TIME
  /\ now' = now + 1
  /\ emitted' = [a \in Assets |->
                   IF scaledTotalSupply[a] # 0 /\ now < DISTRIBUTION_END
                   THEN emitted[a] + assets[a].emissionPerSecond ELSE emitted[a]]
  /\ UNCHANGED <<assets, usersUnclaimedRewards, poolVars, rewardToken, psmStake,
                 claimed>>

Next ==
  \/ \E a \in Assets, user \in Users, newBalance \in Balances :
       HandleAction(a, user, newBalance)
  \/ \E user \in Users, list \in AssetLists, amount \in Amounts, to \in Recipients,
        stake \in BOOLEAN :
       ClaimRewards(user, list, amount, to, stake)
  \/ \E a \in Assets, emission \in Emissions : ConfigureAssets(a, emission)
  \/ Tick

Spec == Init /\ [][Next]_vars

----------------------------------------------------------------------------
(* Properties. *)

(* What a user has earned on one asset since its last update, scaled. *)
PendingOn(a, u) ==
  scaledBalances[a][u]
    * (GetAssetIndex(assets[a], scaledTotalSupply[a], now) - assets[a].users[u])

(* Over all assets and users: what was claimed, is recorded and would be    *)
(* recorded now is covered by what was emitted, in whatever order deposits, *)
(* claims over any lists and changes of emission come.                      *)
WithinEmission ==
  SCALE * (Sum(claimed) + Sum(usersUnclaimedRewards))
    + Sum([x \in Assets \X Users |-> PendingOn(x[1], x[2])]) <= SCALE * Sum(emitted)

(* Rewards of u: claimed, recorded, and pending on each asset, rounded down *)
(* per asset as a claim would.                                              *)
Earned(u) ==
  claimed[u] + usersUnclaimedRewards[u] + Sum([a \in Assets |-> PendingOn(a, u) \div SCALE])

(* Nothing a user has earned is lost or gained by deposits, withdrawals,    *)
(* claims of anyone over any list, partial, repeated or staked, nor by a    *)
(* change of emission; it only grows with time.                             *)
EarnedIsKept ==
  [][\A u \in Users : /\ Earned(u)' >= Earned(u)
                      /\ now' = now => Earned(u)' = Earned(u)]_vars

(* What getRewardsBalance shows for a list without repetitions is what a    *)
(* claim over that list would give the user now.                            *)
ViewIsWhatAClaimGives ==
  \A u \in Users, list \in AssetLists :
    (\A i, j \in DOMAIN list : list[i] = list[j] => i = j) =>
      GetRewardsBalance(list, u) = usersUnclaimedRewards[u] + ClaimOver(u, list).accrued
============================================================================
