---------------------------- MODULE StakedToken ----------------------------
(***************************************************************************)
(* contracts/stake/StakedToken.sol: users stake STAKED_TOKEN, receive the  *)
(* same amount of the transferable staked token, earn REWARD_TOKEN over    *)
(* time, and may redeem in a window that opens COOLDOWN_SECONDS after they *)
(* asked for it.                                                           *)
(*                                                                         *)
(* One action is one transaction: the EVM runs each to its end or reverts  *)
(* it as a whole, so a failed `require` is a guard.  Any user may send any *)
(* transaction at any time; the code orders nothing and schedules nothing. *)
(*                                                                         *)
(* _beforeTokenTransfer is virtual in the code and a parameter here: the   *)
(* set of states it may leave its own storage (`hook`) in, empty when it   *)
(* reverts.  UpgradedStakedToken gives it those of ERC20WithSnapshot.      *)
(***************************************************************************)
EXTENDS DistributionManager, ERC20WithSnapshot, TokenSums

CONSTANTS Users,              \* the accounts that can hold the staked token
          THIS,               \* address(this)
          REWARDS_VAULT,      \* has approved THIS for every amount
          STAKED_TOKEN, REWARD_TOKEN,
          COOLDOWN_SECONDS, UNSTAKE_WINDOW,
          MAX_UINT,           \* type(uint256).max, the request to claim all
          InitialLedger,      \* the balances of the two tokens at deployment
          InitialHook, BeforeTokenTransfer(_, _, _, _, _, _),
          START, MAX_TIME,    \* first and last block.timestamp considered
          Amounts, Emissions  \* the amounts and emissions passed by callers

Accounts == Users \cup {THIS, REWARDS_VAULT}

Tokens == {STAKED_TOKEN, REWARD_TOKEN}

ASSUME StakedTokenAssumption ==
  /\ IsFiniteSet(Users)
  /\ THIS \notin Users
  /\ REWARDS_VAULT \notin Users \cup {THIS}
  /\ ZERO_ADDRESS \notin Users \cup {THIS, REWARDS_VAULT}
  /\ COOLDOWN_SECONDS \in Nat
  /\ UNSTAKE_WINDOW \in Nat
  /\ MAX_UINT \in Nat
  /\ InitialLedger \in [Tokens -> [Accounts -> Nat]]
  /\ MAX_TIME \in Nat
  /\ Amounts \subseteq Nat
  /\ Emissions \subseteq Nat

(* Block timestamps count from 1970: far more than any cooldown and window. *)
ASSUME StartAssumption ==
  /\ START \in Nat
  /\ START > COOLDOWN_SECONDS + UNSTAKE_WINDOW

VARIABLES
  balances,              \* _balances of the staked token
  totalSupply,
  stakersCooldowns,      \* when the cooldown of a user began, 0 for none
  stakerRewardsToClaim,
  asset,                 \* assets[address(this)]
  ledger,                \* the balances of STAKED_TOKEN and REWARD_TOKEN
  hook,                  \* the storage of _beforeTokenTransfer
  now,                   \* block.timestamp, and the order of block.number
  claimed,               \* history: rewards paid to each user
  emitted,               \* history: rewards emitted while somebody staked
  activated              \* history: when each user last called cooldown()

stakeVars   == <<balances, totalSupply, hook>>
rewardVars  == <<stakerRewardsToClaim, asset>>
historyVars == <<claimed, emitted, activated>>
vars == <<stakeVars, stakersCooldowns, rewardVars, ledger, now, historyVars>>

TypeOK ==
  /\ balances \in [Users -> Nat]
  /\ totalSupply \in Nat
  /\ stakersCooldowns \in [Users -> Nat]
  /\ stakerRewardsToClaim \in [Users -> Nat]
  /\ asset \in AssetData(Users)
  /\ ledger \in [Tokens -> [Accounts -> Nat]]
  /\ now \in Nat
  /\ claimed \in [Users -> Nat]
  /\ emitted \in Nat
  /\ activated \in [Users -> Nat]

Init ==
  /\ balances = [u \in Users |-> 0]
  /\ totalSupply = 0
  /\ stakersCooldowns = [u \in Users |-> 0]
  /\ stakerRewardsToClaim = [u \in Users |-> 0]
  /\ asset = InitAssetData(Users)
  /\ ledger = InitialLedger
  /\ hook = InitialHook
  /\ now = START
  /\ claimed = [u \in Users |-> 0]
  /\ emitted = 0
  /\ activated = [u \in Users |-> 0]

----------------------------------------------------------------------------
(* Helpers. *)

(* ERC20 transfer and transferFrom of STAKED_TOKEN or REWARD_TOKEN. *)
PayToken(token, from, to, amount) ==
  /\ ledger[token][from] >= amount
  /\ LET debited == [ledger EXCEPT ![token][from] = @ - amount]
     IN  ledger' = [debited EXCEPT ![token][to] = @ + amount]

Accrued(user) == AccruedRewards(asset, user, balances[user], totalSupply, now)

(* Mutant: averages even with a sender whose cooldown began earlier. *)
AverageWithEarlierSender(fromCooldownTimestamp, amountToReceive, toAddress, toBalance) ==
  LET to           == stakersCooldowns[toAddress]
      minimalValid == (now - COOLDOWN_SECONDS) - UNSTAKE_WINDOW
      from         == IF minimalValid > fromCooldownTimestamp
                      THEN now ELSE fromCooldownTimestamp
  IN  IF to = 0 \/ minimalValid > to THEN 0
      ELSE (amountToReceive * from + toBalance * to) \div (amountToReceive + toBalance)

(* getNextCooldownTimestamp.  The weighted average of two timestamps is     *)
(* only reached with toBalance # 0, since a cooldown implies a balance.     *)
GetNextCooldownTimestamp(fromCooldownTimestamp, amountToReceive, toAddress, toBalance) ==
  LET to           == stakersCooldowns[toAddress]
      minimalValid == (now - COOLDOWN_SECONDS) - UNSTAKE_WINDOW
      from         == IF minimalValid > fromCooldownTimestamp
                      THEN now ELSE fromCooldownTimestamp
  IN  IF to = 0 \/ minimalValid > to THEN 0
      ELSE IF from < to THEN to
      ELSE (amountToReceive * from + toBalance * to) \div (amountToReceive + toBalance)

(* getTotalRewardsBalance: the view a user's wallet shows. *)
GetTotalRewardsBalance(staker) ==
  stakerRewardsToClaim[staker]
    + GetUnclaimedRewards(asset, staker, balances[staker], totalSupply, now)

(* Mutant: the window opens one second early. *)
InUnstakeWindowEarly(user) ==
  LET opens == stakersCooldowns[user] + COOLDOWN_SECONDS
  IN  now >= opens /\ now - opens <= UNSTAKE_WINDOW

(* The two requires of redeem. *)
InUnstakeWindow(user) ==
  LET opens == stakersCooldowns[user] + COOLDOWN_SECONDS
  IN  now > opens /\ now - opens <= UNSTAKE_WINDOW

----------------------------------------------------------------------------
(* Transactions. *)

Stake(sender, onBehalfOf, amount) ==
  /\ amount # 0
  /\ asset' = UpdateUserAsset(asset, onBehalfOf, totalSupply, now)
  /\ stakerRewardsToClaim' =
       [stakerRewardsToClaim EXCEPT ![onBehalfOf] = @ + Accrued(onBehalfOf)]
  /\ stakersCooldowns' =
       [stakersCooldowns EXCEPT ![onBehalfOf] =
          GetNextCooldownTimestamp(0, amount, onBehalfOf, balances[onBehalfOf])]
  /\ hook' \in BeforeTokenTransfer(hook, balances, ZERO_ADDRESS, onBehalfOf, amount, now)
  /\ totalSupply' = totalSupply + amount
  /\ balances' = [balances EXCEPT ![onBehalfOf] = @ + amount]
  /\ PayToken(STAKED_TOKEN, sender, THIS, amount)
  /\ UNCHANGED <<now, historyVars>>

(* Mutant: burns what the sender has, pays what the sender asked for. *)
RedeemPaysRequest(sender, to, amount) ==
  LET amountToRedeem == IF amount > balances[sender] THEN balances[sender] ELSE amount
  IN  /\ amount # 0
      /\ InUnstakeWindow(sender)
      /\ asset' = UpdateUserAsset(asset, sender, totalSupply, now)
      /\ stakerRewardsToClaim' =
           [stakerRewardsToClaim EXCEPT ![sender] = @ + Accrued(sender)]
      /\ hook' \in BeforeTokenTransfer(hook, balances, sender, ZERO_ADDRESS, amountToRedeem, now)
      /\ balances' = [balances EXCEPT ![sender] = @ - amountToRedeem]
      /\ totalSupply' = totalSupply - amountToRedeem
      /\ stakersCooldowns' =
           [stakersCooldowns EXCEPT ![sender] =
              IF balances[sender] = amountToRedeem THEN 0 ELSE @]
      /\ PayToken(STAKED_TOKEN, THIS, to, amount)
      /\ UNCHANGED <<now, historyVars>>

Redeem(sender, to, amount) ==
  LET amountToRedeem == IF amount > balances[sender] THEN balances[sender] ELSE amount
  IN  /\ amount # 0
      /\ InUnstakeWindow(sender)
      /\ asset' = UpdateUserAsset(asset, sender, totalSupply, now)
      /\ stakerRewardsToClaim' =
           [stakerRewardsToClaim EXCEPT ![sender] = @ + Accrued(sender)]
      /\ hook' \in BeforeTokenTransfer(hook, balances, sender, ZERO_ADDRESS, amountToRedeem, now)
      /\ balances' = [balances EXCEPT ![sender] = @ - amountToRedeem]
      /\ totalSupply' = totalSupply - amountToRedeem
      /\ stakersCooldowns' =
           [stakersCooldowns EXCEPT ![sender] =
              IF balances[sender] = amountToRedeem THEN 0 ELSE @]
      /\ PayToken(STAKED_TOKEN, THIS, to, amountToRedeem)
      /\ UNCHANGED <<now, historyVars>>

Cooldown(sender) ==
  /\ balances[sender] # 0
  /\ stakersCooldowns' = [stakersCooldowns EXCEPT ![sender] = now]
  /\ activated' = [activated EXCEPT ![sender] = now]
  /\ UNCHANGED <<stakeVars, rewardVars, ledger, now, claimed, emitted>>

ClaimRewards(sender, to, amount) ==
  LET newTotalRewards == stakerRewardsToClaim[sender] + Accrued(sender)
      amountToClaim   == IF amount = MAX_UINT THEN newTotalRewards ELSE amount
  IN  /\ amountToClaim <= newTotalRewards
      /\ asset' = UpdateUserAsset(asset, sender, totalSupply, now)
      /\ stakerRewardsToClaim' =
           [stakerRewardsToClaim EXCEPT ![sender] = newTotalRewards - amountToClaim]
      /\ PayToken(REWARD_TOKEN, REWARDS_VAULT, to, amountToClaim)
      /\ claimed' = [claimed EXCEPT ![sender] = @ + amountToClaim]
      /\ UNCHANGED <<stakeVars, stakersCooldowns, now, emitted, activated>>

(* Mutants: _transfer without the balance check of ERC20, and one that     *)
(* leaves the cooldown of a sender who hands over everything.              *)
MoveStake(from, to, amount, clears) ==
  /\ asset' = UpdateUserAsset(UpdateUserAsset(asset, from, totalSupply, now),
                              to, totalSupply, now)
  /\ stakerRewardsToClaim' =
       [u \in Users |-> IF u \in {from, to}
                        THEN stakerRewardsToClaim[u] + Accrued(u)
                        ELSE stakerRewardsToClaim[u]]
  /\ stakersCooldowns' =
       IF from = to \/ amount = 0 THEN stakersCooldowns
       ELSE [stakersCooldowns EXCEPT
               ![to]   = GetNextCooldownTimestamp(stakersCooldowns[from], amount,
                                                  to, balances[to]),
               ![from] = IF clears /\ balances[from] = amount THEN 0 ELSE @]
  /\ hook' \in BeforeTokenTransfer(hook, balances, from, to, amount, now)
  /\ LET debited == [balances EXCEPT ![from] = @ - amount]
     IN  balances' = [debited EXCEPT ![to] = @ + amount]
  /\ UNCHANGED <<totalSupply, ledger, now, historyVars>>

TransferUnchecked(from, to, amount) == MoveStake(from, to, amount, TRUE)

TransferKeepsCooldown(from, to, amount) ==
  amount <= balances[from] /\ MoveStake(from, to, amount, FALSE)

(* _transfer, reached by transfer and transferFrom.  Both users are brought *)
(* up to date before the balances move.                                     *)
Transfer(from, to, amount) ==
  /\ amount <= balances[from]
  /\ asset' = UpdateUserAsset(UpdateUserAsset(asset, from, totalSupply, now),
                              to, totalSupply, now)
  /\ stakerRewardsToClaim' =
       [u \in Users |-> IF u \in {from, to}
                        THEN stakerRewardsToClaim[u] + Accrued(u)
                        ELSE stakerRewardsToClaim[u]]
  /\ stakersCooldowns' =
       IF from = to THEN stakersCooldowns
       ELSE [stakersCooldowns EXCEPT
               ![to]   = GetNextCooldownTimestamp(stakersCooldowns[from], amount,
                                                  to, balances[to]),
               ![from] = IF balances[from] = amount THEN 0 ELSE @]
  /\ hook' \in BeforeTokenTransfer(hook, balances, from, to, amount, now)
  /\ LET debited == [balances EXCEPT ![from] = @ - amount]
     IN  balances' = [debited EXCEPT ![to] = @ + amount]
  /\ UNCHANGED <<totalSupply, ledger, now, historyVars>>

(* configureAssets by EMISSION_MANAGER.  It is told the total staked, which *)
(* the deployment and the tests read from totalSupply().                    *)
ConfigureAssets(emissionPerSecond, totalStaked) ==
  /\ asset' = ConfigureAsset(asset, emissionPerSecond, totalStaked, now)
  /\ UNCHANGED <<stakeVars, stakersCooldowns, stakerRewardsToClaim, ledger, now, historyVars>>

(* The next block.  What is emitted meanwhile is the manager's intention:   *)
(* emissionPerSecond for each second up to DISTRIBUTION_END in which        *)
(* somebody stakes.  It is counted here, independently of the index.        *)
Tick ==
  /\ now < MAX_TIME
  /\ now' = now + 1
  /\ emitted' = IF totalSupply # 0 /\ now < DISTRIBUTION_END
                THEN emitted + asset.emissionPerSecond ELSE emitted
  /\ UNCHANGED <<stakeVars, stakersCooldowns, rewardVars, ledger, claimed, activated>>

Next ==
  \/ \E sender, onBehalfOf \in Users, amount \in Amounts :
       Stake(sender, onBehalfOf, amount)
  \/ \E sender \in Users, to \in Accounts, amount \in Amounts :
       Redeem(sender, to, amount)
  \/ \E sender \in Users : Cooldown(sender)
  \/ \E sender \in Users, to \in Accounts, amount \in Amounts \cup {MAX_UINT} :
       ClaimRewards(sender, to, amount)
  \/ \E from, to \in Users, amount \in Amounts : Transfer(from, to, amount)
  \/ \E emission \in Emissions : ConfigureAssets(emission, totalSupply)
  \/ ConfigureAssets(0, 0)
  \/ Tick

Spec == Init /\ [][Next]_vars

----------------------------------------------------------------------------
(* Properties. *)

(* The staked token's supply is what its holders hold, and THIS keeps at    *)
(* least as much STAKED_TOKEN: whatever was staked, moved and redeemed, in  *)
(* any order, the last holder can still redeem the last unit.               *)
Backed ==
  /\ totalSupply = Sum(balances)
  /\ ledger[STAKED_TOKEN][THIS] >= totalSupply

(* A cooldown belongs to a stake: whoever has handed over or redeemed       *)
(* everything has none left to use on a later stake.  It never lies in the  *)
(* future, nor before the moment its owner last asked for it, whatever      *)
(* average of timestamps later receipts made of it.                         *)
CooldownOfStake ==
  \A u \in Users :
    stakersCooldowns[u] # 0 =>
      /\ balances[u] # 0
      /\ activated[u] # 0
      /\ activated[u] <= stakersCooldowns[u]
      /\ stakersCooldowns[u] <= now

(* Rewards, scaled: those paid, those recorded and those a user would be    *)
(* given now.                                                               *)
DistributedTo(u) ==
  SCALE * (claimed[u] + stakerRewardsToClaim[u])
    + balances[u] * (GetAssetIndex(asset, totalSupply, now) - asset.users[u])

(* All users together are never owed more than was emitted, and no user's   *)
(* index runs ahead of the asset's: transfers, late claims, changes of      *)
(* emission and the end of the distribution included.                       *)
Solvent ==
  /\ SoundAsset(asset, Users, now)
  /\ Sum([u \in Users |-> DistributedTo(u)]) <= SCALE * emitted

(* Stake leaves a user's account for redemption only when the user himself  *)
(* asked for it more than COOLDOWN_SECONDS before: stake and transfers      *)
(* received meanwhile, from anyone, never replace or shorten the wait.      *)
RedeemWaits ==
  [][\A u \in Users :
       totalSupply' < totalSupply /\ balances'[u] < balances[u] =>
         activated[u] # 0 /\ now > activated[u] + COOLDOWN_SECONDS]_vars

(* Only its owner moves a cooldown by asking again; a stake or a transfer   *)
(* from anyone else can postpone it or clear it, never bring it forward.    *)
CooldownOnlyPostponed ==
  [][\A u \in Users :
       stakersCooldowns'[u] < stakersCooldowns[u] => stakersCooldowns'[u] = 0]_vars

(* The staked token keeps the promise of RewardedStake, with the earned     *)
(* rewards being those paid and those getTotalRewardsBalance shows.         *)
Promise == INSTANCE RewardedStake WITH
  stake   <- balances,
  earned  <- [u \in Users |-> claimed[u] + GetTotalRewardsBalance(u)],
  rate    <- asset.emissionPerSecond

KeepsPromise == Promise!Spec
============================================================================
