----------------------- MODULE MCUpgradedStakedToken -----------------------
(***************************************************************************)
(* Small instances of UpgradedStakedToken, with or without rewards.        *)
(***************************************************************************)
EXTENDS UpgradedStakedToken, TLC

CONSTANTS Rich, UserTokens, VaultTokens, LastCooldown, MaxDelegations

MCInitialLedger ==
  [t \in {STAKED_TOKEN, REWARD_TOKEN} |->
    [a \in Users \cup {THIS, REWARDS_VAULT} |-> IF a \in Rich THEN UserTokens
                                             ELSE IF a = REWARDS_VAULT THEN VaultTokens ELSE 0]]

(* Cooldowns are asked for in the first blocks only. *)
FewCooldowns == \A u \in Users : stakersCooldowns[u] <= LastCooldown

(* At most so many delegations, of either type. *)
FewDelegations ==
  Cardinality({<<u, type>> \in Users \X DelegationTypes :
                 delegation[type].delegates[u] # ZERO_ADDRESS}) <= MaxDelegations

(* With no emission the record of the asset, whose index stays zero, and    *)
(* the histories of rewards and cooldowns influence no other variable.      *)
PowerView == <<balances, totalSupply, stakersCooldowns, ledger, now, delegation,
               ended, lastInitializedRevision, upgraded>>

(* Without delegations the record of power influences no other variable.    *)
RewardView == <<balances, totalSupply, stakersCooldowns, stakerRewardsToClaim, asset,
                ledger, now, claimed, emitted, lastInitializedRevision, upgraded,
                backdated>>

UserSymmetry == Permutations(Users)
============================================================================
