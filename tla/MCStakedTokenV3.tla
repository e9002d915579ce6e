-------------------------- MODULE MCStakedTokenV3 --------------------------
(***************************************************************************)
(* Small instances of StakedTokenV3: the same token is staked and paid as  *)
(* a reward, and only some of the users start with any of it, so that the  *)
(* others can hold power without stake.                                    *)
(***************************************************************************)
EXTENDS StakedTokenV3, TLC

CONSTANTS Rich, UserTokens, LastCooldown, MaxDelegations, MaxLater

MCInitialLedger ==
  [t \in {STAKED_TOKEN, REWARD_TOKEN} |->
    [a \in Users \cup {THIS, REWARDS_VAULT} |-> IF a \in Rich THEN UserTokens ELSE 0]]

(* Cooldowns are asked for in the first blocks only. *)
FewCooldowns == \A u \in Users : stakersCooldowns[u] <= LastCooldown

(* In the first block everyone may take part, with at most MaxDelegations   *)
(* delegations at a time; what happens over several blocks is explored      *)
(* between two users with at most MaxLater.                                 *)
Delegations ==
  {<<u, type>> \in Users \X DelegationTypes : delegation[type].delegates[u] # ZERO_ADDRESS}

Participants ==
  {u \in Users : \E type \in DelegationTypes :
     <<u, type>> \in Delegations \/ delegation[type].snapshots[u] # <<>>}

FewDelegations ==
  /\ Cardinality(Delegations) <= IF now = START THEN MaxDelegations ELSE MaxLater
  /\ now > START => Cardinality(Participants) <= 2

(* With no emission the record of the asset, whose index stays zero, and    *)
(* the histories of rewards and cooldowns influence no other variable.      *)
PowerView == <<balances, totalSupply, stakersCooldowns, ledger, now, delegation, ended>>

UserSymmetry == Permutations(Users \ Rich) \cup Permutations(Rich)
============================================================================
