------------------------- MODULE MCSignedMessages -------------------------
(* Small instances of SignedMessages: only some of the users have LAY.      *)
EXTENDS SignedMessages, TLC

CONSTANTS Rich, UserTokens, MaxGranted, MaxDelegations, LastCooldown

MCInitialLedger ==
  [t \in {STAKED_TOKEN, REWARD_TOKEN} |->
    [a \in Users \cup {THIS, REWARDS_VAULT} |-> IF a \in Rich THEN UserTokens ELSE 0]]

FewCooldowns == \A u \in Users : stakersCooldowns[u] <= LastCooldown

(* At most so much is agreed to altogether, and nobody is his own spender. *)
FewGrants ==
  /\ Sum([o \in Users |-> Sum(granted[o])]) <= MaxGranted
  /\ \A o \in Users : granted[o][o] = 0

(* At most so many delegations, of either type. *)
FewDelegations ==
  Cardinality({<<u, type>> \in Users \X DelegationTypes :
                 delegation[type].delegates[u] # ZERO_ADDRESS}) <= MaxDelegations

(* With no emission the reward record influences no other variable, and the *)
(* properties checked read no history but those of the mandates.            *)
MandateView == <<balances, totalSupply, stakersCooldowns, ledger, now, delegation,
                 mandateVars>>
============================================================================
