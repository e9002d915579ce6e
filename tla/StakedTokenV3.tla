--------------------------- MODULE StakedTokenV3 ---------------------------
(***************************************************************************)
(* contracts/stake/StakedTokenV3.sol: the staked token whose stake is also *)
(* voting and proposition power, deployed afresh behind a proxy.           *)
(*                                                                         *)
(* Its stake, redeem, cooldown, claimRewards and _transfer are those of    *)
(* StakedToken, line for line; what is new is its _beforeTokenTransfer,    *)
(* which moves the power of the delegatees of the two accounts, and the    *)
(* delegations themselves.  The constructor writes _governance into the    *)
(* storage of the implementation and not of the proxy, and initialize does *)
(* not set it, so the callback to the governance is never made.            *)
(***************************************************************************)
EXTENDS DistributionManager, GovernancePowerDelegation, TokenSums

CONSTANTS Users, THIS, REWARDS_VAULT, STAKED_TOKEN, REWARD_TOKEN,
          COOLDOWN_SECONDS, UNSTAKE_WINDOW, MAX_UINT, InitialLedger,
          START, MAX_TIME, Amounts, Emissions

ASSUME StakedTokenV3Assumption ==
  /\ IsFiniteSet(Users)
  /\ ZERO_ADDRESS \notin Users
  /\ START \in Nat
  /\ Amounts \subseteq Nat

VARIABLES balances, totalSupply, stakersCooldowns, stakerRewardsToClaim, asset,
          ledger, now, claimed, emitted, activated,
          delegation,   \* the delegation data of each type of power
          ended         \* history: everyone's power at the end of each past block

(* _beforeTokenTransfer. *)
BeforeTokenTransferV3(data, b, from, to, amount, currentBlock) ==
  LET moved(type) == PowerBeforeTransfer(data[type], b, from, to, amount, currentBlock)
  IN  {[data EXCEPT ![VOTING_POWER] = v, ![PROPOSITION_POWER] = p] :
         v \in moved(VOTING_POWER), p \in moved(PROPOSITION_POWER)}

Token == INSTANCE StakedToken WITH
  hook <- delegation,
  InitialHook <- [type \in DelegationTypes |-> InitDelegationData(Users)],
  BeforeTokenTransfer <- BeforeTokenTransferV3

(* What StakedToken assumes, for what is inherited from it. *)
ASSUME InheritedAssumption == Token!StakedTokenAssumption /\ Token!StartAssumption

tokenVars == <<balances, totalSupply, stakersCooldowns, stakerRewardsToClaim, asset,
               ledger, now, claimed, emitted, activated>>
vars == <<tokenVars, delegation, ended>>

Init == Token!Init /\ ended = <<>>

----------------------------------------------------------------------------
(* Views. *)

GetPowerCurrent(user, type) ==
  SearchByBlockNumber(delegation[type].snapshots[user], balances[user], now)

GetPowerAtBlock(user, blockNumber, type) ==
  SearchByBlockNumber(delegation[type].snapshots[user], balances[user], blockNumber)

----------------------------------------------------------------------------
(* Transactions. *)

Stake(sender, onBehalfOf, amount) ==
  Token!Stake(sender, onBehalfOf, amount) /\ UNCHANGED ended

Redeem(sender, to, amount) == Token!Redeem(sender, to, amount) /\ UNCHANGED ended

Cooldown(sender) == Token!Cooldown(sender) /\ UNCHANGED ended

ClaimRewards(sender, to, amount) ==
  Token!ClaimRewards(sender, to, amount) /\ UNCHANGED ended

Transfer(from, to, amount) == Token!Transfer(from, to, amount) /\ UNCHANGED ended

ConfigureAssets(emissionPerSecond, totalStaked) ==
  Token!ConfigureAssets(emissionPerSecond, totalStaked) /\ UNCHANGED ended

DelegateByType(sender, delegatee, type) ==
  /\ \E data \in DelegatePower(delegation[type], balances, sender, delegatee, now) :
       delegation' = [delegation EXCEPT ![type] = data]
  /\ UNCHANGED <<tokenVars, ended>>

(* delegate, and delegateBySig once the signature is accepted: all powers   *)
(* or, if one of the two reverts, none.                                     *)
Delegate(sender, delegatee) ==
  /\ \E v \in DelegatePower(delegation[VOTING_POWER], balances, sender, delegatee, now),
        p \in DelegatePower(delegation[PROPOSITION_POWER], balances, sender, delegatee, now) :
       delegation' = [delegation EXCEPT ![VOTING_POWER] = v, ![PROPOSITION_POWER] = p]
  /\ UNCHANGED <<tokenVars, ended>>

(* The next block; what everyone's power was at the end of this one is      *)
(* noted by counting stake, not by reading snapshots.                       *)
DelegatedStake(user, type) ==
  Sum([v \in Users |->
         IF GetDelegatee(delegation[type].delegates, v) = user THEN balances[v] ELSE 0])

EndOfBlock ==
  Append(ended, [u \in Users |-> [type \in DelegationTypes |-> DelegatedStake(u, type)]])

Tick == Token!Tick /\ ended' = EndOfBlock

Next ==
  \/ \E sender, onBehalfOf \in Users, amount \in Amounts :
       Stake(sender, onBehalfOf, amount)
  \/ \E sender \in Users, to \in Token!Accounts, amount \in Amounts :
       Redeem(sender, to, amount)
  \/ \E sender \in Users : Cooldown(sender)
  \/ \E sender \in Users, to \in Token!Accounts, amount \in Amounts \cup {MAX_UINT} :
       ClaimRewards(sender, to, amount)
  \/ \E from, to \in Users, amount \in Amounts : Transfer(from, to, amount)
  \/ \E emission \in Emissions : ConfigureAssets(emission, totalSupply)
  \/ \E sender, delegatee \in Users, type \in DelegationTypes :
       DelegateByType(sender, delegatee, type)
  \/ \E sender, delegatee \in Users : Delegate(sender, delegatee)
  \/ Tick

Spec == Init /\ [][Next]_vars

----------------------------------------------------------------------------
(* Properties. *)

(* The power of an account is the stake of those who delegate to it, itself *)
(* included unless it delegates to another, however stakes and delegations  *)
(* were made, moved and withdrawn: no power is lost, doubled or left behind. *)
PowerIsDelegatedStake ==
  \A u \in Users, type \in DelegationTypes :
    GetPowerCurrent(u, type) = DelegatedStake(u, type)

(* getPowerAtBlock answers for a past block what was true at its end, at    *)
(* any later time: votes are counted with it.                               *)
PowerAtBlockIsHistory ==
  \A i \in DOMAIN ended : \A u \in Users, type \in DelegationTypes :
    GetPowerAtBlock(u, START + i - 1, type) = ended[i][u][type]

(* The bookkeeping of power never stands in the way of the stake: no        *)
(* movement a holder can afford, redemption included, is reverted by it.    *)
DelegationNeverBlocks ==
  \A u \in Users, to \in Users \cup {ZERO_ADDRESS}, amount \in Amounts :
    amount <= balances[u] =>
      BeforeTokenTransferV3(delegation, balances, u, to, amount, now) # {}
============================================================================
