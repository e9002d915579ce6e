------------------------ MODULE UpgradedStakedToken ------------------------
(***************************************************************************)
(* The staked token in production: a proxy initialised with the first      *)
(* implementation (StakedLay, revision 1) and upgraded while stakers are   *)
(* in it, to StakedTokenV2Rev3 and then StakedTokenV2Rev4.  An upgrade     *)
(* changes the code and keeps the storage: what was the balance history of *)
(* the first implementation becomes the history of voting power, and the   *)
(* history of proposition power starts empty for accounts that already     *)
(* hold stake.  DISTRIBUTION_END is an immutable, part of the code: each   *)
(* upgrade brings a later one, for the record of rewards it finds.         *)
(***************************************************************************)
EXTENDS DistributionManager, GovernancePowerDelegation, TokenSums

CONSTANTS Users, THIS, REWARDS_VAULT, STAKED_TOKEN, REWARD_TOKEN,
          COOLDOWN_SECONDS, UNSTAKE_WINDOW, MAX_UINT, InitialLedger,
          DISTRIBUTION_END_V1, \* of the first implementation
          START, MAX_TIME, Amounts, Emissions,
          Revisions        \* of the implementations of the proposals

ASSUME RevisionsAssumption ==
  /\ Revisions \subseteq Nat \ {0, 1}
  /\ DISTRIBUTION_END_V1 \in Nat

VARIABLES balances, totalSupply, stakersCooldowns, stakerRewardsToClaim, asset,
          ledger, now, claimed, emitted, activated, delegation, ended,
          lastInitializedRevision,
          upgraded,      \* history: the block of the first upgrade, 0 before it
          backdated      \* history: the emission it adds to the seconds before it

(* The _beforeTokenTransfer of the first implementation, on the storage     *)
(* that the later ones read as votes.                                       *)
BeforeTokenTransferV1(data, b, from, to, amount, currentBlock) ==
  {[data EXCEPT ![VOTING_POWER].snapshots =
      SnapshotsBeforeTransfer(@, b, from, to, amount, currentBlock)]}

V1 == INSTANCE StakedToken WITH
  DISTRIBUTION_END <- DISTRIBUTION_END_V1,
  hook <- delegation,
  InitialHook <- [type \in DelegationTypes |-> InitDelegationData(Users)],
  BeforeTokenTransfer <- BeforeTokenTransferV1

V2 == INSTANCE StakedTokenV3

(* What the first implementation assumes of the addresses, the amounts and  *)
(* the time; the later ones assume no more.                                 *)
ASSUME UpgradedStakedTokenAssumption ==
  V1!StakedTokenAssumption /\ V1!StartAssumption

tokenVars == <<balances, totalSupply, stakersCooldowns, stakerRewardsToClaim, asset,
               ledger, now, claimed, emitted, activated>>
vars == <<tokenVars, delegation, ended, lastInitializedRevision, upgraded, backdated>>

Init ==
  /\ V2!Init
  /\ lastInitializedRevision = 1
  /\ upgraded = 0 /\ backdated = 0

----------------------------------------------------------------------------
(* One transaction, run by the implementation of the moment. *)

Run(v1Action, v2Action) ==
  /\ \/ lastInitializedRevision = 1 /\ v1Action /\ UNCHANGED ended
     \/ lastInitializedRevision > 1 /\ v2Action
  /\ UNCHANGED <<lastInitializedRevision, upgraded, backdated>>

Stake(sender, onBehalfOf, amount) ==
  Run(V1!Stake(sender, onBehalfOf, amount), V2!Stake(sender, onBehalfOf, amount))

Redeem(sender, to, amount) ==
  Run(V1!Redeem(sender, to, amount), V2!Redeem(sender, to, amount))

Cooldown(sender) == Run(V1!Cooldown(sender), V2!Cooldown(sender))

ClaimRewards(sender, to, amount) ==
  Run(V1!ClaimRewards(sender, to, amount), V2!ClaimRewards(sender, to, amount))

Transfer(from, to, amount) ==
  Run(V1!Transfer(from, to, amount), V2!Transfer(from, to, amount))

DelegateByType(sender, delegatee, type) ==
  Run(FALSE, V2!DelegateByType(sender, delegatee, type))

Delegate(sender, delegatee) == Run(FALSE, V2!Delegate(sender, delegatee))

ConfigureAssets(emissionPerSecond, totalStaked) ==
  Run(V1!ConfigureAssets(emissionPerSecond, totalStaked),
      V2!ConfigureAssets(emissionPerSecond, totalStaked))

Tick ==
  /\ \/ lastInitializedRevision = 1 /\ V1!Tick /\ ended' = V2!EndOfBlock
     \/ lastInitializedRevision > 1 /\ V2!Tick
  /\ UNCHANGED <<lastInitializedRevision, upgraded, backdated>>

(* The record of rewards knows the time of its last update and not which    *)
(* end was in force since: under the new code, the seconds from the old end *)
(* to the upgrade lie before the end, unless an update has passed them.     *)
Backdated ==
  LET last  == asset.lastUpdateTimestamp
      since == IF last <= DISTRIBUTION_END_V1 THEN DISTRIBUTION_END_V1 ELSE last
      until == Earlier(now, DISTRIBUTION_END)
  IN  IF totalSupply # 0 /\ since < until THEN asset.emissionPerSecond * (until - since) ELSE 0

(* Mutant: the user indexes are not where the new code looks for them. *)
UpgradeLosesUserIndexes(revision) ==
  /\ revision > lastInitializedRevision
  /\ lastInitializedRevision' = revision
  /\ upgraded' = IF upgraded = 0 THEN now ELSE upgraded
  /\ backdated' = IF upgraded = 0 THEN Backdated ELSE backdated
  /\ asset' = [asset EXCEPT !.users = [u \in Users |-> 0]]
  /\ UNCHANGED <<balances, totalSupply, stakersCooldowns, stakerRewardsToClaim, ledger,
                 now, claimed, emitted, activated, delegation, ended>>

(* Mutant: the upgrade starts the history of votes afresh. *)
UpgradeClearsHistory(revision) ==
  /\ revision > lastInitializedRevision
  /\ lastInitializedRevision' = revision
  /\ upgraded' = IF upgraded = 0 THEN now ELSE upgraded
  /\ backdated' = IF upgraded = 0 THEN Backdated ELSE backdated
  /\ delegation' = [delegation EXCEPT ![VOTING_POWER].snapshots = InitSnapshots(Users)]
  /\ UNCHANGED <<tokenVars, ended>>

(* upgradeToAndCall by the admin of the proxy, calling initialize of the    *)
(* new implementation; its initializer modifier refuses an older revision.  *)
Upgrade(revision) ==
  /\ revision > lastInitializedRevision
  /\ lastInitializedRevision' = revision
  /\ upgraded' = IF upgraded = 0 THEN now ELSE upgraded
  /\ backdated' = IF upgraded = 0 THEN Backdated ELSE backdated
  /\ UNCHANGED <<tokenVars, delegation, ended>>

Next ==
  \/ \E sender, onBehalfOf \in Users, amount \in Amounts :
       Stake(sender, onBehalfOf, amount)
  \/ \E sender \in Users, to \in V1!Accounts, amount \in Amounts :
       Redeem(sender, to, amount)
  \/ \E sender \in Users : Cooldown(sender)
  \/ \E sender \in Users, to \in V1!Accounts, amount \in Amounts \cup {MAX_UINT} :
       ClaimRewards(sender, to, amount)
  \/ \E from, to \in Users, amount \in Amounts : Transfer(from, to, amount)
  \/ \E emission \in Emissions : ConfigureAssets(emission, totalSupply)
  \/ \E sender, delegatee \in Users, type \in DelegationTypes :
       DelegateByType(sender, delegatee, type)
  \/ \E sender, delegatee \in Users : Delegate(sender, delegatee)
  \/ \E revision \in Revisions : Upgrade(revision)
  \/ Tick

Spec == Init /\ [][Next]_vars

----------------------------------------------------------------------------
(* Properties. *)

(* From the moment of the upgrade every staker has the power of its stake,  *)
(* of both types, though nobody wrote a snapshot for it, and delegations    *)
(* move exactly that.                                                       *)
PowerSurvivesUpgrade ==
  lastInitializedRevision > 1 =>
    \A u \in Users, type \in DelegationTypes :
      V2!GetPowerCurrent(u, type) = V2!DelegatedStake(u, type)

(* The votes getPowerAtBlock answers for a past block are those of its end, *)
(* for the blocks before the upgrade too: the record of one implementation  *)
(* is read by another.                                                      *)
VotesAtBlockAreHistory ==
  \A i \in DOMAIN ended : \A u \in Users :
    V2!GetPowerAtBlock(u, START + i - 1, VOTING_POWER) = ended[i][u][VOTING_POWER]

(* The answers of getPowerAtBlock for a finished block are final: whatever  *)
(* is staked, moved, delegated or upgraded later, a count of votes made a   *)
(* second time comes out the same.  Of proposition power this is so once an *)
(* account has a history of it; before that, the answer is the balance of   *)
(* the moment (PropositionsAtBlockAreHistory).  An answer is made of        *)
(* history and balance: where neither changes there is nothing to compare.  *)
FinishedBlocksAreFinal ==
  [][\A u \in Users, type \in DelegationTypes :
       LET history == delegation[type].snapshots[u]
       IN  /\ type = VOTING_POWER \/ history # <<>>
           /\ delegation'[type].snapshots[u] # history \/ balances'[u] # balances[u]
           => \A block \in START .. now - 1 :
                V2!GetPowerAtBlock(u, block, type)' = V2!GetPowerAtBlock(u, block, type)]_vars

(* The rewards stay within what each implementation emitted in its time,    *)
(* and, of an upgrade after the old distribution has ended, the emission of *)
(* the seconds between the two: these the new code pays to the stakers of   *)
(* the moment, once and at the rate of the moment, whatever claims, stakes, *)
(* transfers and changes of the rate come before the upgrade or after it.   *)
SolventThroughUpgrade ==
  IF lastInitializedRevision = 1 THEN V1!Solvent
  ELSE /\ V2!Token!SoundAsset(asset, Users, now)
       /\ Sum([u \in Users |-> V2!Token!DistributedTo(u)]) <= SCALE * (emitted + backdated)

(* "returns the delegated power of a user at a certain block", the comment  *)
(* of getPowerAtBlock, for proposition power at blocks since the upgrade.   *)
(* An account without snapshots is given its present balance for every past *)
(* block, and zero for those blocks once it has a first snapshot.           *)
PropositionsAtBlockAreHistory ==
  \A i \in DOMAIN ended : \A u \in Users :
    upgraded # 0 /\ START + i - 1 >= upgraded =>
      V2!GetPowerAtBlock(u, START + i - 1, PROPOSITION_POWER)
        = ended[i][u][PROPOSITION_POWER]
============================================================================
