# Verification of starlay-stake

TLA+ models of the staking contracts under `contracts` and of the hardhat tasks
that deploy, upgrade, rehearse and exercise them (`tasks`, `helpers`), the TLC
instances that check them, and theorems about them checked by TLAPS. Paths are
relative to the repository's `src/` unless said otherwise.

## 1. The system

### Contracts

Users stake LAY and receive the same amount of a transferable staked token,
earn rewards per second, and can take the stake back in a window that opens
after a cooldown. Later implementations make the stake count as voting and
proposition power that can be delegated. The staked token lives behind a proxy
whose implementation was replaced twice.

| Component | State | Operations | What makes it correct |
|---|---|---|---|
| `stake/StakedToken.sol` (`StakedLay`) | balances, supply, `stakersCooldowns`, `stakerRewardsToClaim`, LAY held | `stake`, `redeem`, `cooldown`, `claimRewards`, `_transfer` | stake is backed; it leaves only after its owner's wait; cooldowns never outlive or outrun a stake |
| `stake/DistributionManager.sol` | `assets`: emission, last update, index, index per user | `configureAssets`, update of asset and of user, views | users together never get more than was emitted; nothing earned is lost by moving stake |
| `lib/ERC20WithSnapshot.sol` | `_snapshots`, `_countsSnapshots` | `_writeSnapshot` before every mint, burn, transfer | one entry per block, true of every finished block; what it answers for one stays |
| `token/base/GovernancePowerDelegationERC20.sol`, `lib/GovernancePowerWithSnapshot.sol` | snapshots and delegatees of two types of power | `delegate`, `delegateByType`, moving power, binary search | power = stake delegated; history is final; the bookkeeping never blocks stake |
| `stake/StakedTokenV3.sol`, `StakedTokenV2.sol` | all of the above, `_nonces` | the operations of the first one; delegation; `permit`, `delegateBySig` | the above, composed |
| `proposals/extend-stktoken-distribution/*`, `utils/VersionedInitializable.sol`, proxies | implementation, `lastInitializedRevision` | `upgradeToAndCall` + `initialize` | power and stake survive the change of code over the same storage |
| `stake/IncentivesController.sol` | assets of the lending pool, `_usersUnclaimedRewards` | `handleAction`, `claimRewards` | as DistributionManager, for lists of assets |

The contracts call one another inside a single transaction: `_transfer` first
settles the rewards of both parties (DistributionManager), then computes the
receiver's cooldown, then calls `_beforeTokenTransfer` (snapshots or power) and
last moves the balances. The EVM runs a transaction to its end or reverts it,
so there is no interleaving inside one; what is hard is the order of
transactions of several users over time, rounding, boundaries of times and
blocks, histories that are read long after they were written, and storage that
one implementation writes and another reads. `PROJECT.json` lists each of these
hazards at its line.

### Tasks

| Component | State | Operations | What makes it correct |
|---|---|---|---|
| `helpers/constants.ts`, `types.ts`, `misc-utils.ts`, `hardhat.config.ts` | none: tables per network | `getTokenPerNetwork` and its like, `getParamPerNetwork` | a network the tables do not know is refused, not defaulted |
| `tasks/deployments/*`, `tasks/migrations/*`, `helpers/contracts-*.ts` | `deployed-contracts.json`; the chain; the variables of the process | `deploy-StakedLay`, `initialize-StakedLay`, `deploy-` and `initialize-StakedTokenV2Rev3/4`, `common-deployment`, `dev-deployment` | what died half-way never spoils a later run; a proxy only ever runs what it was initialised for; every run ends |
| `helpers/etherscan-verification.ts` | retries left, sources to upload, the file of constructor arguments | `verifyContract`, `runTaskWithRetry` | retries run out, the file is there when read, all sources are tried before giving up |
| `tasks/proposals/*`, `tasks/deployments/deploy-staked-*-rev*.ts` | a fork of the chain; the number of the proposal | propose, vote, queue, execute; travel by blocks and seconds | one executes what one proposed, within the schedule of governance |
| `tasks/proposals/tenderly-(no-)exec-proposal-stks.ts` | round, holder, balances read before | cooldown, claim, wait, redeem, stake again | redemptions hit their window, no stake is lost over swallowed errors |
| `tasks/deployments/deploy-bpt.ts` | listener, address learnt from an event | `deploy-CRP` | the pool is the run's own, and closed before it is staked |
| `helpers/contracts-helpers.ts` (typed data) with `permit`, `delegateBySig`, `delegateByTypeBySig` | signatures in anybody's hands, nonces | build, sign, submit | one effect per signature, of what was signed, where it was signed for |

A task is a process: between two `await`s other processes run, transactions are
mined or fail, and the process may die. What outlives it is the JSON file (the
only thing two tasks share besides the chain) and the chain. This is where
interleaving, crash and restart, lost transactions, retries and waiting are.

## 2. Modules

| Module | Models | Built on |
|---|---|---|
| `TokenSums` | the total of a `mapping(address => uint256)` | |
| `DistributionManager` | the arithmetic of one asset: operators on its record | |
| `StakedToken` | the first implementation as a state machine; `hook` is the storage of the virtual `_beforeTokenTransfer`, a parameter | `DistributionManager`, `TokenSums` |
| `RewardedStake` | what stakers are promised, without indexes and timestamps | `TokenSums` |
| `ERC20WithSnapshot` | writing balance snapshots | |
| `GovernancePowerDelegation` | power, delegation, search in the history | `ERC20WithSnapshot` |
| `StakedTokenV3` | the later implementations: `StakedToken` with the power of the delegatees as its hook, plus the delegations | `StakedToken` (INSTANCE), `GovernancePowerDelegation` |
| `UpgradedStakedToken` | the proxy: `StakedToken` with snapshots until the upgrade, `StakedTokenV3` after it, one storage; each with its own `DISTRIBUTION_END` | both (INSTANCE) |
| `SignedMessages` | allowances, `permit`, `delegateBySig`, `delegateByTypeBySig` on one nonce per owner, over the later implementations | `StakedTokenV3` |
| `IncentivesController` | rewards for deposits in the lending pool: `handleAction` of several aTokens, claims over lists of them | `DistributionManager`, `TokenSums` |
| `NetworkConfig` | the tables per network, as functions that are partial or total as the code's lookups are | |
| `ProxyLifecycle` | what holders may count on: a proxy is set up once, for one administrator, and only moves forward | |
| `Deployment` | the deployment tasks over the file and the chain; implements `ProxyLifecycle` | `NetworkConfig`, `ProxyLifecycle` (INSTANCE) |
| `EtherscanVerification` | upload and retries of several verifications | `NetworkConfig` |
| `ForkRehearsal` | the governance tasks on a fork, with the governance they count on | |
| `RewardRounds` | the rounds of claims and redemptions | |
| `PoolDeployment` | `deploy-CRP` | `NetworkConfig` |
| `TypedData` | wallet and token each computing the hash of a message; signatures submitted anywhere with any arguments | |
| `Tasks` | the four groups of tasks that do not meet (verification, rehearsals, rounds, pool) side by side: a behaviour is about one of them, its `scenario`, and the variables of the others stay | `EtherscanVerification`; `ForkRehearsal`, `RewardRounds`, `PoolDeployment` (INSTANCE) |
| `MC*` | instances for TLC. `MCDeployment` holds several scenarios, of which a behaviour goes through one | the module named |
| `StakeLemmas` | lemmas about the operators of the contracts: products and quotients, sums of mappings, the reward index, moving power | `DistributionManager`, `GovernancePowerDelegation`, `TokenSums` |
| `StakedToken_proofs`, `StakedTokenV3_proofs` (of `SignedMessages` too), `UpgradedStakedToken_proofs`, `IncentivesController_proofs`, `Tasks_proofs`, `TypedData_proofs`, `Deployment_proofs` | theorems | the module named; the first four `StakeLemmas` |

Correspondence. A variable has the name of the Solidity state variable it
stands for. `asset` is `assets[address(this)]`, `ledger` the balances of LAY
(`STAKED_TOKEN` and `REWARD_TOKEN`, one token in the deployment), `now`
is `block.timestamp` and, since a block has one timestamp and timestamps grow,
also the order of `block.number`. An action is a transaction with the name of
its function, a `require` or a SafeMath check a guard, and internal functions
are operators (`UpdateUserAsset`, `GetNextCooldownTimestamp`, `WriteSnapshot`,
`MoveDelegates`). `claimed`, `emitted`, `activated`, `ended`, `upgraded`, `backdated`,
`accepted`, `granted` and `spent` are history: no guard reads them.

Some things deserve a word.

* `_beforeTokenTransfer` is virtual, so `StakedToken` takes it as a constant
  operator returning the *set* of states its storage may be left in: empty if
  it reverts. Its theorems hold for every hook, those of the later
  implementations included. `stake` to `getTotalRewardsBalance` have the same
  text in `StakedToken.sol`, `StakedTokenV2.sol`, `StakedTokenV3.sol` and the
  contracts of the proposals, which is why they are one module.
* Constructors that assign `_governance` write the storage of the
  implementation; the proxy's is set by `initialize`, to zero in
  `tasks/deployments/initialize-StakedLay.ts`, and by nothing later. The
  callback `onTransfer` is therefore never made and not modelled.
* A signature is modelled by what it achieves: `ecrecover` yields the owner only
  for the very fields that were signed, so a message is a call with its owner
  as a parameter and its nonce as a guard. `permit` does not receive the nonce
  but hashes the current one, which refuses the same messages. Anybody may
  submit any message at any time; an owner who signed none is the behaviour in
  which none is submitted. The lines mapped are those of `StakedTokenV2Rev3`,
  whose text is that of `StakedTokenV3` and of the vendored `ERC20`.
* The aTokens that call `handleAction` are not in the repository. The model
  keeps their balances and passes those from before the change, as `ATokenMock`
  and the interface say. A staked claim passes through the controller to the
  PSM, whose `stake` is `StakedToken!Stake`.
* A task is a sequence of steps, one per `await` of the code (`Deployment!Script`,
  `ForkRehearsal!Script`); an action takes the first of them. A step reads the
  file and the chain when it is taken, as the code does. `Interrupt` is the death
  of the process or an error of its node: the variables of the run are gone, the
  file and the chain stay. `Mine` lets a creation succeed or fail, in the order
  of nonces of its account.
* `disturbed` and `alone` are history: whether a transaction of the run failed,
  and whether another run went on at the same time. `DoneMeansDeployed` and
  `RerunRecovers` speak of runs that are alone, however many died before; what
  still holds of runs at once is `RunsWhatItWasInitialisedFor` and the refinement.
* An address in the file has no type: it may be of a creation that failed, or of
  the implementation where a proxy is expected (the key `StakedLay` stands for
  the implementation until the last step of `deploy-StakedLay`). A call of an
  address without code, or of a proxy without implementation, succeeds and does
  nothing (`InitializeIgnored`, `UpgradeIgnored`).
* In `TypedData` a hash is what is hashed, so two messages collide only if they
  are equal. The contract `deploy-CRP` deploys is named `Starlay stakedToken`,
  while the helpers build every domain for `Staked Lay`: such messages are never
  accepted by it, and `RecognisesItsSigner` speaks of tokens of that name.
* On a fork a transaction is mined in a block of its own. Ten blocks of margin in
  the tasks stand for two in the model, and ten seconds for one: what matters is
  that they are more than none and less than the grace period.
* The manager tells `configureAssets` the total staked. The model passes
  `totalSupply` or, as the deployment does, zero together with no emission.

## 3. Runs

| Run | Instance | Shows |
|---|---|---|
| `cooldown` | 2 users, 2 LAY each, cooldown 2, window 1, 7 blocks, amounts 0..2 | `TypeOK`, `Backed`, `CooldownOfStake`, `RedeemWaits`, `CooldownOnlyPostponed` |
| `rewards` | 2 users, 1 LAY each, emission 0 or 1, 5 blocks, end of distribution inside the run, scale 3, vault of 1 LAY | `Solvent`, `KeepsPromise` |
| `v3_power` | 3 users in the first block with every delegation of either type; 2 of them over 3 blocks with redemption and one delegation at a time | `PowerIsDelegatedStake`, `PowerAtBlockIsHistory`, `DelegationNeverBlocks` |
| `upgrade` | 2 users, 3 blocks, an upgrade at any time | `PowerSurvivesUpgrade`, `VotesAtBlockAreHistory`, `FinishedBlocksAreFinal` |
| `upgrade_rewards` | 2 users, 5 blocks, emission 1, the end of the distribution moved by two blocks, before it is reached or after | `SolventThroughUpgrade` |
| `signed` | 2 users, one block, two nonces, deadlines before and at it, allowances up to 2 | `SpentWithinGrants`, `MessagesInOrder` |
| `controller` | 2 users, 2 aTokens, lists of two with repetitions, 3 blocks, emission 1, scale 3 | `WithinEmission`, `EarnedIsKept`, `ViewIsWhatAClaimGives` |
| `deployments` | five scenarios of at most 2 or 3 runs: one operator again and again, two at once, two accounts, upgrades by hand, single tasks asked for less than they need | `TypeOK`, `RunsWhatItWasInitialisedFor`, `DoneMeansDeployed`, `RerunRecovers`, `LifecycleHolds`, `EveryRunEnds` |
| `tasks` | scenarios: four verifications with 4 attempts; on a Tenderly fork three rehearsals, on a hardhat one two (`MaxRuns`, by the variable `network`); two rounds over two holders of each token; three deployments of a pool | `TasksTypeOK`, `RetriesAreCounted`, `ParametersAtHand`, `UploadsAllInTheEnd`, `EveryVerificationEnds`, `FinishedMeansExecuted`, `RehearsalsKeepTheSchedule`, `EveryRehearsalEnds`, `NothingIsLost`, `RedeemsInWindow`, `FindsItsOwnPool`, `StakedPoolsAreClosed` |
| `typed_data` | 2 users, 2 tokens and a fork of one, any two signatures, two nonces | `TakesEffectOnce`, `RecognisesItsSigner`, `OnlyWhatWasSigned` |
| `upgrade_propositions` | as `upgrade` | violated: `PropositionsAtBlockAreHistory` |
| `deploy_stepwise` | one operator, three single tasks in any order | violated: `FinishedMeansUpgraded` |

Bounds and why they are enough.

* Two users give every pair of sender and receiver, and a transfer to oneself;
  three are used where a delegatee can differ from both parties of a transfer.
* `cooldown`: seven seconds hold a cooldown, its window, its expiry and a second
  cooldown; amounts up to everything one owns and above it after a transfer,
  and zero, which `_transfer` accepts. A weighted average needs a stake of two
  and a receipt of one to truncate.
* `rewards`: each user starts with one LAY, so supplies are 1 and 2 and, once a
  claim is staked again, 3; with `SCALE` 3 the index truncates at a supply of 2
  and every reward truncates. The distribution ends one second before the last
  block; the vault holds less than can be earned, so that claims are refused,
  and more LAY reaches it by redemption to its address. Cooldowns start in the
  first blocks, as rewards do not depend on them; redemption still happens.
* `upgrade_rewards`: the upgrade may come in any of five blocks, before, at and
  after an update of the index and before, at and after the old end; time passes
  beyond both ends. With an upgrade after the old end there are one or two seconds
  that only the new code pays (`backdated`), none of them or some if an update
  came between.
* `controller`: lists of two from two assets name both in either order or one
  twice, leaving out the other; amounts of one and of more than anything earned
  make partial and full claims; the vault cannot pay everything.
* `signed`: with two nonces a message can be overtaken, replayed and cancelled by
  another of either kind. One block is enough, as only the deadline looks at the
  time and messages past it are offered too. Own stake, transfers and
  delegations of the holder happen in between.
* `deployments`: an attempt that dies leaves a file and a chain, a second one runs
  over them, and a third one over what both left; with a third run nothing new can
  be left behind, as every key of the file has been written by each of two. Two
  operators at once are at any two steps of their tasks. Each of the five sets
  of requests has the tasks that meet at the same keys.
* `tasks`: four attempts are one to fail, one to be told that the sources do not do,
  one in between, and the last. Voting lasts 12 and 7 blocks on the two executors,
  more than what a rehearsal does before it votes, as on the chain; the whales
  can pay for two rehearsals, so that the third meets an empty purse. The rounds
  have two holders of each token, one of whom stakes both; a transaction comes in the
  second of the one before or two later, and three of those with one more second fill
  the window of seven to its end. Pools: two runs of one
  signer that died, and one that goes on, with up to three blocks of others between.
* `typed_data`: two signatures are what it takes to confuse one message with
  another; the third place is a fork of the first, with its accounts and nonces.
* Histories of three blocks have a first, a last and a skipped entry, which are
  the cases of the binary search for up to three snapshots.
* `FewCooldowns`, `FewDelegations` bound how often cooldowns and delegations are
  made. `PowerView` leaves out the reward record (constant when there is no
  emission, but for a timestamp that nothing depends on then) and the
  histories no checked property reads.
* Symmetry: no definition or property names a user; in the power runs only
  users with the same initial LAY are exchanged.
* Deadlock is not a property of the contracts: the models stop at
  `MAX_TIME` only if no transaction is possible, which does not occur
  (`configureAssets` and claims of nothing are always possible). The tasks do stop,
  when `MaxRuns` of them have ended, and so does `TypedData` when time and signatures
  are used up; there `CHECK_DEADLOCK` is off, and that nothing stops earlier is
  what `EveryRunEnds`, `EveryVerificationEnds` and `EveryRehearsalEnds` say.

Fairness. For the contracts none is assumed and no liveness is claimed: they do
nothing by themselves, no code schedules a user's transaction. What matters
instead, that a user who *does* act is not refused, is stated as safety:
`DelegationNeverBlocks` and `Backed`. A task is a process that its event loop
runs, and a chain mines what it was sent: `Deployment` has weak fairness of
`Advance(o)`, the run's next step, and of `Mine`; `EtherscanVerification` of each
call's `Step`, `Tasks` of that and of the rehearsal's `Fork!Continue`, on a fork of either kind. Nobody has to start a
run, and nobody has to interrupt one for it to end. `RewardRounds` and
`PoolDeployment` claim no liveness and have none.

Two disagreements, each a run that TLC must find violated:

* `getPowerAtBlock` for proposition power, after the upgrade of a token with
  stakers in it: with no snapshot an account gets its present balance for any
  past block, and zero for the same blocks once a first snapshot exists.
* `initialize-StakedTokenV2Rev3` says it has finished the initialisation over a
  proxy that was deployed and not set up: the upgrade is delegated to no code.

Others met while modelling. The models have the code's behaviour; no run is about
the difference.

* `totalSupplyAt(blockNumber)` returns the present supply (its comment speaks of
  LAY, which is not minted; the staked token is, by every stake).
* The controller's `getRewardsBalance` counts an asset twice that a list names
  twice, a claim over the same list once; `ViewIsWhatAClaimGives` is therefore
  about lists without repetitions.
* An upgrade that moves `DISTRIBUTION_END` and comes after the old end pays the
  seconds between the two as well, once, at the rate of the moment and to the stakers
  of the moment, unless an update of the asset has passed them: the record knows when
  it was updated last and not which end was in force. `UpgradedStakedToken!Backdated`
  is that amount, and `SolventThroughUpgrade` says that nothing beyond it and
  `emitted` is ever paid or owed. All later revisions have one `DISTRIBUTION_END` in
  the model.
* `common-deployment` hands `tokenAddress` and `vaultAddress` to `deploy-StakedLay`
  and not to `deploy-StakedTokenV2Rev3`, so the upgraded proxy stakes the
  configured token; and it ends with `initialize-StakedTokenV2Rev4` without having
  deployed that contract, so over an empty file it throws there. This is why
  `RerunRecovers` excepts the last step.
* `deploy-StakedTokenV2Rev4` checks its optional parameter `emissionManager`
  and not the default it computed, so that it throws whenever it is left out.
* `proposal-vault-approval:tenderly` reads the number of its proposal before it
  creates it; two operators of one fork may exchange theirs.
  `FinishedMeansExecuted` is checked for one operator of a fork.
* The rounds go through ten holders of a list that has nine, and the tenth throws
  outside of the `try`; `redeemed`, which is printed, has the rewards subtracted
  from a balance that does not lack them.
* `deploy-CRP` adds its listener after the transaction was mined and waits for good
  if the provider has polled that block already; it verifies whatever its flag is.

## 4. Theorems

They hold for all users (finitely many), amounts, times, scales, hooks, lists,
operators, tasks and numbers of runs, under the assumptions named in the modules:

* `DistributionManagerAssumption`, `StakedTokenAssumption` (users are finitely
  many and none of them is the token, the vault or the zero address),
  `StartAssumption` (timestamps are larger than cooldown plus window, which is what
  `block.timestamp.sub(...)` in `getNextCooldownTimestamp` needs), the same for the
  later implementations (`StakedTokenV3Assumption`, `InheritedAssumption`,
  `UpgradedStakedTokenAssumption`), and `RevisionsAssumption`: a later implementation
  has a revision above one.
* `IncentivesControllerAssumption`: numbers are natural, and the PSM is not a
  recipient of claims.
* `TimesAssumption`, `RoundsAssumption` (a second and three times the longest of the
  `GAPS` before a transaction fit into the window in which a stake can be redeemed: with
  the thirty minutes most networks have, three gaps of just under ten minutes each),
  `ForkAssumption` (voting takes two blocks or more, the
  grace period a second or more; what the whales send, 32 times 100 000 LAY, is
  enough to propose and to make the quorum, and the operator is not a whale).
* `SignersAssumption` and `TypedDataAssumption`: "no code" is not an account,
  "nobody" is not a user, a place is a chain and an address. `RequestsAssumption`:
  hardhat refuses the name of a task it does not have.

| Theorem | States |
|---|---|
| `StakedToken_proofs!TypeCorrect`, `SupplyBacked`, `CooldownsHaveStake` | `[]TypeOK`, `[]Backed`, `[]CooldownOfStake` |
| `StakedToken_proofs!RedemptionsWait`, `CooldownsPostponed` | `RedeemWaits`, `CooldownOnlyPostponed` |
| `StakedToken_proofs!RewardsSolvent` | `[]Solvent` |
| `StakedToken_proofs!ImplementsRewardedStake` | `KeepsPromise`: the refinement of `RewardedStake` |
| `StakedTokenV3_proofs!PowerIsStake` | `[]PowerIsDelegatedStake` |
| `StakedTokenV3_proofs!PastPowerStands` | `[]PowerAtBlockIsHistory` |
| `StakedTokenV3_proofs!NothingBlocks` | `[]DelegationNeverBlocks` |
| `StakedTokenV3_proofs!StakeInherited`, `CooldownsInherited` | `Backed`, `CooldownOfStake`, `Solvent`; `RedeemWaits`, `CooldownOnlyPostponed` of the later implementations |
| `StakedTokenV3_proofs!GrantsAreLimits`, `OrderOfMessages` | `[]SpentWithinGrants`, `[]MessagesInOrder` |
| `StakedTokenV3_proofs!ActingIsHolding`, `MandatesKeepPower` | `SignedMessages` implements `StakedTokenV3`; so power stays right when others act by allowance and message |
| `UpgradedStakedToken_proofs!UpgradeKeepsPower` | `[]PowerSurvivesUpgrade` |
| `UpgradedStakedToken_proofs!UpgradeKeepsVotes`, `FinishedBlocksStay` | `[]VotesAtBlockAreHistory`, `FinishedBlocksAreFinal` |
| `UpgradedStakedToken_proofs!UpgradeKeepsRewards` | `[]SolventThroughUpgrade` |
| `UpgradedStakedToken_proofs!UpgradeKeepsStake`, `UpgradeKeepsCooldowns` | `Backed`, `CooldownOfStake`; `RedeemWaits`, `CooldownOnlyPostponed` across the upgrade |
| `IncentivesController_proofs!PoolStaysWithinEmission` | `[]WithinEmission` |
| `IncentivesController_proofs!EarningsAreKept` | `EarnedIsKept` |
| `IncentivesController_proofs!ViewIsRight` | `[]ViewIsWhatAClaimGives` |
| `Tasks_proofs!RetriesCounted`, `ParametersKept`, `AllUploadedInTheEnd` | `[]RetriesAreCounted`, `[]ParametersAtHand`, `[]UploadsAllInTheEnd` |
| `Tasks_proofs!TypeCorrect` | `[]TasksTypeOK` |
| `Tasks_proofs!StakesReturn`, `NoRoundIsLate` | `[]NothingIsLost`, `RedeemsInWindow` |
| `Tasks_proofs!TakesItsOwnPool`, `ClosedBeforeStaked` | `[]FindsItsOwnPool`, `[]StakedPoolsAreClosed` |
| `Tasks_proofs!RehearsalsExecute`, `ScheduleKept` | `FinishedMeansExecuted`, `RehearsalsKeepTheSchedule` |
| `TypedData_proofs!EffectOnce`, `SignedOnly` | `[]TakesEffectOnce`, `OnlyWhatWasSigned` |
| `TypedData_proofs!SignerRecognised` | `[]RecognisesItsSigner` |
| `TypedData_proofs!TypeCorrect` | `[]TypeOK` |
| `Deployment_proofs!RunsWhatInitialised` | `[]RunsWhatItWasInitialisedFor` |
| `Deployment_proofs!TasksKeepLifecycle` | `LifecycleHolds`, when `Network` is not `hardhat` |
| `Deployment_proofs!TypeCorrect` | `[]TypeOK` |
| `Deployment_proofs!FinishedIsDeployed` | `DoneMeansDeployed` |
| `Deployment_proofs!RerunRecoversEverywhere` | `RerunRecovers`, when `Network` is `Configured` |

*Stake and cooldowns.* `TypeOK` alone is not inductive: that `totalSupply` stays
natural when `redeem` subtracts needs the supply to be the sum of the balances,
and that the weighted average does not divide by zero needs a cooldown to imply
a balance. The inductive invariant `IInv` is the conjunction of `TypeOK`,
`Backed`, `CooldownOfStake`, the order of the indexes and the bounds on `now`. There
is a lemma per action; the average lies between the two timestamps it averages,
which is what `RedeemWaits` and `CooldownOnlyPostponed` come down to.

*Rewards.* `RewardInv` adds to `IInv` that all user indexes are at most the
asset's, that the last update is not in the future, and that what is paid,
recorded and pending *at the index of the last update*, together with what the
emission since then may add, is within the rewards emitted. `Solvent` is
not inductive, because it reads the index of now; it follows as the index of
now is what an update now would write. One update multiplies the supply with a
rounded down quotient, one settlement turns `balance * (index - userIndex)`
into a rounded down reward: both are lemmas of `StakeLemmas`. Sums over users are
cardinalities (`TokenSums`), so that changing one or two values of a mapping
changes the total as expected without induction over the set of users.

*The promise.* `ImplementsRewardedStake` maps every step of `StakedToken` to one of
`RewardedStake`. Only a settlement is not immediate: what a user has earned is
the recorded reward plus what is pending at the index of now, so recording the pending
part is a stutter as to what is earned, and the second that passes is an `Accrue`
whose effect on each user is that of a difference of two rounded quotients.

*Power.* `PowerInv`: delegatees are users, every history is a sequence of strictly
increasing blocks that are not in the future, its last entry is the sum of the stakes
delegated to its owner, and its entries that are over are those of `ended`. Every
step of the token is one of four kinds (stake moves, a delegation changes,
neither, or the next block), so the invariant is proved per kind and not per action.
That moving power never subtracts more than is there is the sum again: a
delegatee's power is at least each stake in it. The binary search is a recursive
function on intervals; that it returns the last entry not after the block is
proved by induction on the width of the interval. (The induction theorems of the
library take an operator and cannot be used; induction over a *set* of naturals,
which is what is needed for a statement about a function, is proved from
`WellFoundedInduction` in `StakeLemmas!Induction`.)

*The later implementations and the upgrade* inherit the theorems of the first one: they
are instances of `StakedToken` with other hooks, and `StakedToken_proofs` is
instantiated with them. `SignedSpec => Spec` (`ActingIsHolding`) carries them on to
holders who act by allowance and message. Before the upgrade nobody has delegated and
there is no history of proposition power; under this reading (`UpgradeInv`) the
storage of the first implementation already satisfies what the later ones need,
whenever the upgrade comes. That answers for finished blocks stay
(`FinishedBlocksAreFinal`) is read off two facts: a history only grows by entries of
the present block, and the search looks no further than the block it is asked for.
For rewards (`UpgradeRewardInv`) a second end of distribution changes what the
emission since the last update may add (`PendingAcross`): by no more than `Backdated`,
so that the invariant of the later implementations holds with `emitted + backdated`
in the place of `emitted`.

*Messages.* `MandateInv`: what was spent is at most what was granted less the
allowance that is left; what was accepted carries nonces in order, all behind the
owner's.

*Controller.* `WithinEmission` is not inductive for the reason `Solvent` is not.
`RewardInv` has the types, soundness of every asset's record, supplies that are sums,
and the bound with all terms at the last update of each asset: `SCALE` times what is
claimed and recorded, plus what is due in each asset, is at most `SCALE` times
what was emitted. The loop of a claim over a list is a recursive function;
`ClaimOverMet` gives what it leaves of every asset in closed form, so that an asset
named twice is settled once. `EarningsAreKept` and `ViewIsRight` are read off the
same form, the latter by a sum over the rows of the list (`SumOfRows`).

*Verification.* For any number of calls and of attempts. A
call moves alone (`OneCallMoves`), so the inductive invariant is one of each
call: the attempts made and the ones left add up, the file is there from the
first delay to the end, and after an answer `unable` or at the last attempt the
sources are all. The three properties are read off it.

*Rounds and pool.* `RoundsInv` says what a holder's wallet and stake may be at each point
of the round, and when the cooldown was; `PoolInv` which of the pools are whose, that
the listener is set before the transaction, and what has been done with a pool whose
shares are staked.

*Rehearsals.* `ForkInv` is what every step keeps: types (`ForkTypes`), transactions that
are mined in blocks up to now (`Mined`), votes covered by the LAY of those who cast
them at the proposal's block (`Covered`), and implementations that are on the
chain (`ImplementationsDeployed`). Power at a block is a sum over the transfers until
then; that a transfer moves it and later blocks leave it is an induction on their number
(`TransferMoves`, `PowerSettles`). To show that a rehearsal executes what it
proposed, `Course` describes the run by the steps left of its script: an extension
has 23, an approval 19, and the last of any are fixed (`FromEnd`). `OnScript`
says that the script is a rest of the task's; the others what has been
done by then: the LAY is there (`Funded`), the proposal is not yet made or is
the run's own (`BeforeProposal`, `OwnProposal`), its votes are cast (`Votes`), and its
block and second are where the schedule wants them (`OnTime`), until it is executed
(`Executes`). There is a lemma per action. For one operator of a fork: with two the
statement is false (section 3).

*Typed data.* For any users, places, values, deadlines, nonces and signatures.
`EffectOnce`: what took effect carries a nonce that is behind its owner's nonce at
that place, and each effect moves the nonce on, so no later one carries it. That
two messages hash equal only with equal chain, token, kind and fields
(`PermitHash`, `DelegateHash`, `DelegateByTypeHash`) comes down to tuples of
different lengths or type hashes. `SignedOnly`: a step changes an allowance or
a delegation only by an accepted call, whose signer is the owner, and the owner's
signature of that hash is among those made. `SignerRecognised`: for tokens of the
name the helpers use, the hash of the wallet is the hash the token computes.

*Deployment.* For any operators, accounts, tasks with any parameters, tables per
network and number of runs. For the first two theorems nothing is assumed of the
file, from which the addresses of every transaction come: what the chain and the
proxy check is enough. Every step of a task is one of four things that happen to
the chain (`AdvanceMoves`): a creation is sent, one is mined or fails, a proxy is
initialised, a proxy is upgraded. `ChainInv` is the property with the shape of
the contracts, and that a proxy without implementation is as it was created;
`RunInv` says that every run is one of the `Signers`. The second theorem is the
refinement: a proxy is created in the eyes of its holders when it is mined, and
`upgradeToAndCall` on a proxy nobody set up is refused because no account is its
administrator. On the network `hardhat` a new process has a new chain, so that
proxies disappear; hence its condition. `TypeCorrect` needs that every step of
every script is one the run can take (`TasksAreScripts`).

*Deployments that end.* A run that ends well says nothing any more of what it did:
its variables are gone. `Course` therefore describes every run by the steps of its
script that it has taken, and, as long as no other run meets it, what they left
(`History`): the contract made last is the one the run holds (`Made`); a name
registered, and not registered again, is of the contract made before, and that
contract is there if the script has waited for it (`Filed`); what was read is
what the file has (`ReadImplementation`, `ReadProxy`); and the proxy runs what it
was told to (`SetUp`). One lemma per kind of step shows that the next step keeps
these. What the scripts file, and in which order `common-deployment` speaks to its
proxy (`Files`, `Commonly`), is a statement about finite sequences put together by
concatenation, shown for each piece and carried over to the whole, so that no
case is made for each of the ways `verify` and the parameters change a script.

*Deployments that are run again.* `RerunRecoversEverywhere` shows that no step of an
undisturbed `common-deployment` can throw but the last. `Recoverable` adds to
`Course` that a creation of the run that failed has disturbed it and that a proxy
stays as it was made until the run initialises it (`Sound`); that the name of
revision 4 is of a contract of that revision, in whatever state (`Rev4Named`);
`Accepted` that every constructor and check of the script accepts the arguments it
gets, and `Standing` where the run's proxy is at each call it makes. The hypothesis
`Configured` is needed: the network has a chain id, outlives its runs and has a token, a
vault and an administrator, and the operator gives no zero address for the first two.
It holds of `kovan`, `main`, `astar`, `shiden` and `shibuya`; `rinkeby` has zero
addresses in its tables, and the chain of `hardhat` dies with the process.

Model-checked only: that runs come to an end (`EveryRunEnds`,
`EveryVerificationEnds`, `EveryRehearsalEnds`), since liveness under fairness is out
of reach of the prover. There is no recursive operator in the
modules with theorems: the binary search, the loop of a claim and the sums are
recursive functions or cardinalities, and what they compute is shown by `Induction`.

## 5. Not modelled

* A stale `totalStaked` in the input of `configureAssets`.
* Overflow: SafeMath reverts on it for `uint256`; snapshots are cut to `uint128`,
  which the supply of LAY does not reach. Only `increaseAllowance`, where a caller
  chooses the number, has the guard.
* The lending pool, the LAY token, Balancer's factories and the governance: they
  are not in the repository, and modelled only as far as the tasks use them.
* Of the proxies `changeAdmin` and `upgradeTo`, which no task calls.
* Gas, amounts of transactions, printing and formatting (`print-configs`,
  `coverters.ts`), the registration of contracts with Tenderly and the signer of
  Defender. `verify-sc` runs a task `set-DRE` that does not exist and so ends
  before it does anything. `contracts-accessors.ts` has further accessors and
  deployments that only the tests call.
* The network `hardhat` as a chain that dies with its process is in `Deployment!Start`
  but in no run; the runs are about a chain that stays.

## 6. Plan

Done: the contracts (core, promise, snapshots, power, upgrade, messages,
controller), the tasks (deployment, verification, rehearsals, rounds, pool) and
the typed data between them; 44 theorems. Next, in this order:

1. The controller composed with the staked token it stakes claims in, one ledger.
2. A manager whose reading of the supply ages before `configureAssets`.
