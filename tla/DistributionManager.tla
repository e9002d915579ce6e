------------------------ MODULE DistributionManager ------------------------
(***************************************************************************)
(* The reward accounting of contracts/stake/DistributionManager.sol as     *)
(* operators on one AssetData record: the record the contract keeps for an *)
(* asset in `assets`, with the index of every user in `users`.  The        *)
(* contracts that inherit from DistributionManager (the staked token, the  *)
(* incentives controller) apply them to their own state.                   *)
(*                                                                         *)
(* The index is the number of reward units a single staked unit has earned *)
(* since the beginning, scaled by SCALE.  Integers are unbounded here: the *)
(* code's SafeMath reverts on overflow, and no run comes near 2^256.       *)
(***************************************************************************)
EXTENDS Naturals

CONSTANTS DISTRIBUTION_END,  \* block.timestamp of deployment + duration
          SCALE              \* 10**uint256(PRECISION)

ASSUME DistributionManagerAssumption ==
  /\ DISTRIBUTION_END \in Nat
  /\ SCALE \in Nat \ {0}

AssetData(Users) ==
  [emissionPerSecond : Nat, lastUpdateTimestamp : Nat, index : Nat,
   users : [Users -> Nat]]

(* An asset nobody has configured or staked yet: storage is zero. *)
InitAssetData(Users) ==
  [emissionPerSecond |-> 0, lastUpdateTimestamp |-> 0, index |-> 0,
   users |-> [u \in Users |-> 0]]

(* A record as the contracts keep it: no user is ahead of the asset, and    *)
(* the last update is not in the future.                                    *)
SoundAsset(asset, Users, now) ==
  /\ asset \in AssetData(Users)
  /\ asset.lastUpdateTimestamp <= now
  /\ \A u \in Users : asset.users[u] <= asset.index

----------------------------------------------------------------------------
(* _getAssetIndex: the index at time `now`.  Nothing accrues after         *)
(* DISTRIBUTION_END, nor while nobody stakes.                              *)

Earlier(s, t) == IF s <= t THEN s ELSE t

(* Mutant: the distribution never ends. *)
GetAssetIndexPastTheEnd(asset, totalBalance, now) ==
  IF asset.emissionPerSecond = 0 \/ totalBalance = 0
  THEN asset.index
  ELSE (asset.emissionPerSecond * (now - asset.lastUpdateTimestamp) * SCALE)
          \div totalBalance + asset.index

GetAssetIndex(asset, totalBalance, now) ==
  IF \/ asset.emissionPerSecond = 0
     \/ totalBalance = 0
     \/ asset.lastUpdateTimestamp = now
     \/ asset.lastUpdateTimestamp >= DISTRIBUTION_END
  THEN asset.index
  ELSE LET timeDelta == Earlier(now, DISTRIBUTION_END) - asset.lastUpdateTimestamp
       IN  (asset.emissionPerSecond * timeDelta * SCALE) \div totalBalance
             + asset.index

(* _getRewards: the division truncates. *)
GetRewards(principalUserBalance, reserveIndex, userIndex) ==
  (principalUserBalance * (reserveIndex - userIndex)) \div SCALE

----------------------------------------------------------------------------
(* _updateAssetStateInternal: at most one accrual per block.timestamp. *)
UpdateAssetState(asset, totalStaked, now) ==
  IF now = asset.lastUpdateTimestamp
  THEN asset
  ELSE [asset EXCEPT !.index = GetAssetIndex(asset, totalStaked, now),
                     !.lastUpdateTimestamp = now]

(* _updateUserAssetInternal: the state it writes ... *)
UpdateUserAsset(asset, user, totalStaked, now) ==
  LET updated == UpdateAssetState(asset, totalStaked, now)
  IN  [updated EXCEPT !.users[user] = updated.index]

(* ... and the accrued rewards it returns.  With no stake, or with an index *)
(* that has not moved, the product is zero.                                 *)
AccruedRewards(asset, user, stakedByUser, totalStaked, now) ==
  GetRewards(stakedByUser,
             UpdateAssetState(asset, totalStaked, now).index,
             asset.users[user])

(* Mutant: the new emission is applied to the past. *)
ConfigureAssetFirst(asset, emissionPerSecond, totalStaked, now) ==
  UpdateAssetState([asset EXCEPT !.emissionPerSecond = emissionPerSecond],
                   totalStaked, now)

(* The body of the loop of configureAssets: the past is accounted for with *)
(* the totalStaked the caller gives, then the emission changes.            *)
ConfigureAsset(asset, emissionPerSecond, totalStaked, now) ==
  [UpdateAssetState(asset, totalStaked, now)
     EXCEPT !.emissionPerSecond = emissionPerSecond]

(* _getUnclaimedRewards, for one asset: a view, nothing is written. *)
GetUnclaimedRewards(asset, user, stakedByUser, totalStaked, now) ==
  GetRewards(stakedByUser, GetAssetIndex(asset, totalStaked, now), asset.users[user])
============================================================================
