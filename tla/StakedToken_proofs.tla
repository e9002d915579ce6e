------------------------- MODULE StakedToken_proofs -------------------------
(***************************************************************************)
(* For any number of users, any tokens, cooldown, window and emissions:    *)
(* the staked token is typed, backed, and its cooldowns belong to stakes.  *)
(*                                                                         *)
(* The three invariants need each other.  Supply minus a redemption is a   *)
(* natural number because no balance exceeds the sum of all; the average   *)
(* of two cooldowns never divides by zero because a cooldown implies a     *)
(* balance; a reward is a natural number because no user's index is ahead  *)
(* of the asset's.  IInv is their conjunction with that fact about the     *)
(* indexes and with the clock being past any cooldown and window.          *)
(***************************************************************************)
EXTENDS StakedToken, StakeLemmas

IInv ==
  /\ TypeOK
  /\ now > COOLDOWN_SECONDS + UNSTAKE_WINDOW
  /\ SoundAsset(asset, Users, now)
  /\ Backed
  /\ CooldownOfStake

(* The deployment satisfies the invariant. *)
LEMMA InitIInv == Init => IInv
<1> SUFFICES ASSUME Init PROVE IInv
  OBVIOUS
<1> USE StakedTokenAssumption, StartAssumption DEF Init
<1>1. asset \in AssetData(Users)
  BY DEF InitAssetData, AssetData
<1>2. TypeOK
  BY <1>1 DEF TypeOK
<1>3. SoundAsset(asset, Users, now)
  BY <1>1 DEF SoundAsset, InitAssetData
<1>4. Backed
  <2>1. ledger[STAKED_TOKEN][THIS] \in Nat
    BY DEF Tokens, Accounts
  <2> QED
    BY <2>1, SumZero DEF Backed
<1>5. CooldownOfStake
  BY DEF CooldownOfStake
<1> QED
  BY <1>2, <1>3, <1>4, <1>5 DEF IInv

----------------------------------------------------------------------------
(* Facts about one user and about one payment, in any reachable state. *)

(* The rewards accrued to a user are a natural number. *)
LEMMA AccruedNat ==
  ASSUME IInv, NEW u \in Users
  PROVE  Accrued(u) \in Nat
<1>1. /\ now \in Nat /\ totalSupply \in Nat /\ balances[u] \in Nat
      /\ SoundAsset(asset, Users, now)
  BY DEF IInv, TypeOK
<1> QED
  BY <1>1, AccruedRewardsNat DEF Accrued

(* getNextCooldownTimestamp gives a recipient no cooldown it did not have,  *)
(* no earlier one, and none in the future.                                  *)
LEMMA NextCooldown ==
  ASSUME IInv, NEW f \in Nat, f <= now, NEW amount \in Nat, NEW to \in Users
  PROVE  LET next == GetNextCooldownTimestamp(f, amount, to, balances[to])
         IN  /\ next \in Nat
             /\ next # 0 => /\ stakersCooldowns[to] # 0
                            /\ stakersCooldowns[to] <= next
                            /\ next <= now
<1> DEFINE cd == stakersCooldowns[to]
           minimalValid == (now - COOLDOWN_SECONDS) - UNSTAKE_WINDOW
           from == IF minimalValid > f THEN now ELSE f
           average == (amount * from + balances[to] * cd) \div (amount + balances[to])
           next == GetNextCooldownTimestamp(f, amount, to, balances[to])
<1>1. /\ cd \in Nat /\ now \in Nat /\ balances[to] \in Nat
      /\ COOLDOWN_SECONDS \in Nat /\ UNSTAKE_WINDOW \in Nat
      /\ cd # 0 => balances[to] # 0 /\ cd <= now
  BY StakedTokenAssumption DEF IInv, TypeOK, CooldownOfStake
<1>2. from \in Nat /\ from <= now
  BY <1>1
<1>3. next = IF cd = 0 \/ minimalValid > cd THEN 0
             ELSE IF from < cd THEN cd ELSE average
  BY DEF GetNextCooldownTimestamp
<1>4. cd # 0 /\ cd <= from => average \in Nat /\ cd <= average /\ average <= from
  <2> HIDE DEF from, cd
  <2> SUFFICES ASSUME cd # 0, cd <= from
               PROVE  average \in Nat /\ cd <= average /\ average <= from
    OBVIOUS
  <2>1. amount + balances[to] # 0
    BY <1>1
  <2> QED
    BY <1>1, <1>2, <2>1, WeightedAverage
<1> HIDE DEF cd, minimalValid, from, average, next
<1>5. minimalValid \in Int
  BY <1>1 DEF minimalValid
<1>6. next \in Nat /\ (next # 0 => cd # 0 /\ cd <= next /\ next <= now)
  BY <1>1, <1>2, <1>3, <1>4, <1>5
<1> QED
  BY <1>6 DEF next, cd

(* A payment takes the amount from its sender and nothing from others. *)
LEMMA Payment ==
  ASSUME IInv, NEW token \in Tokens, NEW from \in Accounts, NEW to \in Accounts,
         NEW amount \in Nat, PayToken(token, from, to, amount)
  PROVE  /\ ledger' \in [Tokens -> [Accounts -> Nat]]
         /\ \A t \in Tokens, a \in Accounts \ {from} : ledger'[t][a] >= ledger[t][a]
         /\ ledger'[token][from] >= ledger[token][from] - amount
         /\ from # to => ledger'[token][to] = ledger[token][to] + amount
<1> DEFINE debited == [ledger EXCEPT ![token][from] = @ - amount]
<1>1. /\ ledger \in [Tokens -> [Accounts -> Nat]]
      /\ ledger[token][from] >= amount
      /\ ledger' = [debited EXCEPT ![token][to] = @ + amount]
  BY DEF IInv, TypeOK, PayToken
<1>2. \A t \in Tokens, a \in Accounts : ledger[t][a] \in Nat
  BY <1>1
<1>3. /\ debited \in [Tokens -> [Accounts -> Nat]]
      /\ \A t \in Tokens, a \in Accounts :
           debited[t][a] = IF t = token /\ a = from THEN ledger[t][a] - amount
                           ELSE ledger[t][a]
  BY <1>1, <1>2
<1> HIDE DEF debited
<1>4. /\ ledger' \in [Tokens -> [Accounts -> Nat]]
      /\ \A t \in Tokens, a \in Accounts :
           ledger'[t][a] = IF t = token /\ a = to THEN debited[t][a] + amount
                           ELSE debited[t][a]
  BY <1>1, <1>3
<1> QED
  BY <1>1, <1>2, <1>3, <1>4

(* The stake a user holds is part of the supply. *)
LEMMA BalanceInSupply ==
  ASSUME IInv, NEW u \in Users
  PROVE  balances[u] <= totalSupply
<1>1. balances \in [Users -> Nat] /\ totalSupply = Sum(balances)
  BY DEF IInv, TypeOK, Backed
<1> QED
  BY <1>1, SumType, StakedTokenAssumption

----------------------------------------------------------------------------
(* One lemma per transaction. *)

LEMMA StakeStep ==
  ASSUME IInv, NEW sender \in Users, NEW onBehalfOf \in Users, NEW amount \in Amounts,
         Stake(sender, onBehalfOf, amount)
  PROVE  IInv'
<1> USE StakedTokenAssumption
<1> DEFINE next == GetNextCooldownTimestamp(0, amount, onBehalfOf, balances[onBehalfOf])
<1>0. /\ TypeOK /\ Backed /\ CooldownOfStake /\ SoundAsset(asset, Users, now)
      /\ amount \in Nat \ {0} /\ now' = now /\ activated' = activated
      /\ claimed' = claimed /\ emitted' = emitted
  BY DEF IInv, Stake, historyVars
<1>1. Accrued(onBehalfOf) \in Nat
  BY AccruedNat
<1>2. /\ next \in Nat
      /\ next # 0 => /\ stakersCooldowns[onBehalfOf] # 0
                     /\ stakersCooldowns[onBehalfOf] <= next
                     /\ next <= now
  BY <1>0, NextCooldown DEF TypeOK
<1> HIDE DEF next
<1>3. /\ balances' = [balances EXCEPT ![onBehalfOf] = @ + amount]
      /\ totalSupply' = totalSupply + amount
      /\ stakersCooldowns' = [stakersCooldowns EXCEPT ![onBehalfOf] = next]
      /\ stakerRewardsToClaim' =
           [stakerRewardsToClaim EXCEPT ![onBehalfOf] = @ + Accrued(onBehalfOf)]
      /\ asset' = UpdateUserAsset(asset, onBehalfOf, totalSupply, now)
      /\ PayToken(STAKED_TOKEN, sender, THIS, amount)
  BY DEF Stake, next
<1>4. SoundAsset(asset', Users, now')
  BY <1>0, <1>3, UpdatedAssetSound DEF TypeOK
<1>5. /\ ledger' \in [Tokens -> [Accounts -> Nat]]
      /\ ledger'[STAKED_TOKEN][THIS] = ledger[STAKED_TOKEN][THIS] + amount
  <2>1. STAKED_TOKEN \in Tokens /\ sender \in Accounts /\ THIS \in Accounts /\ sender # THIS
    BY DEF Tokens, Accounts
  <2> QED
    BY <1>0, <1>3, <2>1, Payment
<1>6. TypeOK'
  BY <1>0, <1>1, <1>2, <1>3, <1>4, <1>5 DEF TypeOK, SoundAsset
<1>7. Backed'
  <2>1. balances \in [Users -> Nat] /\ balances[onBehalfOf] \in Nat
    BY <1>0 DEF TypeOK
  <2>2. /\ balances' \in [Users -> Nat] /\ balances'[onBehalfOf] = balances[onBehalfOf] + amount
        /\ \A v \in Users \ {onBehalfOf} : balances'[v] = balances[v]
    BY <1>3, <1>6, <2>1 DEF TypeOK
  <2>3. Sum(balances) \in Nat /\ Sum(balances') \in Nat
    BY <1>0, <1>6, SumType DEF TypeOK
  <2>4. Sum(balances') = totalSupply'
    <3>1. Sum(balances') + balances[onBehalfOf] = Sum(balances) + balances'[onBehalfOf]
      BY <2>1, <2>2, SumChange
    <3>2. balances[onBehalfOf] \in Nat /\ amount \in Nat
      BY <1>0, <2>1
    <3>3. Sum(balances) = totalSupply
      BY <1>0 DEF Backed
    <3>4. /\ totalSupply' = totalSupply + amount
          /\ balances'[onBehalfOf] = balances[onBehalfOf] + amount
      BY <1>3, <2>2
    <3> QED
      BY <2>3, <3>1, <3>2, <3>3, <3>4
  <2>5. ledger[STAKED_TOKEN][THIS] \in Nat
    BY <1>0 DEF TypeOK, Tokens, Accounts
  <2> QED
    BY <1>0, <1>3, <1>5, <2>4, <2>5 DEF Backed, TypeOK
<1>8. CooldownOfStake'
  <2>1. \A u \in Users : balances'[u] >= balances[u]
    BY <1>0, <1>3 DEF TypeOK
  <2>2. \A u \in Users \ {onBehalfOf} : stakersCooldowns'[u] = stakersCooldowns[u]
    BY <1>0, <1>3 DEF TypeOK
  <2>3. stakersCooldowns'[onBehalfOf] = next
    BY <1>0, <1>3 DEF TypeOK
  <2>4. TypeOK /\ TypeOK'
    BY <1>0, <1>6
  <2> QED
    BY <1>0, <1>2, <2>1, <2>2, <2>3, <2>4 DEF CooldownOfStake, TypeOK
<1> QED
  BY <1>0, <1>4, <1>6, <1>7, <1>8 DEF IInv

LEMMA RedeemStep ==
  ASSUME IInv, NEW sender \in Users, NEW to \in Accounts, NEW amount \in Amounts,
         Redeem(sender, to, amount)
  PROVE  IInv'
<1> USE StakedTokenAssumption
<1> DEFINE amountToRedeem == IF amount > balances[sender] THEN balances[sender] ELSE amount
<1>0. /\ TypeOK /\ Backed /\ CooldownOfStake /\ SoundAsset(asset, Users, now)
      /\ amount \in Nat \ {0} /\ now' = now /\ activated' = activated
      /\ claimed' = claimed /\ emitted' = emitted
  BY DEF IInv, Redeem, historyVars
<1>1. Accrued(sender) \in Nat
  BY AccruedNat
<1>2. /\ amountToRedeem \in Nat
      /\ amountToRedeem <= balances[sender]
      /\ balances[sender] <= totalSupply
      /\ balances[sender] \in Nat /\ totalSupply \in Nat
  BY <1>0, BalanceInSupply DEF TypeOK
<1>3. /\ balances' = [balances EXCEPT ![sender] = @ - amountToRedeem]
      /\ totalSupply' = totalSupply - amountToRedeem
      /\ stakersCooldowns' =
           [stakersCooldowns EXCEPT ![sender] =
              IF balances[sender] = amountToRedeem THEN 0 ELSE @]
      /\ stakerRewardsToClaim' =
           [stakerRewardsToClaim EXCEPT ![sender] = @ + Accrued(sender)]
      /\ asset' = UpdateUserAsset(asset, sender, totalSupply, now)
      /\ PayToken(STAKED_TOKEN, THIS, to, amountToRedeem)
  BY DEF Redeem
<1> HIDE DEF amountToRedeem
<1>4. SoundAsset(asset', Users, now')
  BY <1>0, <1>2, <1>3, UpdatedAssetSound DEF TypeOK
<1>5. /\ ledger' \in [Tokens -> [Accounts -> Nat]]
      /\ ledger'[STAKED_TOKEN][THIS] >= ledger[STAKED_TOKEN][THIS] - amountToRedeem
  <2>1. STAKED_TOKEN \in Tokens /\ THIS \in Accounts
    BY DEF Tokens, Accounts
  <2> QED
    BY <1>2, <1>3, <2>1, Payment
<1>6. TypeOK'
  <2>1. balances[sender] - amountToRedeem \in Nat /\ totalSupply - amountToRedeem \in Nat
    BY <1>2
  <2> QED
    BY <1>0, <1>1, <1>3, <1>4, <1>5, <2>1 DEF TypeOK, SoundAsset
<1>7. Backed'
  <2>1. balances \in [Users -> Nat] /\ balances[sender] - amountToRedeem \in Nat
    BY <1>0, <1>2 DEF TypeOK
  <2>2. /\ balances' \in [Users -> Nat] /\ balances'[sender] = balances[sender] - amountToRedeem
        /\ \A v \in Users \ {sender} : balances'[v] = balances[v]
    BY <1>3, <1>6, <2>1 DEF TypeOK
  <2>3. Sum(balances) \in Nat /\ Sum(balances') \in Nat
    BY <1>0, <1>6, SumType DEF TypeOK
  <2>4. Sum(balances') = totalSupply'
    <3>1. Sum(balances') + balances[sender] = Sum(balances) + balances'[sender]
      BY <2>1, <2>2, SumChange
    <3>2. balances[sender] \in Nat /\ amountToRedeem \in Nat
      BY <1>0, <1>2, <2>1
    <3>3. Sum(balances) = totalSupply
      BY <1>0 DEF Backed
    <3>4. /\ totalSupply' = totalSupply - amountToRedeem
          /\ balances'[sender] = balances[sender] - amountToRedeem
      BY <1>3, <2>2
    <3> QED
      BY <2>3, <3>1, <3>2, <3>3, <3>4
  <2>5. ledger[STAKED_TOKEN][THIS] \in Nat /\ ledger'[STAKED_TOKEN][THIS] \in Nat
    BY <1>0, <1>5 DEF TypeOK, Tokens, Accounts
  <2> QED
    BY <1>0, <1>2, <1>3, <1>5, <2>4, <2>5 DEF Backed
<1>8. CooldownOfStake'
  <2>1. \A u \in Users \ {sender} : /\ stakersCooldowns'[u] = stakersCooldowns[u]
                                    /\ balances'[u] = balances[u]
    BY <1>0, <1>3 DEF TypeOK
  <2>2. /\ balances'[sender] = balances[sender] - amountToRedeem
        /\ stakersCooldowns'[sender] = IF balances[sender] = amountToRedeem THEN 0
                                       ELSE stakersCooldowns[sender]
    BY <1>0, <1>3 DEF TypeOK
  <2> QED
    BY <1>0, <1>2, <2>1, <2>2 DEF CooldownOfStake
<1> QED
  BY <1>0, <1>4, <1>6, <1>7, <1>8 DEF IInv

LEMMA CooldownStep ==
  ASSUME IInv, NEW sender \in Users, Cooldown(sender)
  PROVE  IInv'
<1> USE StakedTokenAssumption
<1>0. /\ TypeOK /\ Backed /\ CooldownOfStake /\ SoundAsset(asset, Users, now)
      /\ now > COOLDOWN_SECONDS + UNSTAKE_WINDOW
  BY DEF IInv
<1>1. /\ balances[sender] # 0
      /\ stakersCooldowns' = [stakersCooldowns EXCEPT ![sender] = now]
      /\ activated' = [activated EXCEPT ![sender] = now]
      /\ UNCHANGED <<balances, totalSupply, stakerRewardsToClaim, asset, ledger, now,
                     claimed, emitted>>
  BY DEF Cooldown, stakeVars, rewardVars
<1>2. TypeOK'
  BY <1>0, <1>1 DEF TypeOK
<1>3. now # 0
  BY <1>0 DEF TypeOK
<1>4. CooldownOfStake'
  BY <1>0, <1>1, <1>3 DEF CooldownOfStake, TypeOK
<1> QED
  BY <1>0, <1>1, <1>2, <1>4 DEF IInv, Backed

LEMMA ClaimRewardsStep ==
  ASSUME IInv, NEW sender \in Users, NEW to \in Accounts,
         NEW amount \in Amounts \cup {MAX_UINT}, ClaimRewards(sender, to, amount)
  PROVE  IInv'
<1> USE StakedTokenAssumption
<1> DEFINE newTotalRewards == stakerRewardsToClaim[sender] + Accrued(sender)
           amountToClaim   == IF amount = MAX_UINT THEN newTotalRewards ELSE amount
<1>0. /\ TypeOK /\ Backed /\ CooldownOfStake /\ SoundAsset(asset, Users, now)
      /\ now > COOLDOWN_SECONDS + UNSTAKE_WINDOW
  BY DEF IInv
<1>1. newTotalRewards \in Nat
  <2>1. Accrued(sender) \in Nat /\ stakerRewardsToClaim[sender] \in Nat
    BY <1>0, AccruedNat DEF TypeOK
  <2> QED
    BY <2>1
<1>2. /\ amountToClaim <= newTotalRewards
      /\ asset' = UpdateUserAsset(asset, sender, totalSupply, now)
      /\ stakerRewardsToClaim' =
           [stakerRewardsToClaim EXCEPT ![sender] = newTotalRewards - amountToClaim]
      /\ PayToken(REWARD_TOKEN, REWARDS_VAULT, to, amountToClaim)
      /\ claimed' = [claimed EXCEPT ![sender] = @ + amountToClaim]
      /\ UNCHANGED <<balances, totalSupply, stakersCooldowns, now, emitted, activated>>
  BY DEF ClaimRewards, stakeVars
<1> HIDE DEF newTotalRewards
<1>3. amountToClaim \in Nat
  BY <1>1
<1> HIDE DEF amountToClaim
<1>4. SoundAsset(asset', Users, now')
  BY <1>0, <1>2, UpdatedAssetSound DEF TypeOK
<1>5. /\ ledger' \in [Tokens -> [Accounts -> Nat]]
      /\ ledger'[STAKED_TOKEN][THIS] >= ledger[STAKED_TOKEN][THIS]
  <2>1. /\ REWARD_TOKEN \in Tokens /\ STAKED_TOKEN \in Tokens
        /\ REWARDS_VAULT \in Accounts /\ THIS \in Accounts \ {REWARDS_VAULT}
    BY DEF Tokens, Accounts
  <2> QED
    BY <1>2, <1>3, <2>1, Payment
<1>6. TypeOK'
  <2>1. newTotalRewards - amountToClaim \in Nat
    BY <1>1, <1>2, <1>3
  <2> QED
    BY <1>0, <1>2, <1>3, <1>4, <1>5, <2>1 DEF TypeOK, SoundAsset
<1>7. Backed'
  <2>1. ledger[STAKED_TOKEN][THIS] \in Nat /\ ledger'[STAKED_TOKEN][THIS] \in Nat
    BY <1>0, <1>5 DEF TypeOK, Tokens, Accounts
  <2> QED
    BY <1>0, <1>2, <1>5, <2>1 DEF Backed, TypeOK
<1>8. CooldownOfStake'
  BY <1>0, <1>2 DEF CooldownOfStake
<1> QED
  BY <1>0, <1>2, <1>4, <1>6, <1>7, <1>8 DEF IInv

LEMMA TransferStep ==
  ASSUME IInv, NEW from \in Users, NEW to \in Users, NEW amount \in Amounts,
         Transfer(from, to, amount)
  PROVE  IInv'
<1> USE StakedTokenAssumption
<1> DEFINE updated == UpdateUserAsset(asset, from, totalSupply, now)
           next    == GetNextCooldownTimestamp(stakersCooldowns[from], amount,
                                               to, balances[to])
           debited == [balances EXCEPT ![from] = @ - amount]
<1>0. /\ TypeOK /\ Backed /\ CooldownOfStake /\ SoundAsset(asset, Users, now)
      /\ now > COOLDOWN_SECONDS + UNSTAKE_WINDOW /\ amount \in Nat
  BY DEF IInv
<1>1. \A u \in Users : Accrued(u) \in Nat
  BY AccruedNat
<1>2. /\ next \in Nat
      /\ next # 0 => /\ stakersCooldowns[to] # 0
                     /\ stakersCooldowns[to] <= next
                     /\ next <= now
  <2>1. stakersCooldowns[from] \in Nat /\ stakersCooldowns[from] <= now
    BY <1>0 DEF TypeOK, CooldownOfStake
  <2> QED
    BY <1>0, <2>1, NextCooldown
<1>3. /\ amount <= balances[from]
      /\ asset' = UpdateUserAsset(updated, to, totalSupply, now)
      /\ stakerRewardsToClaim' =
           [u \in Users |-> IF u \in {from, to}
                            THEN stakerRewardsToClaim[u] + Accrued(u)
                            ELSE stakerRewardsToClaim[u]]
      /\ stakersCooldowns' =
           IF from = to THEN stakersCooldowns
           ELSE [stakersCooldowns EXCEPT
                   ![to] = next,
                   ![from] = IF balances[from] = amount THEN 0 ELSE @]
      /\ balances' = [debited EXCEPT ![to] = @ + amount]
      /\ UNCHANGED <<totalSupply, ledger, now, claimed, emitted, activated>>
  BY DEF Transfer, historyVars
<1> HIDE DEF next
<1>4. SoundAsset(asset', Users, now')
  <2>1. SoundAsset(updated, Users, now)
    BY <1>0, UpdatedAssetSound DEF TypeOK
  <2> HIDE DEF updated
  <2> QED
    BY <1>0, <1>3, <2>1, UpdatedAssetSound DEF TypeOK
<1>5. /\ balances' \in [Users -> Nat]
      /\ \A u \in Users \ {from, to} : balances'[u] = balances[u]
      /\ from = to => balances' = balances
      /\ from # to => /\ balances'[from] = balances[from] - amount
                      /\ balances'[to] = balances[to] + amount
  <2>1. balances \in [Users -> Nat] /\ balances[from] - amount \in Nat
    BY <1>0, <1>3 DEF TypeOK
  <2>2. /\ debited \in [Users -> Nat]
        /\ debited[from] = balances[from] - amount
        /\ \A u \in Users \ {from} : debited[u] = balances[u]
    BY <2>1
  <2> HIDE DEF debited
  <2>3. /\ balances' \in [Users -> Nat]
        /\ balances'[to] = debited[to] + amount
        /\ \A u \in Users \ {to} : balances'[u] = debited[u]
    BY <1>0, <1>3, <2>2
  <2>4. from = to => \A u \in Users : balances'[u] = balances[u]
    BY <1>0, <2>1, <2>2, <2>3
  <2> QED
    BY <2>1, <2>2, <2>3, <2>4
<1>6. TypeOK'
  <2>1. stakerRewardsToClaim' \in [Users -> Nat]
    BY <1>0, <1>1, <1>3 DEF TypeOK
  <2>2. stakersCooldowns' \in [Users -> Nat]
    BY <1>0, <1>2, <1>3 DEF TypeOK
  <2> QED
    BY <1>0, <1>3, <1>4, <1>5, <2>1, <2>2 DEF TypeOK, SoundAsset
<1>7. Backed'
  <2>1. Sum(balances') = Sum(balances)
    <3>1. CASE from = to
      BY <1>5, <3>1
    <3>2. CASE from # to
      <4>1. balances \in [Users -> Nat] /\ balances[from] \in Nat /\ balances[to] \in Nat
        BY <1>0 DEF TypeOK
      <4>2. balances'[from] + balances'[to] = balances[from] + balances[to]
        BY <1>0, <1>5, <3>2, <4>1
      <4> QED
        BY <1>5, <3>2, <4>1, <4>2, SumMove
    <3> QED
      BY <3>1, <3>2
  <2> QED
    BY <1>0, <1>3, <2>1 DEF Backed
<1>8. CooldownOfStake'
  <2>1. CASE from = to
    BY <1>0, <1>3, <1>5, <2>1 DEF CooldownOfStake
  <2>2. CASE from # to
    <3>1. /\ stakersCooldowns'[to] = next
          /\ stakersCooldowns'[from] = IF balances[from] = amount THEN 0
                                       ELSE stakersCooldowns[from]
          /\ \A u \in Users \ {from, to} : stakersCooldowns'[u] = stakersCooldowns[u]
      BY <1>0, <1>3, <2>2 DEF TypeOK
    <3>2. balances[from] \in Nat /\ balances[to] \in Nat
      BY <1>0 DEF TypeOK
    <3>3. \A u \in Users :
            /\ stakersCooldowns[u] \in Nat /\ activated[u] \in Nat
            /\ stakersCooldowns[u] # 0 => /\ balances[u] # 0 /\ activated[u] # 0
                                          /\ activated[u] <= stakersCooldowns[u]
                                          /\ stakersCooldowns[u] <= now
      BY <1>0 DEF TypeOK, CooldownOfStake
    <3>4. now' = now /\ activated' = activated /\ now \in Nat
      BY <1>0, <1>3 DEF TypeOK
    <3>5. stakersCooldowns'[to] # 0 =>
            /\ balances'[to] # 0 /\ activated'[to] # 0
            /\ activated'[to] <= stakersCooldowns'[to] /\ stakersCooldowns'[to] <= now'
      <4>1. /\ stakersCooldowns[to] # 0 => balances'[to] # 0
            /\ stakersCooldowns'[to] = next
        BY <1>0, <1>5, <2>2, <3>1, <3>2, <3>3
      <4> QED
        BY <1>2, <3>3, <3>4, <4>1
    <3>6. stakersCooldowns'[from] # 0 =>
            /\ balances'[from] # 0 /\ activated'[from] # 0
            /\ activated'[from] <= stakersCooldowns'[from] /\ stakersCooldowns'[from] <= now'
      <4>1. stakersCooldowns'[from] # 0 =>
              balances'[from] # 0 /\ stakersCooldowns'[from] = stakersCooldowns[from]
        <5>1. amount \in Nat /\ balances'[from] = balances[from] - amount
          BY <1>0, <1>5, <2>2
        <5> QED
          BY <3>1, <3>2, <5>1
      <4> QED
        BY <3>3, <3>4, <4>1
    <3>7. \A u \in Users \ {from, to} : stakersCooldowns'[u] # 0 =>
            /\ balances'[u] # 0 /\ activated'[u] # 0
            /\ activated'[u] <= stakersCooldowns'[u] /\ stakersCooldowns'[u] <= now'
      BY <1>5, <3>1, <3>3, <3>4
    <3> QED
      BY <3>5, <3>6, <3>7 DEF CooldownOfStake
  <2> QED
    BY <2>1, <2>2
<1> QED
  BY <1>0, <1>3, <1>4, <1>6, <1>7, <1>8 DEF IInv

LEMMA ConfigureAssetsStep ==
  ASSUME IInv, NEW emission \in Nat, NEW totalStaked \in Nat,
         ConfigureAssets(emission, totalStaked)
  PROVE  IInv'
<1>0. /\ TypeOK /\ Backed /\ CooldownOfStake /\ SoundAsset(asset, Users, now)
      /\ now > COOLDOWN_SECONDS + UNSTAKE_WINDOW
  BY DEF IInv
<1>1. /\ asset' = ConfigureAsset(asset, emission, totalStaked, now)
      /\ UNCHANGED <<balances, totalSupply, stakersCooldowns, stakerRewardsToClaim,
                     ledger, now, claimed, emitted, activated>>
  BY DEF ConfigureAssets, stakeVars, historyVars
<1>2. SoundAsset(asset', Users, now')
  BY <1>0, <1>1, ConfigureAssetSound DEF TypeOK
<1>3. TypeOK'
  BY <1>0, <1>1, <1>2 DEF TypeOK, SoundAsset
<1> QED
  BY <1>0, <1>1, <1>2, <1>3 DEF IInv, Backed, CooldownOfStake

LEMMA TickStep ==
  ASSUME IInv, Tick
  PROVE  IInv'
<1> USE StakedTokenAssumption
<1>0. /\ TypeOK /\ Backed /\ CooldownOfStake /\ SoundAsset(asset, Users, now)
      /\ now > COOLDOWN_SECONDS + UNSTAKE_WINDOW
  BY DEF IInv
<1>1. /\ now' = now + 1
      /\ emitted' \in {emitted, emitted + asset.emissionPerSecond}
      /\ UNCHANGED <<balances, totalSupply, stakersCooldowns, stakerRewardsToClaim,
                     asset, ledger, claimed, activated>>
  BY DEF Tick, stakeVars, rewardVars
<1>2. now \in Nat /\ asset.emissionPerSecond \in Nat /\ asset.lastUpdateTimestamp \in Nat
  BY <1>0 DEF TypeOK, AssetData
<1>3. TypeOK'
  BY <1>0, <1>1, <1>2 DEF TypeOK
<1>4. SoundAsset(asset', Users, now')
  BY <1>0, <1>1, <1>2 DEF SoundAsset
<1>5. CooldownOfStake'
  BY <1>0, <1>1, <1>2 DEF CooldownOfStake, TypeOK
<1> QED
  BY <1>0, <1>1, <1>2, <1>3, <1>4, <1>5 DEF IInv, Backed

----------------------------------------------------------------------------
(* The invariant is inductive: every transaction, the passing of time and   *)
(* stuttering keep it.                                                      *)
LEMMA NextIInv == IInv /\ [Next]_vars => IInv'
<1> SUFFICES ASSUME IInv, [Next]_vars PROVE IInv'
  OBVIOUS
<1> USE StakedTokenAssumption
<1>1. ASSUME NEW sender \in Users, NEW onBehalfOf \in Users, NEW amount \in Amounts,
             Stake(sender, onBehalfOf, amount)
      PROVE  IInv'
  BY <1>1, StakeStep
<1>2. ASSUME NEW sender \in Users, NEW to \in Accounts, NEW amount \in Amounts,
             Redeem(sender, to, amount)
      PROVE  IInv'
  BY <1>2, RedeemStep
<1>3. ASSUME NEW sender \in Users, Cooldown(sender)
      PROVE  IInv'
  BY <1>3, CooldownStep
<1>4. ASSUME NEW sender \in Users, NEW to \in Accounts,
             NEW amount \in Amounts \cup {MAX_UINT}, ClaimRewards(sender, to, amount)
      PROVE  IInv'
  BY <1>4, ClaimRewardsStep
<1>5. ASSUME NEW from \in Users, NEW to \in Users, NEW amount \in Amounts,
             Transfer(from, to, amount)
      PROVE  IInv'
  BY <1>5, TransferStep
<1>6. ASSUME NEW emission \in Emissions, ConfigureAssets(emission, totalSupply)
      PROVE  IInv'
  <2>1. emission \in Nat /\ totalSupply \in Nat
    BY DEF IInv, TypeOK
  <2> QED
    BY <1>6, <2>1, ConfigureAssetsStep
<1>7. CASE ConfigureAssets(0, 0)
  BY <1>7, ConfigureAssetsStep
<1>8. CASE Tick
  BY <1>8, TickStep
<1>9. CASE UNCHANGED vars
  BY <1>9 DEF IInv, TypeOK, Backed, CooldownOfStake,
              vars, stakeVars, rewardVars, historyVars
<1> QED
  BY <1>1, <1>2, <1>3, <1>4, <1>5, <1>6, <1>7, <1>8, <1>9 DEF Next

(* Every reachable state satisfies the invariant. *)
LEMMA Invariance == Spec => []IInv
BY InitIInv, NextIInv, PTL DEF Spec

(* Every variable keeps its type: no balance, supply, reward or timestamp   *)
(* ever becomes negative, so no SafeMath subtraction of the transactions    *)
(* reverts where the model does not say so.                                 *)
THEOREM TypeCorrect == Spec => []TypeOK
<1>1. IInv => TypeOK
  BY DEF IInv
<1> QED
  BY <1>1, Invariance, PTL

(* The supply is what the holders hold, and the contract holds as much of   *)
(* the staked token.                                                        *)
THEOREM SupplyBacked == Spec => []Backed
<1>1. IInv => Backed
  BY DEF IInv
<1> QED
  BY <1>1, Invariance, PTL

(* A running cooldown has a stake, its owner's request and a date between   *)
(* that request and now.                                                    *)
THEOREM CooldownsHaveStake == Spec => []CooldownOfStake
<1>1. IInv => CooldownOfStake
  BY DEF IInv
<1> QED
  BY <1>1, Invariance, PTL

----------------------------------------------------------------------------
(* What a step may do to one user. *)

(* Supply shrinks only when a holder redeems within the unstake window.     *)
LEMMA RedeemOnlyInWindow ==
  ASSUME IInv, Next, NEW u \in Users,
         totalSupply' < totalSupply, balances'[u] < balances[u]
  PROVE  InUnstakeWindow(u)
<1> USE StakedTokenAssumption
<1>0. TypeOK /\ totalSupply \in Nat /\ balances[u] \in Nat
  BY DEF IInv, TypeOK
<1>1. ASSUME NEW sender \in Users, NEW onBehalfOf \in Users, NEW amount \in Amounts,
             Stake(sender, onBehalfOf, amount)
      PROVE  FALSE
  <2>1. totalSupply' = totalSupply + amount /\ amount \in Nat
    BY <1>1 DEF Stake
  <2> QED
    BY <1>0, <2>1
<1>2. ASSUME NEW sender \in Users, NEW to \in Accounts, NEW amount \in Amounts,
             Redeem(sender, to, amount)
      PROVE  InUnstakeWindow(u)
  <2>1. CASE u = sender
    BY <1>2, <2>1 DEF Redeem
  <2>2. CASE u # sender
    <3>1. balances'[u] = balances[u]
      BY <1>0, <1>2, <2>2 DEF Redeem, TypeOK
    <3> QED
      BY <1>0, <3>1
  <2> QED
    BY <2>1, <2>2
<1>3. (\/ \E sender \in Users : Cooldown(sender)
       \/ \E sender \in Users, to \in Accounts, amount \in Amounts \cup {MAX_UINT} :
            ClaimRewards(sender, to, amount)
       \/ \E from, to \in Users, amount \in Amounts : Transfer(from, to, amount)
       \/ \E emission \in Emissions : ConfigureAssets(emission, totalSupply)
       \/ ConfigureAssets(0, 0)
       \/ Tick) => FALSE
  <2> SUFFICES totalSupply' # totalSupply
    BY DEF Cooldown, ClaimRewards, Transfer, ConfigureAssets, Tick, stakeVars
  <2> QED
    BY <1>0
<1> QED
  BY <1>1, <1>2, <1>3 DEF Next

(* No step brings a cooldown forward: it postpones it, clears it, or leaves *)
(* it alone.                                                                *)
LEMMA CooldownMoves ==
  ASSUME IInv, Next, NEW u \in Users
  PROVE  stakersCooldowns'[u] = 0 \/ stakersCooldowns[u] <= stakersCooldowns'[u]
<1> USE StakedTokenAssumption
<1>0. /\ stakersCooldowns \in [Users -> Nat] /\ now \in Nat
      /\ \A v \in Users : stakersCooldowns[v] \in Nat /\ stakersCooldowns[v] <= now
  BY DEF IInv, TypeOK, CooldownOfStake
<1> DEFINE Goal == stakersCooldowns'[u] = 0 \/ stakersCooldowns[u] <= stakersCooldowns'[u]
<1>1. ASSUME NEW sender \in Users, NEW onBehalfOf \in Users, NEW amount \in Amounts,
             Stake(sender, onBehalfOf, amount)
      PROVE  Goal
  <2> DEFINE next == GetNextCooldownTimestamp(0, amount, onBehalfOf, balances[onBehalfOf])
  <2>1. stakersCooldowns' = [stakersCooldowns EXCEPT ![onBehalfOf] = next]
    BY <1>1 DEF Stake
  <2>2. next \in Nat /\ (next # 0 => stakersCooldowns[onBehalfOf] <= next)
    <3>1. 0 \in Nat /\ 0 <= now /\ amount \in Nat
      BY <1>0
    <3> QED
      BY <3>1, NextCooldown
  <2> HIDE DEF next
  <2> QED
    BY <1>0, <2>1, <2>2
<1>2. ASSUME NEW sender \in Users, NEW to \in Accounts, NEW amount \in Amounts,
             Redeem(sender, to, amount)
      PROVE  Goal
  <2>1. stakersCooldowns'[u] \in {0, stakersCooldowns[u]}
    BY <1>0, <1>2 DEF Redeem
  <2> QED
    BY <1>0, <2>1
<1>3. ASSUME NEW sender \in Users, Cooldown(sender)
      PROVE  Goal
  <2>1. stakersCooldowns' = [stakersCooldowns EXCEPT ![sender] = now]
    BY <1>3 DEF Cooldown
  <2> QED
    BY <1>0, <2>1
<1>4. ASSUME NEW from \in Users, NEW to \in Users, NEW amount \in Amounts,
             Transfer(from, to, amount)
      PROVE  Goal
  <2> DEFINE next == GetNextCooldownTimestamp(stakersCooldowns[from], amount,
                                              to, balances[to])
  <2>1. next \in Nat /\ (next # 0 => stakersCooldowns[to] <= next)
    <3>1. /\ stakersCooldowns[from] \in Nat /\ stakersCooldowns[from] <= now
          /\ amount \in Nat
      BY <1>0
    <3> QED
      BY <3>1, NextCooldown
  <2>2. stakersCooldowns' =
          IF from = to THEN stakersCooldowns
          ELSE [stakersCooldowns EXCEPT
                  ![to]   = next,
                  ![from] = IF balances[from] = amount THEN 0 ELSE @]
    BY <1>4 DEF Transfer
  <2> HIDE DEF next
  <2>3. \/ stakersCooldowns'[u] \in {0, stakersCooldowns[u]}
        \/ u = to /\ stakersCooldowns'[u] = next
    BY <1>0, <2>2
  <2> QED
    BY <1>0, <2>1, <2>3
<1>5. (\/ \E sender \in Users, to \in Accounts, amount \in Amounts \cup {MAX_UINT} :
            ClaimRewards(sender, to, amount)
       \/ \E emission \in Emissions : ConfigureAssets(emission, totalSupply)
       \/ ConfigureAssets(0, 0)
       \/ Tick) => Goal
  <2> SUFFICES stakersCooldowns' = stakersCooldowns => Goal
    BY DEF ClaimRewards, ConfigureAssets, Tick
  <2> QED
    BY <1>0
<1> QED
  BY <1>1, <1>2, <1>3, <1>4, <1>5 DEF Next

(* What that says of a step: redemption waits, and no cooldown begins       *)
(* earlier than it did, except not at all.                                  *)
LEMMA StepWaits ==
  ASSUME IInv, [Next]_vars, NEW u \in Users,
         totalSupply' < totalSupply, balances'[u] < balances[u]
  PROVE  activated[u] # 0 /\ now > activated[u] + COOLDOWN_SECONDS
<1>1. Next
  <2>1. totalSupply \in Nat
    BY DEF IInv, TypeOK
  <2> QED
    BY <2>1 DEF vars, stakeVars
<1>2. InUnstakeWindow(u)
  BY <1>1, RedeemOnlyInWindow
<1>3. /\ stakersCooldowns[u] \in Nat /\ activated[u] \in Nat /\ now \in Nat
      /\ COOLDOWN_SECONDS \in Nat /\ UNSTAKE_WINDOW \in Nat
      /\ now > COOLDOWN_SECONDS + UNSTAKE_WINDOW
      /\ stakersCooldowns[u] # 0 =>
           activated[u] # 0 /\ activated[u] <= stakersCooldowns[u]
  BY StakedTokenAssumption DEF IInv, TypeOK, CooldownOfStake
<1> QED
  BY <1>2, <1>3 DEF InUnstakeWindow

LEMMA StepPostpones ==
  ASSUME IInv, [Next]_vars, NEW u \in Users, stakersCooldowns'[u] < stakersCooldowns[u]
  PROVE  stakersCooldowns'[u] = 0
<1>1. IInv'
  BY NextIInv
<1>2. stakersCooldowns[u] \in Nat /\ stakersCooldowns'[u] \in Nat
  BY <1>1 DEF IInv, TypeOK
<1>3. Next
  BY <1>2 DEF vars
<1>4. stakersCooldowns'[u] = 0 \/ stakersCooldowns[u] <= stakersCooldowns'[u]
  BY <1>3, CooldownMoves
<1> QED
  BY <1>2, <1>4

(* Whoever takes stake out of the contract asked for it himself, more than  *)
(* COOLDOWN_SECONDS before, whatever he sent or received meanwhile.         *)
THEOREM RedemptionsWait == Spec => RedeemWaits
<1>1. IInv /\ [Next]_vars =>
        [\A u \in Users :
           totalSupply' < totalSupply /\ balances'[u] < balances[u] =>
             activated[u] # 0 /\ now > activated[u] + COOLDOWN_SECONDS]_vars
  BY StepWaits
<1> QED
  BY <1>1, Invariance, PTL DEF Spec, RedeemWaits

(* A cooldown never begins earlier than it did, except not at all.          *)
THEOREM CooldownsPostponed == Spec => CooldownOnlyPostponed
<1>1. IInv /\ [Next]_vars =>
        [\A u \in Users :
           stakersCooldowns'[u] < stakersCooldowns[u] => stakersCooldowns'[u] = 0]_vars
  BY StepPostpones
<1> QED
  BY <1>1, Invariance, PTL DEF Spec, CooldownOnlyPostponed

----------------------------------------------------------------------------
(***************************************************************************)
(* For any number of users, any emissions and any scale, the staked token  *)
(* never owes more rewards than were emitted.                              *)
(*                                                                         *)
(* Solvent is not inductive: it compares the emission with an index that   *)
(* was rounded down, and one more second can move the rounded index by     *)
(* more than that second's emission.  What is inductive is the comparison  *)
(* at the last update: the rewards settled at the stored index plus the    *)
(* emission since then are within what was emitted (RewardInv).            *)
(***************************************************************************)

(* The index getTotalRewardsBalance would use now. *)
CurrentIndex == GetAssetIndex(asset, totalSupply, now)

(* The rewards of a user at the stored index, scaled. *)
SettledTo(u) ==
  SCALE * (claimed[u] + stakerRewardsToClaim[u])
    + balances[u] * (asset.index - asset.users[u])

(* What was emitted since the last update of the index. *)
PendingEmission == EmissionSince(asset, totalSupply, now)

RewardInv ==
  /\ IInv
  /\ Sum([u \in Users |-> SettledTo(u)]) + SCALE * PendingEmission <= SCALE * emitted

----------------------------------------------------------------------------
(* Types of the quantities of one state. *)
LEMMA RewardTypes ==
  ASSUME IInv
  PROVE  /\ CurrentIndex \in Nat /\ asset.index \in Nat /\ CurrentIndex >= asset.index
         /\ SCALE \in Nat \ {0} /\ emitted \in Nat /\ SCALE * emitted \in Nat
         /\ totalSupply \in Nat /\ now \in Nat
         /\ asset.emissionPerSecond \in Nat /\ asset.lastUpdateTimestamp \in Nat
         /\ asset.lastUpdateTimestamp <= now
         /\ \A u \in Users : /\ balances[u] \in Nat /\ asset.users[u] \in Nat
                             /\ asset.users[u] <= asset.index
                             /\ claimed[u] \in Nat /\ stakerRewardsToClaim[u] \in Nat
<1>1. TypeOK /\ SoundAsset(asset, Users, now) /\ SCALE \in Nat \ {0}
  BY DistributionManagerAssumption DEF IInv
<1>2. CurrentIndex \in Nat /\ CurrentIndex >= asset.index
  BY <1>1, IndexGrows DEF TypeOK, CurrentIndex
<1>3. emitted \in Nat /\ SCALE * emitted \in Nat
  BY <1>1, MulNat DEF TypeOK
<1> QED
  BY <1>1, <1>2, <1>3 DEF TypeOK, SoundAsset, AssetData

LEMMA SettledNat ==
  ASSUME IInv
  PROVE  [u \in Users |-> SettledTo(u)] \in [Users -> Nat]
<1> SUFFICES ASSUME NEW u \in Users PROVE SettledTo(u) \in Nat
  OBVIOUS
<1>1. /\ claimed[u] + stakerRewardsToClaim[u] \in Nat
      /\ asset.index - asset.users[u] \in Nat
      /\ balances[u] \in Nat /\ SCALE \in Nat
  BY RewardTypes
<1>2. /\ SCALE * (claimed[u] + stakerRewardsToClaim[u]) \in Nat
      /\ balances[u] * (asset.index - asset.users[u]) \in Nat
  BY <1>1, MulNat
<1> QED
  BY <1>2 DEF SettledTo

(* The movement of the index costs all stakers together no more than the    *)
(* emission since its last update.                                          *)
LEMMA IndexWithinEmission ==
  ASSUME IInv
  PROVE  /\ PendingEmission \in Nat
         /\ SCALE * PendingEmission \in Nat
         /\ (CurrentIndex - asset.index) * totalSupply <= SCALE * PendingEmission
<1>1. now \in Nat /\ totalSupply \in Nat /\ SoundAsset(asset, Users, now)
  BY DEF IInv, TypeOK
<1> QED
  BY <1>1, IndexCost DEF CurrentIndex, PendingEmission

(* The rewards at the current index are those at the stored one plus the    *)
(* movement of the index for every staked unit.                             *)
LEMMA DistributedSum ==
  ASSUME IInv
  PROVE  /\ [u \in Users |-> DistributedTo(u)] \in [Users -> Nat]
         /\ Sum([u \in Users |-> DistributedTo(u)]) =
              Sum([u \in Users |-> SettledTo(u)])
                + (CurrentIndex - asset.index) * totalSupply
<1> DEFINE d == CurrentIndex - asset.index
           settled == [u \in Users |-> SettledTo(u)]
           distributed == [u \in Users |-> DistributedTo(u)]
<1>1. d \in Nat
  BY RewardTypes
<1>2. settled \in [Users -> Nat]
  BY SettledNat
<1>3. \A u \in Users : DistributedTo(u) = SettledTo(u) + d * balances[u]
  <2> SUFFICES ASSUME NEW u \in Users
               PROVE  DistributedTo(u) = SettledTo(u) + d * balances[u]
    OBVIOUS
  <2> DEFINE paid == SCALE * (claimed[u] + stakerRewardsToClaim[u])
             old  == asset.index - asset.users[u]
  <2>1. /\ balances[u] \in Nat /\ old \in Nat
        /\ claimed[u] + stakerRewardsToClaim[u] \in Nat /\ SCALE \in Nat
        /\ CurrentIndex - asset.users[u] = old + d
    BY RewardTypes
  <2>2. DistributedTo(u) = paid + balances[u] * (CurrentIndex - asset.users[u])
    BY DEF DistributedTo, CurrentIndex
  <2>3. SettledTo(u) = paid + balances[u] * old
    BY DEF SettledTo
  <2>4. paid \in Nat /\ balances[u] * old \in Nat /\ d * balances[u] \in Nat
    <3> HIDE DEF d, old
    <3> QED
      BY <1>1, <2>1, MulNat
  <2> HIDE DEF d, old, paid
  <2>5. balances[u] * (old + d) = balances[u] * old + d * balances[u]
    BY <1>1, <2>1, MulDist
  <2> QED
    BY <2>1, <2>2, <2>3, <2>4, <2>5
<1>4. \A u \in Users : d * balances[u] \in Nat
  <2> HIDE DEF d
  <2> QED
    BY <1>1, RewardTypes, MulNat
<1>5. distributed = [u \in Users |-> settled[u] + d * balances[u]]
  <2> HIDE DEF d
  <2> QED
    BY <1>3
<1>6. distributed \in [Users -> Nat]
  <2> HIDE DEF d, settled
  <2> QED
    BY <1>2, <1>4, <1>5
<1>7. Sum([u \in Users |-> settled[u] + d * balances[u]]) = Sum(settled) + d * Sum(balances)
  <2> HIDE DEF d, settled
  <2>1. balances \in [Users -> Nat] /\ IsFiniteSet(Users)
    BY StakedTokenAssumption DEF IInv, TypeOK
  <2> QED
    BY <1>1, <1>2, <2>1, SumLinear
<1>8. Sum(balances) = totalSupply
  BY DEF IInv, Backed
<1> QED
  BY <1>5, <1>6, <1>7, <1>8

(* The invariant at the last update implies solvency now. *)
LEMMA RewardInvSolvent == RewardInv => Solvent
<1> SUFFICES ASSUME RewardInv PROVE Solvent
  OBVIOUS
<1> DEFINE settled == Sum([u \in Users |-> SettledTo(u)])
           distributed == Sum([u \in Users |-> DistributedTo(u)])
           moved == (CurrentIndex - asset.index) * totalSupply
<1>1. IInv /\ settled + SCALE * PendingEmission <= SCALE * emitted
  BY DEF RewardInv
<1>2. distributed = settled + moved
  BY <1>1, DistributedSum
<1>3. SCALE * PendingEmission \in Nat /\ moved <= SCALE * PendingEmission
  BY <1>1, IndexWithinEmission
<1>4. settled \in Nat /\ distributed \in Nat
  BY <1>1, SettledNat, DistributedSum, SumType, StakedTokenAssumption
<1>5. SCALE * emitted \in Nat /\ moved \in Int
  BY <1>1, RewardTypes
<1> HIDE DEF settled, distributed, moved
<1>6. distributed <= SCALE * emitted
  BY <1>1, <1>2, <1>3, <1>4, <1>5
<1> QED
  BY <1>1, <1>6 DEF Solvent, IInv, distributed

(* Nothing has been earned at the deployment. *)
LEMMA InitRewardInv == Init => RewardInv
<1> SUFFICES ASSUME Init PROVE RewardInv
  OBVIOUS
<1>1. IInv
  BY InitIInv
<1>2. [u \in Users |-> SettledTo(u)] = [u \in Users |-> 0]
  <2> SUFFICES ASSUME NEW u \in Users PROVE SettledTo(u) = 0
    OBVIOUS
  <2> QED
    BY DistributionManagerAssumption DEF Init, SettledTo, InitAssetData
<1>3. Sum([u \in Users |-> SettledTo(u)]) = 0
  BY <1>2, SumZero
<1>4. PendingEmission = 0 /\ emitted = 0
  BY DEF Init, PendingEmission, EmissionSince
<1> QED
  BY <1>1, <1>3, <1>4, DistributionManagerAssumption DEF RewardInv

----------------------------------------------------------------------------
(* Rounding a user's rewards down when they are recorded. *)
LEMMA AccruedBound ==
  ASSUME IInv, NEW u \in Users
  PROVE  SCALE * Accrued(u) <= balances[u] * (CurrentIndex - asset.users[u])
<1>1. /\ balances[u] \in Nat /\ SCALE \in Nat \ {0}
      /\ CurrentIndex - asset.users[u] \in Nat
      /\ now \in Nat /\ totalSupply \in Nat /\ SoundAsset(asset, Users, now)
  BY RewardTypes DEF IInv
<1>2. balances[u] * (CurrentIndex - asset.users[u]) \in Nat
  BY <1>1, MulNat
<1>3. UpdateAssetState(asset, totalSupply, now).index = CurrentIndex
  <2>1. now \in Nat /\ totalSupply \in Nat /\ SoundAsset(asset, Users, now)
    BY <1>1
  <2>2. UpdateAssetState(asset, totalSupply, now).index =
          GetAssetIndex(asset, totalSupply, now)
    BY <2>1, UpdateAssetStateSound
  <2> QED
    BY <2>2 DEF CurrentIndex
<1>4. Accrued(u) = (balances[u] * (CurrentIndex - asset.users[u])) \div SCALE
  BY <1>3 DEF Accrued, AccruedRewards, GetRewards
<1> QED
  BY <1>1, <1>2, <1>4, DivBound

(* A transaction that brings the users of W up to date and touches no other *)
(* user, and after which the emission is the one given.                     *)
Settles(W, rate) ==
  /\ asset'.index = CurrentIndex
  /\ asset'.lastUpdateTimestamp = now
  /\ asset'.emissionPerSecond = rate
  /\ now' = now
  /\ emitted' = emitted
  /\ \A w \in W :
       /\ asset'.users[w] = CurrentIndex
       /\ claimed'[w] + stakerRewardsToClaim'[w] =
            claimed[w] + stakerRewardsToClaim[w] + Accrued(w)
  /\ \A u \in Users \ W :
       /\ asset'.users[u] = asset.users[u]
       /\ balances'[u] = balances[u]
       /\ claimed'[u] = claimed[u]
       /\ stakerRewardsToClaim'[u] = stakerRewardsToClaim[u]

(* It preserves the invariant.  The balances of the users of W may change,  *)
(* since their rewards start again from the current index.                  *)
LEMMA SettleStep ==
  ASSUME RewardInv, IInv', NEW W \in SUBSET Users, NEW rate, Settles(W, rate)
  PROVE  RewardInv'
<1> USE DEF Settles
<1>0. IInv /\ Solvent
  BY RewardInvSolvent DEF RewardInv
<1>1. PendingEmission' = 0
  <2>1. /\ asset'.emissionPerSecond \in Nat /\ asset'.lastUpdateTimestamp \in Nat
        /\ DISTRIBUTION_END \in Nat
    BY RewardTypes, DistributionManagerAssumption DEF IInv, TypeOK, AssetData
  <2> QED
    BY <2>1 DEF PendingEmission, EmissionSince, Earlier
<1>2. \A u \in Users : SettledTo(u)' <= DistributedTo(u)
  <2>1. ASSUME NEW w \in W PROVE SettledTo(w)' <= DistributedTo(w)
    <3> DEFINE old == claimed[w] + stakerRewardsToClaim[w]
               product == balances[w] * (CurrentIndex - asset.users[w])
    <3>1. w \in Users
      OBVIOUS
    <3>2. /\ old \in Nat /\ Accrued(w) \in Nat /\ SCALE \in Nat /\ balances[w] \in Nat
          /\ CurrentIndex - asset.users[w] \in Nat
      BY <1>0, <3>1, RewardTypes, AccruedNat
    <3>3. product \in Nat /\ SCALE * Accrued(w) \in Nat /\ SCALE * old \in Nat
      <4> HIDE DEF old
      <4> QED
        BY <3>2, MulNat
    <3>4. SCALE * Accrued(w) <= product
      BY <1>0, <3>1, AccruedBound
    <3>5. SettledTo(w)' = SCALE * (old + Accrued(w))
      <4>1. CurrentIndex \in Nat /\ balances'[w] \in Nat
        BY <1>0, <3>1, RewardTypes DEF IInv, TypeOK
      <4>2. balances'[w] * (asset'.index - asset'.users[w]) = 0
        BY <4>1
      <4>3. SettledTo(w)' = SCALE * (claimed'[w] + stakerRewardsToClaim'[w])
                              + balances'[w] * (asset'.index - asset'.users[w])
        BY DEF SettledTo
      <4>4. SCALE * (old + Accrued(w)) \in Nat
        <5> HIDE DEF old
        <5>1. old + Accrued(w) \in Nat
          BY <3>2
        <5> QED
          BY <3>2, <5>1, MulNat
      <4> QED
        BY <4>2, <4>3, <4>4
    <3>6. DistributedTo(w) = SCALE * old + product
      BY DEF DistributedTo, CurrentIndex
    <3> HIDE DEF old, product
    <3>7. SCALE * (old + Accrued(w)) = SCALE * old + SCALE * Accrued(w)
      BY <3>2, MulDist
    <3> QED
      BY <3>3, <3>4, <3>5, <3>6, <3>7
  <2>2. ASSUME NEW u \in Users \ W PROVE SettledTo(u)' <= DistributedTo(u)
    <3>1. SettledTo(u)' = DistributedTo(u)
      BY DEF SettledTo, DistributedTo, CurrentIndex
    <3>2. DistributedTo(u) \in Nat
      BY <1>0, DistributedSum
    <3> QED
      BY <3>1, <3>2
  <2> QED
    BY <2>1, <2>2
<1> DEFINE settled == [u \in Users |-> SettledTo(u)']
           distributed == [u \in Users |-> DistributedTo(u)]
<1>3. settled \in [Users -> Nat] /\ distributed \in [Users -> Nat]
  <2>1. ASSUME NEW u \in Users PROVE SettledTo(u)' \in Nat
    <3> DEFINE paid == claimed'[u] + stakerRewardsToClaim'[u]
               old  == asset'.index - asset'.users[u]
    <3>1. TypeOK' /\ SoundAsset(asset', Users, now')
      BY DEF IInv
    <3>2. paid \in Nat /\ balances'[u] \in Nat
      BY <3>1 DEF TypeOK
    <3>3. old \in Nat
      BY <3>1 DEF SoundAsset, AssetData
    <3>4. SettledTo(u)' = SCALE * paid + balances'[u] * old
      BY DEF SettledTo
    <3> HIDE DEF paid, old
    <3>5. SCALE * paid \in Nat /\ balances'[u] * old \in Nat
      BY <3>2, <3>3, MulNat, DistributionManagerAssumption
    <3> QED
      BY <3>4, <3>5
  <2> QED
    BY <1>0, <2>1, DistributedSum
<1>4. \A u \in Users : settled[u] <= distributed[u]
  BY <1>2
<1>5. Sum(settled) <= Sum(distributed)
  <2> HIDE DEF settled, distributed
  <2> QED
    BY <1>3, <1>4, SumMonotone, StakedTokenAssumption
<1>6. Sum(distributed) <= SCALE * emitted
  BY <1>0 DEF Solvent
<1>7. Sum(settled) \in Nat /\ Sum(distributed) \in Nat /\ SCALE * emitted \in Nat
  <2> HIDE DEF settled, distributed
  <2> QED
    BY <1>0, <1>3, SumType, RewardTypes, StakedTokenAssumption
<1>8. Sum([u \in Users |-> SettledTo(u)])' = Sum(settled)
  OBVIOUS
<1> HIDE DEF settled, distributed
<1>9. Sum(settled) + SCALE * 0 <= SCALE * emitted
  BY <1>5, <1>6, <1>7, DistributionManagerAssumption
<1> QED
  BY <1>1, <1>8, <1>9 DEF RewardInv

----------------------------------------------------------------------------
(* The transactions. *)

(* What _updateUserAssetInternal leaves in the record of the asset. *)
LEMMA UserUpdated ==
  ASSUME IInv, NEW user \in Users
  PROVE  LET updated == UpdateUserAsset(asset, user, totalSupply, now)
         IN  /\ SoundAsset(updated, Users, now)
             /\ updated.index = CurrentIndex
             /\ updated.lastUpdateTimestamp = now
             /\ updated.users[user] = CurrentIndex
             /\ \A u \in Users \ {user} : updated.users[u] = asset.users[u]
             /\ updated.emissionPerSecond = asset.emissionPerSecond
<1> DEFINE updated == UpdateUserAsset(asset, user, totalSupply, now)
<1>1. now \in Nat /\ totalSupply \in Nat /\ SoundAsset(asset, Users, now)
  BY DEF IInv, TypeOK
<1>2. BroughtUpToDate(updated, asset, user, Users, CurrentIndex, now)
  BY <1>1, UpdateUserAssetSound DEF CurrentIndex
<1> HIDE DEF updated
<1> QED
  BY <1>2 DEF updated, BroughtUpToDate

(* Two updates in one transaction, as a transfer makes them. *)
LEMMA SecondUserUpdated ==
  ASSUME IInv, NEW from \in Users, NEW to \in Users
  PROVE  LET updated == UpdateUserAsset(UpdateUserAsset(asset, from, totalSupply, now),
                                        to, totalSupply, now)
         IN  /\ updated.index = CurrentIndex
             /\ updated.lastUpdateTimestamp = now
             /\ updated.users[from] = CurrentIndex
             /\ updated.users[to] = CurrentIndex
             /\ \A u \in Users \ {from, to} : updated.users[u] = asset.users[u]
             /\ updated.emissionPerSecond = asset.emissionPerSecond
<1> DEFINE first == UpdateUserAsset(asset, from, totalSupply, now)
           second == UpdateUserAsset(first, to, totalSupply, now)
<1>1. now \in Nat /\ totalSupply \in Nat
  BY DEF IInv, TypeOK
<1>2. /\ SoundAsset(first, Users, now)
      /\ first.index = CurrentIndex
      /\ first.lastUpdateTimestamp = now
      /\ first.users[from] = CurrentIndex
      /\ \A u \in Users \ {from} : first.users[u] = asset.users[u]
      /\ first.emissionPerSecond = asset.emissionPerSecond
  BY UserUpdated
<1> HIDE DEF first
<1>3. /\ second.index = first.index
      /\ second.lastUpdateTimestamp = now
      /\ second.users[to] = first.index
      /\ \A u \in Users \ {to} : second.users[u] = first.users[u]
      /\ second.emissionPerSecond = first.emissionPerSecond
  <2>1. now \in Nat /\ totalSupply \in Nat /\ SoundAsset(first, Users, now)
    BY <1>1, <1>2
  <2>2. first.lastUpdateTimestamp = now
    BY <1>2
  <2> QED
    BY <2>1, <2>2, SameBlockUpdate, SMTT(60)
<1> HIDE DEF second
<1>4. /\ second.index = CurrentIndex
      /\ second.lastUpdateTimestamp = now
      /\ second.users[from] = CurrentIndex
      /\ second.users[to] = CurrentIndex
      /\ \A u \in Users \ {from, to} : second.users[u] = asset.users[u]
      /\ second.emissionPerSecond = asset.emissionPerSecond
  BY <1>2, <1>3
<1> QED
  BY <1>4 DEF first, second

LEMMA StakeRewards ==
  ASSUME RewardInv, NEW sender \in Users, NEW onBehalfOf \in Users, NEW amount \in Amounts,
         Stake(sender, onBehalfOf, amount)
  PROVE  RewardInv' /\ Settles({onBehalfOf}, asset.emissionPerSecond)
<1>0. IInv
  BY DEF RewardInv
<1>1. IInv'
  BY <1>0, StakeStep
<1>2. /\ asset' = UpdateUserAsset(asset, onBehalfOf, totalSupply, now)
      /\ stakerRewardsToClaim' =
           [stakerRewardsToClaim EXCEPT ![onBehalfOf] = @ + Accrued(onBehalfOf)]
      /\ balances' = [balances EXCEPT ![onBehalfOf] = @ + amount]
      /\ now' = now /\ claimed' = claimed /\ emitted' = emitted
  BY DEF Stake, historyVars
<1>3. /\ TypeOK /\ claimed[onBehalfOf] \in Nat /\ stakerRewardsToClaim[onBehalfOf] \in Nat
      /\ Accrued(onBehalfOf) \in Nat
  BY <1>0, AccruedNat DEF IInv, TypeOK
<1>4. /\ asset'.index = CurrentIndex
      /\ asset'.lastUpdateTimestamp = now
      /\ asset'.users[onBehalfOf] = CurrentIndex
      /\ \A u \in Users \ {onBehalfOf} : asset'.users[u] = asset.users[u]
      /\ asset'.emissionPerSecond = asset.emissionPerSecond
  BY <1>0, <1>2, UserUpdated
<1>5. /\ stakerRewardsToClaim'[onBehalfOf] =
           stakerRewardsToClaim[onBehalfOf] + Accrued(onBehalfOf)
      /\ \A u \in Users \ {onBehalfOf} :
           /\ balances'[u] = balances[u]
           /\ stakerRewardsToClaim'[u] = stakerRewardsToClaim[u]
  BY <1>2, <1>3 DEF TypeOK
<1>6. claimed'[onBehalfOf] + stakerRewardsToClaim'[onBehalfOf] =
        claimed[onBehalfOf] + stakerRewardsToClaim[onBehalfOf] + Accrued(onBehalfOf)
  BY <1>2, <1>3, <1>5
<1> DEFINE W == {onBehalfOf}
<1>9. Settles(W, asset.emissionPerSecond)
  BY <1>2, <1>4, <1>5, <1>6 DEF Settles
<1>10. W \in SUBSET Users
  OBVIOUS
<1> HIDE DEF W
<1>11. RewardInv'
  BY <1>1, <1>9, <1>10, SettleStep
<1> QED
  BY <1>9, <1>11 DEF W

LEMMA RedeemRewards ==
  ASSUME RewardInv, NEW sender \in Users, NEW to \in Accounts, NEW amount \in Amounts,
         Redeem(sender, to, amount)
  PROVE  RewardInv' /\ Settles({sender}, asset.emissionPerSecond)
<1> DEFINE amountToRedeem == IF amount > balances[sender] THEN balances[sender] ELSE amount
<1>0. IInv
  BY DEF RewardInv
<1>1. IInv'
  BY <1>0, RedeemStep
<1>2. /\ asset' = UpdateUserAsset(asset, sender, totalSupply, now)
      /\ stakerRewardsToClaim' =
           [stakerRewardsToClaim EXCEPT ![sender] = @ + Accrued(sender)]
      /\ balances' = [balances EXCEPT ![sender] = @ - amountToRedeem]
      /\ now' = now /\ claimed' = claimed /\ emitted' = emitted
  BY DEF Redeem, historyVars
<1> HIDE DEF amountToRedeem
<1>3. /\ TypeOK /\ claimed[sender] \in Nat /\ stakerRewardsToClaim[sender] \in Nat
      /\ Accrued(sender) \in Nat
  BY <1>0, AccruedNat DEF IInv, TypeOK
<1>4. /\ asset'.index = CurrentIndex
      /\ asset'.lastUpdateTimestamp = now
      /\ asset'.users[sender] = CurrentIndex
      /\ \A u \in Users \ {sender} : asset'.users[u] = asset.users[u]
      /\ asset'.emissionPerSecond = asset.emissionPerSecond
  BY <1>0, <1>2, UserUpdated
<1>5. /\ stakerRewardsToClaim'[sender] = stakerRewardsToClaim[sender] + Accrued(sender)
      /\ \A u \in Users \ {sender} :
           /\ balances'[u] = balances[u]
           /\ stakerRewardsToClaim'[u] = stakerRewardsToClaim[u]
  BY <1>2, <1>3 DEF TypeOK
<1>6. claimed'[sender] + stakerRewardsToClaim'[sender] =
        claimed[sender] + stakerRewardsToClaim[sender] + Accrued(sender)
  BY <1>2, <1>3, <1>5
<1> DEFINE W == {sender}
<1>9. Settles(W, asset.emissionPerSecond)
  BY <1>2, <1>4, <1>5, <1>6 DEF Settles
<1>10. W \in SUBSET Users
  OBVIOUS
<1> HIDE DEF W
<1>11. RewardInv'
  BY <1>1, <1>9, <1>10, SettleStep
<1> QED
  BY <1>9, <1>11 DEF W

LEMMA ClaimRewardsRewards ==
  ASSUME RewardInv, NEW sender \in Users, NEW to \in Accounts,
         NEW amount \in Amounts \cup {MAX_UINT}, ClaimRewards(sender, to, amount)
  PROVE  RewardInv' /\ Settles({sender}, asset.emissionPerSecond)
<1> DEFINE newTotalRewards == stakerRewardsToClaim[sender] + Accrued(sender)
           amountToClaim   == IF amount = MAX_UINT THEN newTotalRewards ELSE amount
<1>0. IInv
  BY DEF RewardInv
<1>1. IInv'
  BY <1>0, ClaimRewardsStep
<1>2. /\ asset' = UpdateUserAsset(asset, sender, totalSupply, now)
      /\ stakerRewardsToClaim' =
           [stakerRewardsToClaim EXCEPT ![sender] = newTotalRewards - amountToClaim]
      /\ claimed' = [claimed EXCEPT ![sender] = @ + amountToClaim]
      /\ balances' = balances /\ now' = now /\ emitted' = emitted
  BY DEF ClaimRewards, stakeVars
<1>3. /\ TypeOK /\ claimed[sender] \in Nat /\ stakerRewardsToClaim[sender] \in Nat
      /\ Accrued(sender) \in Nat
  BY <1>0, AccruedNat DEF IInv, TypeOK
<1>4. amountToClaim \in Nat
  <2>1. newTotalRewards \in Nat
    BY <1>3
  <2> HIDE DEF newTotalRewards
  <2> QED
    BY <2>1, StakedTokenAssumption
<1>5. /\ asset'.index = CurrentIndex
      /\ asset'.lastUpdateTimestamp = now
      /\ asset'.users[sender] = CurrentIndex
      /\ \A u \in Users \ {sender} : asset'.users[u] = asset.users[u]
      /\ asset'.emissionPerSecond = asset.emissionPerSecond
  BY <1>0, <1>2, UserUpdated
<1> HIDE DEF amountToClaim
<1>6. /\ stakerRewardsToClaim'[sender] = newTotalRewards - amountToClaim
      /\ claimed'[sender] = claimed[sender] + amountToClaim
      /\ \A u \in Users \ {sender} :
           /\ claimed'[u] = claimed[u]
           /\ stakerRewardsToClaim'[u] = stakerRewardsToClaim[u]
  BY <1>2, <1>3 DEF TypeOK
<1>7. claimed'[sender] + stakerRewardsToClaim'[sender] =
        claimed[sender] + stakerRewardsToClaim[sender] + Accrued(sender)
  BY <1>3, <1>4, <1>6
<1> DEFINE W == {sender}
<1>9. Settles(W, asset.emissionPerSecond)
  BY <1>2, <1>5, <1>6, <1>7 DEF Settles
<1>10. W \in SUBSET Users
  OBVIOUS
<1> HIDE DEF W
<1>11. RewardInv'
  BY <1>1, <1>9, <1>10, SettleStep
<1> QED
  BY <1>9, <1>11 DEF W

LEMMA TransferRewards ==
  ASSUME RewardInv, NEW from \in Users, NEW to \in Users, NEW amount \in Amounts,
         Transfer(from, to, amount)
  PROVE  RewardInv' /\ Settles({from, to}, asset.emissionPerSecond)
<1> DEFINE debited == [balances EXCEPT ![from] = @ - amount]
<1>0. IInv
  BY DEF RewardInv
<1>1. IInv'
  BY <1>0, TransferStep
<1>2. /\ asset' = UpdateUserAsset(UpdateUserAsset(asset, from, totalSupply, now),
                                  to, totalSupply, now)
      /\ stakerRewardsToClaim' =
           [u \in Users |-> IF u \in {from, to}
                            THEN stakerRewardsToClaim[u] + Accrued(u)
                            ELSE stakerRewardsToClaim[u]]
      /\ balances' = [debited EXCEPT ![to] = @ + amount]
      /\ now' = now /\ claimed' = claimed /\ emitted' = emitted
  BY DEF Transfer, historyVars
<1>3. /\ TypeOK
      /\ \A u \in Users : claimed[u] \in Nat /\ stakerRewardsToClaim[u] \in Nat
                          /\ Accrued(u) \in Nat
  BY <1>0, AccruedNat DEF IInv, TypeOK
<1>4. /\ asset'.index = CurrentIndex
      /\ asset'.lastUpdateTimestamp = now
      /\ asset'.users[from] = CurrentIndex
      /\ asset'.users[to] = CurrentIndex
      /\ \A u \in Users \ {from, to} : asset'.users[u] = asset.users[u]
      /\ asset'.emissionPerSecond = asset.emissionPerSecond
  BY <1>0, <1>2, SecondUserUpdated
<1>5. \A u \in Users \ {from, to} :
        /\ balances'[u] = balances[u]
        /\ stakerRewardsToClaim'[u] = stakerRewardsToClaim[u]
  BY <1>2, <1>3 DEF TypeOK
<1>6. \A u \in {from, to} : claimed'[u] + stakerRewardsToClaim'[u] =
                              claimed[u] + stakerRewardsToClaim[u] + Accrued(u)
  BY <1>2, <1>3
<1> DEFINE W == {from, to}
<1>9. Settles(W, asset.emissionPerSecond)
  BY <1>2, <1>4, <1>5, <1>6 DEF Settles
<1>10. W \in SUBSET Users
  OBVIOUS
<1> HIDE DEF W
<1>11. RewardInv'
  BY <1>1, <1>9, <1>10, SettleStep
<1> QED
  BY <1>9, <1>11 DEF W

(* A step that leaves the recorded rewards and the index alone.  Time may   *)
(* pass, if what is pending grows no faster than what is emitted.           *)
LEMMA SettledUnchanged ==
  ASSUME RewardInv, IInv',
         balances' = balances, claimed' = claimed,
         stakerRewardsToClaim' = stakerRewardsToClaim,
         asset'.index = asset.index, asset'.users = asset.users,
         emitted' >= emitted,
         PendingEmission' \in Nat,
         PendingEmission' <= PendingEmission + (emitted' - emitted)
  PROVE  RewardInv'
<1> DEFINE settled == Sum([u \in Users |-> SettledTo(u)])
<1>1. IInv /\ settled + SCALE * PendingEmission <= SCALE * emitted
  BY DEF RewardInv
<1>2. Sum([u \in Users |-> SettledTo(u)])' = settled
  BY DEF SettledTo
<1>3. settled \in Nat
  BY <1>1, SettledNat, SumType, StakedTokenAssumption
<1>4. /\ emitted \in Nat /\ emitted' \in Nat /\ PendingEmission \in Nat
      /\ SCALE \in Nat
  BY <1>1, RewardTypes, IndexWithinEmission DEF IInv, TypeOK
<1> DEFINE grown == emitted' - emitted
<1>5. grown \in Nat /\ emitted' = emitted + grown
  <2> DEFINE later == emitted'
  <2>1. later \in Nat /\ emitted \in Nat /\ later >= emitted
    BY <1>4
  <2> HIDE DEF later
  <2>2. later - emitted \in Nat /\ later = emitted + (later - emitted)
    BY <2>1
  <2> QED
    BY <2>2 DEF later
<1>6. PendingEmission' <= PendingEmission + grown
  OBVIOUS
<1> HIDE DEF settled, grown
<1>7. /\ SCALE * PendingEmission \in Nat /\ SCALE * PendingEmission' \in Nat
      /\ SCALE * grown \in Nat /\ SCALE * emitted \in Nat
  BY <1>4, <1>5, MulNat
<1>8. SCALE * (PendingEmission + grown) = SCALE * PendingEmission + SCALE * grown
  BY <1>4, <1>5, MulDist
<1>9. SCALE * PendingEmission' <= SCALE * (PendingEmission + grown)
  <2>1. PendingEmission + grown \in Nat
    BY <1>4, <1>5
  <2> QED
    BY <1>4, <1>6, <2>1, MulMono
<1>10. SCALE * emitted' = SCALE * emitted + SCALE * grown
  BY <1>4, <1>5, MulDist
<1>11. settled + SCALE * PendingEmission' <= SCALE * emitted'
  BY <1>1, <1>3, <1>7, <1>8, <1>9, <1>10
<1> QED
  BY <1>2, <1>11 DEF RewardInv

LEMMA ConfigureAssetsRewards ==
  ASSUME RewardInv, NEW emission \in Nat, ConfigureAssets(emission, totalSupply)
  PROVE  RewardInv' /\ Settles({}, emission)
<1>0. IInv
  BY DEF RewardInv
<1>1. now \in Nat /\ totalSupply \in Nat /\ SoundAsset(asset, Users, now)
  BY <1>0 DEF IInv, TypeOK
<1>2. IInv'
  BY <1>0, <1>1, ConfigureAssetsStep
<1>3. /\ asset' = ConfigureAsset(asset, emission, totalSupply, now)
      /\ balances' = balances /\ stakerRewardsToClaim' = stakerRewardsToClaim
      /\ now' = now /\ claimed' = claimed /\ emitted' = emitted
  BY DEF ConfigureAssets, stakeVars, historyVars
<1>4. /\ asset'.index = GetAssetIndex(asset, totalSupply, now)
      /\ asset'.lastUpdateTimestamp = now
      /\ asset'.users = asset.users
      /\ asset'.emissionPerSecond = emission
  BY <1>1, <1>3, ConfigureAssetSound
<1>5. asset'.index = CurrentIndex
  BY <1>4 DEF CurrentIndex
<1> DEFINE W == {}
<1>9. Settles(W, emission)
  BY <1>2, <1>3, <1>4, <1>5 DEF Settles
<1>10. W \in SUBSET Users
  OBVIOUS
<1> HIDE DEF W
<1>11. RewardInv'
  BY <1>2, <1>9, <1>10, SettleStep
<1> QED
  BY <1>9, <1>11 DEF W

(* Switching the emission off without telling the total staked forgets what *)
(* is pending: less is distributed, never more.                             *)
LEMMA SwitchOffRewards ==
  ASSUME RewardInv, ConfigureAssets(0, 0)
  PROVE  RewardInv'
<1>0. IInv
  BY DEF RewardInv
<1>1. now \in Nat /\ SoundAsset(asset, Users, now)
  BY <1>0 DEF IInv, TypeOK
<1>2. IInv'
  BY <1>0, ConfigureAssetsStep
<1>3. /\ asset' = ConfigureAsset(asset, 0, 0, now)
      /\ balances' = balances /\ stakerRewardsToClaim' = stakerRewardsToClaim
      /\ now' = now /\ claimed' = claimed /\ emitted' = emitted
  BY DEF ConfigureAssets, stakeVars, historyVars
<1>4. /\ asset'.index = GetAssetIndex(asset, 0, now)
      /\ asset'.lastUpdateTimestamp = now
      /\ asset'.users = asset.users
      /\ asset'.emissionPerSecond = 0
  BY <1>1, <1>3, ConfigureAssetSound
<1>5. asset'.index = asset.index
  BY <1>4 DEF GetAssetIndex
<1>6. PendingEmission' = 0
  <2>1. Earlier(now, DISTRIBUTION_END) - now \in Int
    BY <1>1, DistributionManagerAssumption DEF Earlier
  <2>2. 0 * (Earlier(now, DISTRIBUTION_END) - now) = 0
    BY <2>1
  <2> QED
    BY <1>3, <1>4, <2>2 DEF PendingEmission, EmissionSince
<1>7. emitted \in Nat /\ PendingEmission \in Nat
  BY <1>0, RewardTypes, IndexWithinEmission
<1>8. /\ emitted' >= emitted /\ PendingEmission' \in Nat
      /\ PendingEmission' <= PendingEmission + (emitted' - emitted)
  BY <1>3, <1>6, <1>7
<1> QED
  BY <1>2, <1>3, <1>4, <1>5, <1>8, SettledUnchanged

LEMMA CooldownRewards ==
  ASSUME RewardInv, NEW sender \in Users, Cooldown(sender)
  PROVE  RewardInv'
<1>0. IInv
  BY DEF RewardInv
<1>1. IInv'
  BY <1>0, CooldownStep
<1>2. UNCHANGED <<balances, totalSupply, stakerRewardsToClaim, asset, now, claimed, emitted>>
  BY DEF Cooldown, stakeVars, rewardVars
<1> QED
  BY <1>1, <1>2 DEF RewardInv, SettledTo, PendingEmission, EmissionSince

(* A second more: what it emits becomes pending.                            *)
LEMMA TickRewards ==
  ASSUME RewardInv, Tick
  PROVE  RewardInv'
<1>0. IInv
  BY DEF RewardInv
<1>1. IInv'
  BY <1>0, TickStep
<1>2. /\ UNCHANGED <<balances, totalSupply, stakerRewardsToClaim, asset, claimed>>
      /\ now' = now + 1
      /\ emitted' = IF totalSupply # 0 /\ now < DISTRIBUTION_END
                    THEN emitted + asset.emissionPerSecond ELSE emitted
  BY DEF Tick, stakeVars, rewardVars
<1>3. /\ now \in Nat /\ asset.emissionPerSecond \in Nat /\ emitted \in Nat
      /\ asset.lastUpdateTimestamp \in Nat /\ asset.lastUpdateTimestamp <= now
      /\ DISTRIBUTION_END \in Nat /\ PendingEmission \in Nat
  BY <1>0, RewardTypes, IndexWithinEmission, DistributionManagerAssumption
<1>4. emitted' >= emitted
  BY <1>2, <1>3
<1>5. /\ PendingEmission' \in Nat
      /\ PendingEmission' <= PendingEmission + (emitted' - emitted)
  <2>1. CASE totalSupply = 0 \/ asset.lastUpdateTimestamp >= DISTRIBUTION_END
    <3>1. PendingEmission' = 0
      BY <1>2, <2>1 DEF PendingEmission, EmissionSince
    <3> QED
      BY <1>2, <1>3, <3>1
  <2>2. CASE /\ ~ (totalSupply = 0 \/ asset.lastUpdateTimestamp >= DISTRIBUTION_END)
             /\ now >= DISTRIBUTION_END
    <3>1. Earlier(now, DISTRIBUTION_END) = DISTRIBUTION_END
      BY <1>3, <2>2 DEF Earlier
    <3>2. Earlier(now + 1, DISTRIBUTION_END) = DISTRIBUTION_END
      BY <1>3, <2>2 DEF Earlier
    <3>3. PendingEmission' = PendingEmission
      BY <1>2, <2>2, <3>1, <3>2 DEF PendingEmission, EmissionSince
    <3>4. emitted' = emitted
      BY <1>2, <1>3, <2>2
    <3> QED
      BY <1>3, <3>3, <3>4
  <2>3. CASE /\ ~ (totalSupply = 0 \/ asset.lastUpdateTimestamp >= DISTRIBUTION_END)
             /\ now < DISTRIBUTION_END
    <3> DEFINE past == now - asset.lastUpdateTimestamp
    <3>1. past \in Nat
      BY <1>3
    <3>2. PendingEmission = asset.emissionPerSecond * past
      BY <1>3, <2>3 DEF PendingEmission, EmissionSince, Earlier
    <3>3. Earlier(now + 1, DISTRIBUTION_END) - asset.lastUpdateTimestamp = past + 1
      BY <1>3, <2>3 DEF Earlier
    <3>4. PendingEmission' = asset.emissionPerSecond * (past + 1)
      BY <1>2, <2>3, <3>3 DEF PendingEmission, EmissionSince
    <3> HIDE DEF past
    <3>5. asset.emissionPerSecond * (past + 1)
            = asset.emissionPerSecond * past + asset.emissionPerSecond
      <4> DEFINE rate == asset.emissionPerSecond
      <4>1. rate \in Int /\ past \in Int
        BY <1>3, <3>1
      <4> HIDE DEF rate
      <4>2. rate * (past + 1) = rate * past + rate * 1
        BY <4>1, MulDist
      <4>3. rate * (past + 1) = rate * past + rate
        BY <4>1, <4>2
      <4> QED
        BY <4>3 DEF rate
    <3>6. emitted' = emitted + asset.emissionPerSecond
      BY <1>2, <2>3
    <3> QED
      BY <1>3, <3>2, <3>4, <3>5, <3>6
  <2> QED
    BY <1>3, <2>1, <2>2, <2>3
<1> QED
  BY <1>1, <1>2, <1>4, <1>5, SettledUnchanged

----------------------------------------------------------------------------
(* The invariant is inductive. *)
LEMMA NextRewardInv == RewardInv /\ [Next]_vars => RewardInv'
<1> SUFFICES ASSUME RewardInv, [Next]_vars PROVE RewardInv'
  OBVIOUS
<1>1. ASSUME NEW sender \in Users, NEW onBehalfOf \in Users, NEW amount \in Amounts,
             Stake(sender, onBehalfOf, amount)
      PROVE  RewardInv'
  BY <1>1, StakeRewards
<1>2. ASSUME NEW sender \in Users, NEW to \in Accounts, NEW amount \in Amounts,
             Redeem(sender, to, amount)
      PROVE  RewardInv'
  BY <1>2, RedeemRewards
<1>3. ASSUME NEW sender \in Users, Cooldown(sender)
      PROVE  RewardInv'
  BY <1>3, CooldownRewards
<1>4. ASSUME NEW sender \in Users, NEW to \in Accounts,
             NEW amount \in Amounts \cup {MAX_UINT}, ClaimRewards(sender, to, amount)
      PROVE  RewardInv'
  BY <1>4, ClaimRewardsRewards
<1>5. ASSUME NEW from \in Users, NEW to \in Users, NEW amount \in Amounts,
             Transfer(from, to, amount)
      PROVE  RewardInv'
  BY <1>5, TransferRewards
<1>6. ASSUME NEW emission \in Emissions, ConfigureAssets(emission, totalSupply)
      PROVE  RewardInv'
  <2>1. emission \in Nat
    BY StakedTokenAssumption
  <2> QED
    BY <1>6, <2>1, ConfigureAssetsRewards
<1>7. CASE ConfigureAssets(0, 0)
  BY <1>7, SwitchOffRewards
<1>8. CASE Tick
  BY <1>8, TickRewards
<1>9. CASE UNCHANGED vars
  <2>1. IInv'
    BY NextIInv DEF RewardInv
  <2> QED
    BY <1>9, <2>1 DEF RewardInv, SettledTo, PendingEmission, EmissionSince,
                      vars, stakeVars, rewardVars, historyVars
<1> QED
  BY <1>1, <1>2, <1>3, <1>4, <1>5, <1>6, <1>7, <1>8, <1>9 DEF Next

(* However often users stake, transfer, redeem and claim, in whatever order *)
(* with changes of emission, and through the end of the distribution: the   *)
(* rewards paid and owed never exceed what was emitted.                     *)
THEOREM RewardsSolvent == Spec => []Solvent
<1>1. Init => RewardInv
  BY InitRewardInv
<1>2. RewardInv /\ [Next]_vars => RewardInv'
  BY NextRewardInv
<1>3. RewardInv => Solvent
  BY RewardInvSolvent
<1> QED
  BY <1>1, <1>2, <1>3, PTL DEF Spec

----------------------------------------------------------------------------
(***************************************************************************)
(* The staked token implements RewardedStake.  Within a block nobody's     *)
(* rewards change: what a transaction records of a user is what the view   *)
(* showed, and a balance that changes has its rewards recorded first.      *)
(* Between blocks the index grows, by the same amount for every staked     *)
(* unit, and rounding takes or gives one unit at most.                     *)
(***************************************************************************)

(* What the refinement mapping puts for `earned`. *)
EarnedBy(u) == claimed[u] + GetTotalRewardsBalance(u)

Earned == [u \in Users |-> EarnedBy(u)]

LEMMA EarnedForm ==
  ASSUME NEW u
  PROVE  /\ EarnedBy(u) = claimed[u] + (stakerRewardsToClaim[u]
                            + GetRewards(balances[u], CurrentIndex, asset.users[u]))
         /\ EarnedBy(u)' = claimed'[u] + (stakerRewardsToClaim'[u]
                            + GetRewards(balances'[u], CurrentIndex', asset'.users[u]))
BY DEF EarnedBy, GetTotalRewardsBalance, GetUnclaimedRewards, CurrentIndex

(* The view and the update agree on what a user has accrued. *)
LEMMA AccruedForm ==
  ASSUME IInv, NEW u \in Users
  PROVE  /\ Accrued(u) = GetRewards(balances[u], CurrentIndex, asset.users[u])
         /\ Accrued(u) \in Nat
<1>1. now \in Nat /\ totalSupply \in Nat /\ SoundAsset(asset, Users, now)
  BY DEF IInv, TypeOK
<1>2. UpdateAssetState(asset, totalSupply, now).index
        = GetAssetIndex(asset, totalSupply, now)
  BY <1>1, UpdateAssetStateSound
<1> QED
  BY <1>2, AccruedNat DEF Accrued, AccruedRewards, CurrentIndex

(* Nothing is accrued over no movement of the index, or on no stake. *)
LEMMA NoRewards ==
  ASSUME NEW b \in Nat, NEW i \in Nat
  PROVE  GetRewards(b, i, i) = 0 /\ \A j \in Nat : GetRewards(0, i, j) = 0
<1> USE DistributionManagerAssumption
<1>1. b * (i - i) = 0 /\ \A j \in Nat : 0 * (i - j) = 0
  OBVIOUS
<1>2. 0 \div SCALE = 0
  OBVIOUS
<1> QED
  BY <1>1, <1>2 DEF GetRewards

(* A transaction that brings users up to date leaves what everyone has      *)
(* earned as it is.                                                         *)
LEMMA EarnedKept ==
  ASSUME IInv, IInv', NEW W \in SUBSET Users, NEW rate, Settles(W, rate)
  PROVE  Earned' = Earned
<1>1. CurrentIndex' = CurrentIndex
  <2>1. asset'.index = CurrentIndex /\ asset'.lastUpdateTimestamp = now'
    BY DEF Settles
  <2>2. CurrentIndex' = GetAssetIndex(asset', totalSupply', now')
    BY DEF CurrentIndex
  <2>3. GetAssetIndex(asset', totalSupply', now') = asset'.index
    BY <2>1 DEF GetAssetIndex
  <2> QED
    BY <2>1, <2>2, <2>3
<1> SUFFICES ASSUME NEW u \in Users PROVE EarnedBy(u)' = EarnedBy(u)
  BY DEF Earned
<1>2. /\ EarnedBy(u) = claimed[u] + (stakerRewardsToClaim[u] + Accrued(u))
      /\ Accrued(u) = GetRewards(balances[u], CurrentIndex, asset.users[u])
      /\ EarnedBy(u)' = claimed'[u] + (stakerRewardsToClaim'[u]
                          + GetRewards(balances'[u], CurrentIndex, asset'.users[u]))
  BY <1>1, EarnedForm, AccruedForm
<1>3. /\ claimed[u] \in Nat /\ stakerRewardsToClaim[u] \in Nat /\ Accrued(u) \in Nat
      /\ claimed'[u] \in Nat /\ stakerRewardsToClaim'[u] \in Nat /\ balances'[u] \in Nat
      /\ CurrentIndex \in Nat
  BY AccruedForm, RewardTypes DEF IInv, TypeOK
<1>4. CASE u \in W
  <2>1. /\ asset'.users[u] = CurrentIndex
        /\ claimed'[u] + stakerRewardsToClaim'[u]
             = claimed[u] + stakerRewardsToClaim[u] + Accrued(u)
    BY <1>4 DEF Settles
  <2>2. GetRewards(balances'[u], CurrentIndex, asset'.users[u]) = 0
    BY <1>3, <2>1, NoRewards
  <2> QED
    BY <1>2, <1>3, <2>1, <2>2
<1>5. CASE u \notin W
  BY <1>2, <1>5 DEF Settles
<1> QED
  BY <1>4, <1>5

----------------------------------------------------------------------------
(* The passing of time. *)

(* The index of a later second is not a smaller one. *)
LEMMA IndexOverTime ==
  ASSUME IInv
  PROVE  /\ GetAssetIndex(asset, totalSupply, now + 1) \in Nat
         /\ GetAssetIndex(asset, totalSupply, now + 1) >= CurrentIndex
         /\ totalSupply = 0 \/ now >= DISTRIBUTION_END =>
              GetAssetIndex(asset, totalSupply, now + 1) = CurrentIndex
<1>1. now \in Nat /\ totalSupply \in Nat /\ SoundAsset(asset, Users, now)
  BY DEF IInv, TypeOK
<1> QED
  BY <1>1, LaterIndex DEF CurrentIndex

(* What everyone has earned, in whole units, is within what was emitted. *)
LEMMA EarnedWithinEmitted ==
  RewardInv => Earned \in [Users -> Nat] /\ Sum(Earned) <= emitted
<1> SUFFICES ASSUME RewardInv PROVE Earned \in [Users -> Nat] /\ Sum(Earned) <= emitted
  OBVIOUS
<1>1. IInv /\ Solvent /\ IsFiniteSet(Users)
  BY RewardInvSolvent, StakedTokenAssumption DEF RewardInv
<1>2. emitted \in Nat /\ SCALE \in Nat \ {0}
  BY <1>1, RewardTypes
<1>3. ASSUME NEW u \in Users
      PROVE  /\ EarnedBy(u) \in Nat
             /\ SCALE * EarnedBy(u) \in Nat
             /\ SCALE * EarnedBy(u) <= DistributedTo(u)
  <2> DEFINE paid == claimed[u] + stakerRewardsToClaim[u]
             owed == balances[u] * (CurrentIndex - asset.users[u])
  <2>1. paid \in Nat /\ Accrued(u) \in Nat
    BY <1>1, RewardTypes, AccruedForm
  <2>2. EarnedBy(u) = paid + Accrued(u)
    <3>1. EarnedBy(u) = claimed[u] + (stakerRewardsToClaim[u] + Accrued(u))
      BY <1>1, EarnedForm, AccruedForm
    <3>2. claimed[u] \in Nat /\ stakerRewardsToClaim[u] \in Nat
      BY <1>1, RewardTypes
    <3> QED
      BY <2>1, <3>1, <3>2
  <2>3. DistributedTo(u) = SCALE * paid + owed
    BY DEF DistributedTo, CurrentIndex
  <2>4. SCALE * Accrued(u) <= owed
    BY <1>1, AccruedBound
  <2>5. owed \in Nat
    <3>1. balances[u] \in Nat /\ CurrentIndex - asset.users[u] \in Nat
      BY <1>1, RewardTypes
    <3> QED
      BY <3>1, MulNat
  <2> HIDE DEF paid, owed
  <2>6. /\ SCALE * (paid + Accrued(u)) = SCALE * paid + SCALE * Accrued(u)
        /\ SCALE * paid \in Nat /\ SCALE * Accrued(u) \in Nat
    BY <1>2, <2>1, MulDist, MulNat
  <2> QED
    BY <2>1, <2>2, <2>3, <2>4, <2>5, <2>6
<1>4. Earned \in [Users -> Nat]
  BY <1>3 DEF Earned
<1> DEFINE scaled == [u \in Users |-> SCALE * Earned[u]]
           distributed == [u \in Users |-> DistributedTo(u)]
<1>5. Sum(scaled) = SCALE * Sum(Earned)
  BY <1>1, <1>2, <1>4, SumScale
<1>6. \A u \in Users : Earned[u] = EarnedBy(u)
  BY DEF Earned
<1>7. scaled \in [Users -> Nat] /\ distributed \in [Users -> Nat]
  BY <1>1, <1>3, <1>6, DistributedSum
<1>8. \A u \in Users : scaled[u] <= distributed[u]
  BY <1>3, <1>6
<1>9. Sum(distributed) <= SCALE * emitted
  BY <1>1 DEF Solvent
<1> HIDE DEF scaled, distributed
<1>10. Sum(scaled) <= Sum(distributed) /\ Sum(scaled) \in Nat /\ Sum(distributed) \in Nat
  BY <1>1, <1>7, <1>8, SumMonotone, SumType
<1>11. Sum(Earned) \in Nat /\ SCALE * emitted \in Nat
  BY <1>1, <1>2, <1>4, SumType, MulNat
<1>12. SCALE * Sum(Earned) <= SCALE * emitted
  BY <1>5, <1>9, <1>10, <1>11
<1>13. Sum(Earned) <= emitted
  BY <1>2, <1>11, <1>12, MulCancel
<1> QED
  BY <1>4, <1>13

(* A second passes: an accrual, or, with no stake or after the end of the   *)
(* distribution, nothing that a holder could see.                           *)
LEMMA TickKeepsPromise ==
  ASSUME RewardInv, RewardInv', Tick
  PROVE  [Promise!Next]_(Promise!vars)
<1>1. IInv
  BY DEF RewardInv
<1>2. /\ UNCHANGED <<balances, totalSupply, stakerRewardsToClaim, asset, claimed>>
      /\ now' = now + 1
      /\ emitted' = IF totalSupply # 0 /\ now < DISTRIBUTION_END
                    THEN emitted + asset.emissionPerSecond ELSE emitted
  BY DEF Tick, stakeVars, rewardVars
<1>3. CurrentIndex' = GetAssetIndex(asset, totalSupply, now + 1)
  BY <1>2 DEF CurrentIndex
<1>4. /\ CurrentIndex' \in Nat /\ CurrentIndex' >= CurrentIndex /\ CurrentIndex \in Nat
      /\ totalSupply = 0 \/ now >= DISTRIBUTION_END => CurrentIndex' = CurrentIndex
      /\ now \in Nat /\ DISTRIBUTION_END \in Nat
  BY <1>1, <1>3, IndexOverTime, RewardTypes, DistributionManagerAssumption
<1> DEFINE i == CurrentIndex
           j == CurrentIndex'
<1>5. \A u \in Users : /\ balances[u] \in Nat /\ asset.users[u] \in Nat
                       /\ asset.users[u] <= i
                       /\ claimed[u] + stakerRewardsToClaim[u] \in Nat
                       /\ claimed[u] \in Nat /\ stakerRewardsToClaim[u] \in Nat
  BY <1>1, RewardTypes
<1> DEFINE paid(u) == claimed[u] + stakerRewardsToClaim[u]
           old(u)  == GetRewards(balances[u], i, asset.users[u])
           new(u)  == GetRewards(balances[u], j, asset.users[u])
<1>6. \A u \in Users : old(u) \in Nat /\ new(u) \in Nat /\ old(u) <= new(u)
  <2> HIDE DEF i, j
  <2> SUFFICES ASSUME NEW u \in Users PROVE old(u) \in Nat /\ new(u) \in Nat /\ old(u) <= new(u)
    OBVIOUS
  <2>1. i \in Nat /\ j \in Nat /\ i <= j
    BY <1>4 DEF i, j
  <2>2. /\ old(u) \in Nat /\ new(u) \in Nat
        /\ (balances[u] * (j - i)) \div SCALE \in Nat
        /\ old(u) + (balances[u] * (j - i)) \div SCALE <= new(u)
    BY <1>5, <2>1, RewardsGain
  <2> HIDE DEF old, new
  <2> QED
    BY <2>2
<1>7. \A u \in Users : EarnedBy(u) = paid(u) + old(u) /\ EarnedBy(u)' = paid(u) + new(u)
  <2> SUFFICES ASSUME NEW u \in Users
               PROVE  EarnedBy(u) = paid(u) + old(u) /\ EarnedBy(u)' = paid(u) + new(u)
    OBVIOUS
  <2>1. /\ EarnedBy(u) = claimed[u] + (stakerRewardsToClaim[u] + old(u))
        /\ EarnedBy(u)' = claimed[u] + (stakerRewardsToClaim[u] + new(u))
    BY <1>2, EarnedForm
  <2> QED
    BY <1>5, <1>6, <2>1
<1>8. CASE totalSupply # 0 /\ now < DISTRIBUTION_END
  <2>1. emitted' = emitted + asset.emissionPerSecond
    BY <1>2, <1>8
  <2>2. \A u \in Users : /\ EarnedBy(u)' >= EarnedBy(u)
                         /\ balances[u] = 0 => EarnedBy(u)' = EarnedBy(u)
    <3> SUFFICES ASSUME NEW u \in Users
                 PROVE  /\ EarnedBy(u)' >= EarnedBy(u)
                        /\ balances[u] = 0 => EarnedBy(u)' = EarnedBy(u)
      OBVIOUS
    <3>1. balances[u] = 0 => new(u) = 0 /\ old(u) = 0
      BY <1>4, <1>5, NoRewards
    <3>2. /\ EarnedBy(u) = paid(u) + old(u) /\ EarnedBy(u)' = paid(u) + new(u)
          /\ paid(u) \in Nat /\ old(u) \in Nat /\ new(u) \in Nat /\ old(u) <= new(u)
      BY <1>5, <1>6, <1>7
    <3> HIDE DEF paid, old, new
    <3> QED
      BY <3>1, <3>2
  <2>3. \A u, v \in Users :
          balances[u] >= balances[v] =>
            (EarnedBy(u)' - EarnedBy(u)) + 1 >= EarnedBy(v)' - EarnedBy(v)
    <3> SUFFICES ASSUME NEW u \in Users, NEW v \in Users, balances[u] >= balances[v]
                 PROVE  (EarnedBy(u)' - EarnedBy(u)) + 1 >= EarnedBy(v)' - EarnedBy(v)
      OBVIOUS
    <3>1. (new(u) - old(u)) + 1 >= new(v) - old(v)
      <4>1. i \in Nat /\ j \in Nat /\ i <= j
        BY <1>4
      <4>2. balances[v] <= balances[u]
        BY <1>5
      <4> HIDE DEF i, j
      <4> QED
        BY <1>5, <4>1, <4>2, FairGain
    <3>2. /\ EarnedBy(u) = paid(u) + old(u) /\ EarnedBy(u)' = paid(u) + new(u)
          /\ EarnedBy(v) = paid(v) + old(v) /\ EarnedBy(v)' = paid(v) + new(v)
          /\ paid(u) \in Nat /\ old(u) \in Nat /\ new(u) \in Nat
          /\ paid(v) \in Nat /\ old(v) \in Nat /\ new(v) \in Nat
      BY <1>5, <1>6, <1>7
    <3> HIDE DEF paid, old, new
    <3> QED
      BY <3>1, <3>2
  <2>4. (RewardInv => Sum(Earned) <= emitted)'
    BY EarnedWithinEmitted, PTL
  <2>5. Sum(Earned') <= emitted'
    BY <2>4
  <2>6. \A u \in Users : Earned[u] = EarnedBy(u) /\ Earned'[u] = EarnedBy(u)'
    BY DEF Earned
  <2>7. Promise!Accrue
    <3>1. /\ [u \in Users |-> claimed[u] + GetTotalRewardsBalance(u)] = Earned
          /\ [u \in Users |-> claimed[u] + GetTotalRewardsBalance(u)]' = Earned'
      BY DEF Earned, EarnedBy
    <3>2. Promise!Sum(Earned') = Sum(Earned')
      BY DEF Promise!Sum, Promise!Units, Promise!UnitsOf, Promise!Cardinality,
             Sum, Units, UnitsOf, Cardinality
    <3>3. \A u \in Users : /\ Earned'[u] >= Earned[u]
                           /\ balances[u] = 0 => Earned'[u] = Earned[u]
      BY <2>2, <2>6
    <3>4. \A u, v \in Users :
            balances[u] >= balances[v] =>
              (Earned'[u] - Earned[u]) + 1 >= Earned'[v] - Earned[v]
      BY <2>3, <2>6
    <3>5. UNCHANGED <<balances, asset.emissionPerSecond>>
      BY <1>2
    <3> HIDE DEF Earned
    <3> QED
      BY <2>1, <2>5, <3>1, <3>2, <3>3, <3>4, <3>5 DEF Promise!Accrue
  <2> QED
    BY <2>7 DEF Promise!Next
<1>9. CASE ~(totalSupply # 0 /\ now < DISTRIBUTION_END)
  <2>1. emitted' = emitted /\ CurrentIndex' = CurrentIndex
    BY <1>2, <1>4, <1>9
  <2>2. \A u \in Users : EarnedBy(u)' = EarnedBy(u)
    BY <1>7, <2>1
  <2> QED
    BY <1>2, <2>1, <2>2 DEF Promise!vars, EarnedBy
<1> QED
  BY <1>8, <1>9

----------------------------------------------------------------------------
(* The transactions. *)

(* The refinement mapping's `earned` is Earned. *)
LEMMA MappedEarned ==
  /\ [u \in Users |-> claimed[u] + GetTotalRewardsBalance(u)] = Earned
  /\ [u \in Users |-> claimed[u] + GetTotalRewardsBalance(u)]' = Earned'
BY DEF Earned, EarnedBy

(* A transaction after which everyone has the stake, everyone has earned    *)
(* what was earned and the rate is what it was, is invisible.               *)
LEMMA Invisible ==
  ASSUME balances' = balances, Earned' = Earned,
         asset'.emissionPerSecond = asset.emissionPerSecond, emitted' = emitted
  PROVE  [Promise!Next]_(Promise!vars)
<1> HIDE DEF Earned
<1> QED
  BY MappedEarned DEF Promise!vars

LEMMA StakeKeepsPromise ==
  ASSUME RewardInv, NEW sender \in Users, NEW onBehalfOf \in Users, NEW amount \in Amounts,
         Stake(sender, onBehalfOf, amount)
  PROVE  [Promise!Next]_(Promise!vars)
<1>1. RewardInv' /\ Settles({onBehalfOf}, asset.emissionPerSecond)
  BY StakeRewards
<1>2. Earned' = Earned
  <2>1. IInv /\ IInv' /\ {onBehalfOf} \in SUBSET Users
    BY <1>1 DEF RewardInv
  <2> QED
    BY <1>1, <2>1, EarnedKept
<1>3. /\ balances \in [Users -> Nat] /\ amount \in Nat /\ amount # 0
      /\ balances' = [balances EXCEPT ![onBehalfOf] = @ + amount]
  BY StakedTokenAssumption DEF RewardInv, IInv, TypeOK, Stake
<1>4. /\ balances'[onBehalfOf] > balances[onBehalfOf]
      /\ balances' = [balances EXCEPT ![onBehalfOf] = balances'[onBehalfOf]]
  BY <1>3
<1>5. asset'.emissionPerSecond = asset.emissionPerSecond /\ emitted' = emitted
  BY <1>1 DEF Settles
<1>6. Promise!Deposit(onBehalfOf)
  <2> HIDE DEF Earned
  <2> QED
    BY <1>2, <1>4, <1>5, MappedEarned DEF Promise!Deposit
<1> QED
  BY <1>6 DEF Promise!Next

LEMMA RedeemKeepsPromise ==
  ASSUME RewardInv, NEW sender \in Users, NEW to \in Accounts, NEW amount \in Amounts,
         Redeem(sender, to, amount)
  PROVE  [Promise!Next]_(Promise!vars)
<1> DEFINE redeemed == IF amount > balances[sender] THEN balances[sender] ELSE amount
<1>1. RewardInv' /\ Settles({sender}, asset.emissionPerSecond)
  BY RedeemRewards
<1>2. Earned' = Earned
  <2>1. IInv /\ IInv' /\ {sender} \in SUBSET Users
    BY <1>1 DEF RewardInv
  <2> QED
    BY <1>1, <2>1, EarnedKept
<1>3. /\ balances \in [Users -> Nat] /\ amount \in Nat
      /\ balances' = [balances EXCEPT ![sender] = @ - redeemed]
  BY StakedTokenAssumption DEF RewardInv, IInv, TypeOK, Redeem
<1>4. balances[sender] \in Nat /\ redeemed \in Nat /\ redeemed <= balances[sender]
  BY <1>3
<1>5. asset'.emissionPerSecond = asset.emissionPerSecond /\ emitted' = emitted
  BY <1>1 DEF Settles
<1> HIDE DEF redeemed
<1>6. CASE redeemed = 0
  <2>1. balances' = balances
    BY <1>3, <1>4, <1>6
  <2> QED
    BY <1>2, <1>5, <2>1, Invisible
<1>7. CASE redeemed # 0
  <2>1. /\ balances'[sender] < balances[sender]
        /\ balances' = [balances EXCEPT ![sender] = balances'[sender]]
    BY <1>3, <1>4, <1>7
  <2>2. Promise!Withdraw(sender)
    <3> HIDE DEF Earned
    <3> QED
      BY <1>2, <1>5, <2>1, MappedEarned DEF Promise!Withdraw
  <2> QED
    BY <2>2 DEF Promise!Next
<1> QED
  BY <1>6, <1>7

LEMMA ClaimRewardsKeepsPromise ==
  ASSUME RewardInv, NEW sender \in Users, NEW to \in Accounts,
         NEW amount \in Amounts \cup {MAX_UINT}, ClaimRewards(sender, to, amount)
  PROVE  [Promise!Next]_(Promise!vars)
<1>1. RewardInv' /\ Settles({sender}, asset.emissionPerSecond)
  BY ClaimRewardsRewards
<1>2. Earned' = Earned
  <2>1. IInv /\ IInv' /\ {sender} \in SUBSET Users
    BY <1>1 DEF RewardInv
  <2> QED
    BY <1>1, <2>1, EarnedKept
<1>3. balances' = balances
  BY DEF ClaimRewards, stakeVars
<1>4. asset'.emissionPerSecond = asset.emissionPerSecond /\ emitted' = emitted
  BY <1>1 DEF Settles
<1> QED
  BY <1>2, <1>3, <1>4, Invisible

LEMMA TransferKeepsPromise ==
  ASSUME RewardInv, NEW from \in Users, NEW to \in Users, NEW amount \in Amounts,
         Transfer(from, to, amount)
  PROVE  [Promise!Next]_(Promise!vars)
<1> DEFINE debited == [balances EXCEPT ![from] = @ - amount]
<1>1. RewardInv' /\ Settles({from, to}, asset.emissionPerSecond)
  BY TransferRewards
<1>2. Earned' = Earned
  <2>1. IInv /\ IInv' /\ {from, to} \in SUBSET Users
    BY <1>1 DEF RewardInv
  <2> QED
    BY <1>1, <2>1, EarnedKept
<1>3. /\ balances \in [Users -> Nat] /\ amount \in Nat /\ amount <= balances[from]
      /\ balances' = [debited EXCEPT ![to] = @ + amount]
  BY StakedTokenAssumption DEF RewardInv, IInv, TypeOK, Transfer
<1>4. balances[from] \in Nat /\ balances[to] \in Nat
  BY <1>3
<1>5. asset'.emissionPerSecond = asset.emissionPerSecond /\ emitted' = emitted
  BY <1>1 DEF Settles
<1>6. CASE from = to \/ amount = 0
  <2>1. balances' = balances
    <3>1. CASE from = to
      <4>1. balances[from] - amount + amount = balances[from]
        BY <1>3, <1>4
      <4>2. debited[to] = balances[from] - amount
        BY <1>3, <3>1
      <4>3. balances' = [debited EXCEPT ![to] = balances[from]]
        BY <1>3, <4>1, <4>2
      <4> QED
        BY <1>3, <3>1, <4>3
    <3>2. CASE amount = 0
      BY <1>3, <1>4, <3>2
    <3> QED
      BY <1>6, <3>1, <3>2
  <2> QED
    BY <1>2, <1>5, <2>1, Invisible
<1>7. CASE from # to /\ amount # 0
  <2>1. amount \in 1..balances[from]
    BY <1>3, <1>4, <1>7
  <2>2. balances' = [balances EXCEPT ![from] = @ - amount, ![to] = @ + amount]
    <3>1. balances[from] - amount \in Nat
      BY <1>3, <1>4
    <3>2. debited \in [Users -> Nat] /\ debited[to] = balances[to]
      BY <1>3, <1>7, <3>1
    <3>3. balances' = [debited EXCEPT ![to] = balances[to] + amount]
      BY <1>3, <3>2
    <3> QED
      BY <3>3
  <2>3. Promise!Move(from, to)
    <3> HIDE DEF Earned
    <3> QED
      BY <1>2, <1>5, <2>1, <2>2, MappedEarned DEF Promise!Move
  <2> QED
    BY <1>7, <2>3 DEF Promise!Next
<1> QED
  BY <1>6, <1>7

LEMMA CooldownKeepsPromise ==
  ASSUME NEW sender \in Users, Cooldown(sender)
  PROVE  [Promise!Next]_(Promise!vars)
<1>1. UNCHANGED <<balances, totalSupply, stakerRewardsToClaim, asset, now, claimed, emitted>>
  BY DEF Cooldown, stakeVars, rewardVars
<1>2. Earned' = Earned
  BY <1>1 DEF Earned, EarnedBy, GetTotalRewardsBalance
<1> QED
  BY <1>1, <1>2, Invisible

LEMMA ConfigureAssetsKeepsPromise ==
  ASSUME RewardInv, NEW emission \in Nat, ConfigureAssets(emission, totalSupply)
  PROVE  [Promise!Next]_(Promise!vars)
<1>1. RewardInv' /\ Settles({}, emission)
  BY ConfigureAssetsRewards
<1>2. Earned' = Earned
  <2>1. IInv /\ IInv' /\ {} \in SUBSET Users
    BY <1>1 DEF RewardInv
  <2> QED
    BY <1>1, <2>1, EarnedKept
<1>3. balances' = balances /\ emitted' = emitted /\ asset'.emissionPerSecond = emission
  BY <1>1 DEF ConfigureAssets, stakeVars, Settles
<1>4. CASE emission = asset.emissionPerSecond
  BY <1>2, <1>3, <1>4, Invisible
<1>5. CASE emission # asset.emissionPerSecond
  <2>1. Promise!SetRate
    <3> HIDE DEF Earned
    <3> QED
      BY <1>2, <1>3, <1>5, MappedEarned DEF Promise!SetRate
  <2> QED
    BY <2>1 DEF Promise!Next
<1> QED
  BY <1>4, <1>5

(* Switching off without the total forgets what was pending at the view's   *)
(* index: everyone falls back to the stored one.                            *)
LEMMA SwitchOffKeepsPromise ==
  ASSUME RewardInv, ConfigureAssets(0, 0)
  PROVE  [Promise!Next]_(Promise!vars)
<1>1. IInv
  BY DEF RewardInv
<1>2. now \in Nat /\ SoundAsset(asset, Users, now)
  BY <1>1 DEF IInv, TypeOK
<1>3. /\ asset' = ConfigureAsset(asset, 0, 0, now)
      /\ UNCHANGED <<balances, totalSupply, stakerRewardsToClaim, now, claimed, emitted>>
  BY DEF ConfigureAssets, stakeVars, historyVars
<1>4. /\ asset'.index = GetAssetIndex(asset, 0, now)
      /\ asset'.lastUpdateTimestamp = now
      /\ asset'.users = asset.users
      /\ asset'.emissionPerSecond = 0
  BY <1>2, <1>3, ConfigureAssetSound
<1>5. asset'.index = asset.index
  BY <1>4 DEF GetAssetIndex
<1>6. CurrentIndex' = asset.index
  <2>1. CurrentIndex' = GetAssetIndex(asset', totalSupply, now)
    BY <1>3 DEF CurrentIndex
  <2>2. GetAssetIndex(asset', totalSupply, now) = asset'.index
    BY <1>4 DEF GetAssetIndex
  <2> QED
    BY <1>5, <2>1, <2>2
<1>7. \A u \in Users :
        EarnedBy(u)' <= EarnedBy(u) /\ (CurrentIndex = asset.index => EarnedBy(u)' = EarnedBy(u))
  <2> SUFFICES ASSUME NEW u \in Users
               PROVE  /\ EarnedBy(u)' <= EarnedBy(u)
                      /\ CurrentIndex = asset.index => EarnedBy(u)' = EarnedBy(u)
    OBVIOUS
  <2> DEFINE old == GetRewards(balances[u], CurrentIndex, asset.users[u])
             new == GetRewards(balances[u], asset.index, asset.users[u])
  <2>1. /\ balances[u] \in Nat /\ asset.users[u] \in Nat /\ asset.users[u] <= asset.index
        /\ asset.index \in Nat /\ CurrentIndex \in Nat /\ asset.index <= CurrentIndex
        /\ claimed[u] \in Nat /\ stakerRewardsToClaim[u] \in Nat
    BY <1>1, RewardTypes
  <2>2. /\ new \in Nat /\ old \in Nat
        /\ (balances[u] * (CurrentIndex - asset.index)) \div SCALE \in Nat
        /\ new + (balances[u] * (CurrentIndex - asset.index)) \div SCALE <= old
    BY <2>1, RewardsGain
  <2>3. /\ EarnedBy(u) = claimed[u] + (stakerRewardsToClaim[u] + old)
        /\ EarnedBy(u)' = claimed[u] + (stakerRewardsToClaim[u] + new)
    BY <1>3, <1>4, <1>6, EarnedForm
  <2>4. CurrentIndex = asset.index => old = new
    OBVIOUS
  <2> HIDE DEF old, new
  <2>5. new <= old
    BY <2>2
  <2> QED
    BY <2>1, <2>2, <2>3, <2>4, <2>5
<1>8. CASE asset.emissionPerSecond = 0
  <2>1. CurrentIndex = asset.index
    BY <1>8 DEF CurrentIndex, GetAssetIndex
  <2>2. Earned' = Earned
    BY <1>7, <2>1 DEF Earned
  <2> QED
    BY <1>3, <1>4, <1>8, <2>2, Invisible
<1>9. CASE asset.emissionPerSecond # 0
  <2>1. \A u \in Users : Earned'[u] <= Earned[u]
    BY <1>7 DEF Earned
  <2>2. Promise!SwitchOff
    <3> HIDE DEF Earned
    <3> QED
      BY <1>3, <1>4, <1>9, <2>1, MappedEarned DEF Promise!SwitchOff
  <2> QED
    BY <2>2 DEF Promise!Next
<1> QED
  BY <1>8, <1>9

(* Every step of the staked token is one of RewardedStake or invisible. *)
LEMMA StepKeepsPromise ==
  RewardInv /\ RewardInv' /\ [Next]_vars => [Promise!Next]_(Promise!vars)
<1> SUFFICES ASSUME RewardInv, RewardInv', [Next]_vars
             PROVE  [Promise!Next]_(Promise!vars)
  OBVIOUS
<1>1. ASSUME NEW sender \in Users, NEW onBehalfOf \in Users, NEW amount \in Amounts,
             Stake(sender, onBehalfOf, amount)
      PROVE  [Promise!Next]_(Promise!vars)
  BY <1>1, StakeKeepsPromise
<1>2. ASSUME NEW sender \in Users, NEW to \in Accounts, NEW amount \in Amounts,
             Redeem(sender, to, amount)
      PROVE  [Promise!Next]_(Promise!vars)
  BY <1>2, RedeemKeepsPromise
<1>3. ASSUME NEW sender \in Users, Cooldown(sender)
      PROVE  [Promise!Next]_(Promise!vars)
  BY <1>3, CooldownKeepsPromise
<1>4. ASSUME NEW sender \in Users, NEW to \in Accounts,
             NEW amount \in Amounts \cup {MAX_UINT}, ClaimRewards(sender, to, amount)
      PROVE  [Promise!Next]_(Promise!vars)
  BY <1>4, ClaimRewardsKeepsPromise
<1>5. ASSUME NEW from \in Users, NEW to \in Users, NEW amount \in Amounts,
             Transfer(from, to, amount)
      PROVE  [Promise!Next]_(Promise!vars)
  BY <1>5, TransferKeepsPromise
<1>6. ASSUME NEW emission \in Emissions, ConfigureAssets(emission, totalSupply)
      PROVE  [Promise!Next]_(Promise!vars)
  <2>1. emission \in Nat
    BY StakedTokenAssumption
  <2> QED
    BY <1>6, <2>1, ConfigureAssetsKeepsPromise
<1>7. CASE ConfigureAssets(0, 0)
  BY <1>7, SwitchOffKeepsPromise
<1>8. CASE Tick
  BY <1>8, TickKeepsPromise
<1>9. CASE UNCHANGED vars
  <2>1. UNCHANGED <<balances, totalSupply, stakerRewardsToClaim, asset, now, claimed, emitted>>
    BY <1>9 DEF vars, stakeVars, rewardVars, historyVars
  <2>2. Earned' = Earned
    BY <2>1 DEF Earned, EarnedBy, GetTotalRewardsBalance
  <2> QED
    BY <2>1, <2>2, Invisible
<1> QED
  BY <1>1, <1>2, <1>3, <1>4, <1>5, <1>6, <1>7, <1>8, <1>9 DEF Next

(* Nobody has staked or earned at the deployment. *)
LEMMA InitKeepsPromise == Init => Promise!Init
<1> SUFFICES ASSUME Init PROVE Promise!Init
  OBVIOUS
<1>1. /\ balances = [u \in Users |-> 0] /\ claimed = [u \in Users |-> 0]
      /\ stakerRewardsToClaim = [u \in Users |-> 0] /\ emitted = 0
      /\ asset.emissionPerSecond = 0
  BY DEF Init, InitAssetData
<1>2. \A u \in Users : EarnedBy(u) = 0
  <2> TAKE u \in Users
  <2>1. CurrentIndex \in Nat /\ asset.users[u] \in Nat
    BY InitRewardInv, RewardTypes DEF RewardInv
  <2>2. GetRewards(0, CurrentIndex, asset.users[u]) = 0
    BY <2>1, NoRewards
  <2> QED
    BY <1>1, <2>2, EarnedForm
<1>3. Earned = [u \in Users |-> 0]
  BY <1>2 DEF Earned
<1> QED
  BY <1>1, <1>3, MappedEarned DEF Promise!Init

(* For any number of users and any emissions, the staked token implements   *)
(* RewardedStake: only time earns rewards, only stakes earn them, a larger  *)
(* stake earns no less, within what is emitted, and no transaction of       *)
(* anybody changes what anybody has earned, but for the manager's switching *)
(* the emission off.                                                        *)
THEOREM ImplementsRewardedStake == Spec => KeepsPromise
<1>1. Init => Promise!Init /\ RewardInv
  BY InitKeepsPromise, InitRewardInv
<1>2. RewardInv /\ [Next]_vars => RewardInv'
  BY NextRewardInv
<1>3. RewardInv /\ RewardInv' /\ [Next]_vars => [Promise!Next]_(Promise!vars)
  BY StepKeepsPromise
<1> QED
  BY <1>1, <1>2, <1>3, PTL DEF Spec, KeepsPromise, Promise!Spec
============================================================================
