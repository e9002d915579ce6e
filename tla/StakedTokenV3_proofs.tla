------------------------ MODULE StakedTokenV3_proofs ------------------------
(***************************************************************************)
(* What holds of the power of the staked token, for any number of users,   *)
(* stakes and blocks: it is the stake that is delegated, it stands in the  *)
(* way of no movement of stake, and what getPowerAtBlock answers for a     *)
(* block that is over stays what it was at its end.                        *)
(*                                                                         *)
(* Nothing of the rewards, the cooldowns and the payments is needed: every *)
(* step is a movement of stake, a change of delegations, neither, or the   *)
(* next block.                                                             *)
(*                                                                         *)
(* Then what it inherits from StakedToken, and what holds of the messages  *)
(* of SignedMessages, which extends it.                                    *)
(***************************************************************************)
EXTENDS SignedMessages, StakeLemmas

(* The record of each type of power is sound (SoundPower), an account that  *)
(* has no history of it has no stake, and one entry of `ended` was noted    *)
(* for each block since START: together with PowerAtBlockIsHistory, what    *)
(* the steps preserve.  An account without history answers its balance of   *)
(* now for every block; that it has none makes the answer right.            *)
PowerInv ==
  /\ balances \in [Users -> Nat]
  /\ now \in Nat
  /\ delegation = [type \in DelegationTypes |-> delegation[type]]
  /\ \A type \in DelegationTypes : SoundPower(delegation[type], Users, balances, now)
  /\ \A type \in DelegationTypes, u \in Users :
       delegation[type].snapshots[u] = <<>> => balances[u] = 0
  /\ ended \in Seq([Users -> [DelegationTypes -> Nat]])
  /\ START + Len(ended) = now
  /\ PowerAtBlockIsHistory

(* DelegatedStake is the operator of the lemmas. *)
LEMMA StakeDelegated ==
  \A u, type : DelegatedStake(u, type)
                 = Delegated(delegation[type].delegates, balances, Users, u)
BY DEF DelegatedStake, Delegated

(* Before the first stake, nobody has power and nobody had. *)
LEMMA InitPowerInv == Init => PowerInv
<1> SUFFICES ASSUME Init PROVE PowerInv
  OBVIOUS
<1> USE StakedTokenV3Assumption
<1> DEFINE none == InitDelegationData(Users)
<1>1. /\ balances = [u \in Users |-> 0] /\ now = START
      /\ delegation = [type \in DelegationTypes |-> none]
      /\ ended = <<>>
  BY DEF Init, Token!Init
<1>2. /\ \A u \in Users : none.snapshots[u] = <<>> /\ none.delegates[u] = ZERO_ADDRESS
      /\ none \in DelegationData(Users)
  <2>1. [u \in Users |-> <<>>] \in [Users -> Seq(Snapshot)]
    OBVIOUS
  <2>2. [u \in Users |-> ZERO_ADDRESS] \in [Users -> Users \cup {ZERO_ADDRESS}]
    OBVIOUS
  <2> QED
    BY <2>1, <2>2, WithDelegates DEF InitDelegationData, InitSnapshots
<1> HIDE DEF none
<1>3. SoundPower(none, Users, balances, now)
  BY <1>1, <1>2, UnusedPower
<1>4. ended \in Seq([Users -> [DelegationTypes -> Nat]]) /\ Len(ended) = 0
  BY <1>1
<1>5. PowerAtBlockIsHistory
  BY <1>4 DEF PowerAtBlockIsHistory
<1> QED
  BY <1>1, <1>2, <1>3, <1>4, <1>5 DEF PowerInv

----------------------------------------------------------------------------
(* The steps. *)

(* Within a block, a step of the record of both types keeps the invariant: what  *)
(* is answered for the blocks that are over stays.                          *)
LEMMA StepPowerInv ==
  ASSUME PowerInv, balances' \in [Users -> Nat], now' = now, ended' = ended,
         delegation' = [type \in DelegationTypes |-> delegation'[type]],
         \A type \in DelegationTypes :
           PowerMoved(delegation'[type], delegation[type], Users, balances', balances, now)
  PROVE  PowerInv'
<1> USE StakedTokenV3Assumption
<1>1. \A type \in DelegationTypes, u \in Users :
        delegation'[type].snapshots[u] = <<>> => balances'[u] = 0
  BY DEF PowerInv, PowerMoved, PowerKept
<1>2. PowerAtBlockIsHistory'
  <2> SUFFICES ASSUME NEW i \in DOMAIN ended, NEW u \in Users, NEW type \in DelegationTypes
               PROVE  SearchByBlockNumber(delegation'[type].snapshots[u], balances'[u],
                                          START + i - 1) = ended[i][u][type]
    BY DEF PowerAtBlockIsHistory, GetPowerAtBlock
  <2> DEFINE bn    == START + i - 1
             data  == delegation[type]
             after == delegation'[type]
  <2>1. SearchByBlockNumber(data.snapshots[u], balances[u], bn) = ended[i][u][type]
    BY DEF PowerInv, PowerAtBlockIsHistory, GetPowerAtBlock
  <2>2. bn \in Nat /\ bn < now
    <3>1. i \in 1..Len(ended) /\ Len(ended) \in Nat
      BY DEF PowerInv
    <3>2. START + Len(ended) = now /\ START \in Nat /\ now \in Nat
      BY DEF PowerInv
    <3> QED
      BY <3>1, <3>2
  <2>3. /\ now \in Nat /\ balances \in [Users -> Nat] /\ balances' \in [Users -> Nat]
        /\ SoundPower(data, Users, balances, now)
        /\ SoundPower(after, Users, balances', now)
        /\ PowerKept(after, data, Users, now)
    BY DEF PowerInv, PowerMoved
  <2>4. /\ data.snapshots[u] = <<>> => balances[u] = 0
        /\ after.snapshots[u] = <<>> => balances'[u] = balances[u]
    BY DEF PowerInv, PowerMoved
  <2> HIDE DEF bn, data, after
  <2>5. SearchByBlockNumber(after.snapshots[u], balances'[u], bn)
          = SearchByBlockNumber(data.snapshots[u], balances[u], bn)
    BY <2>2, <2>3, <2>4, AnswersKept
  <2> QED
    BY <2>1, <2>5 DEF bn, data, after
<1>3. \A type \in DelegationTypes : SoundPower(delegation'[type], Users, balances', now')
  BY DEF PowerMoved
<1> QED
  BY <1>1, <1>2, <1>3 DEF PowerInv

(* A record of power that stays as it is, with the stakes. *)
LEMMA UnmovedPower ==
  ASSUME PowerInv, NEW type \in DelegationTypes
  PROVE  PowerMoved(delegation[type], delegation[type], Users, balances, balances, now)
BY PowerStays DEF PowerInv

(* A movement of stake: the power of the delegatees of the two accounts     *)
(* follows it, for both types.                                              *)
LEMMA MovePowerInv ==
  ASSUME PowerInv,
         NEW from \in Users \cup {ZERO_ADDRESS}, NEW to \in Users \cup {ZERO_ADDRESS},
         NEW amount, StakeMoves(balances, balances', Users, from, to, amount),
         delegation' \in BeforeTokenTransferV3(delegation, balances, from, to, amount, now),
         now' = now, ended' = ended
  PROVE  PowerInv'
<1> USE StakedTokenV3Assumption
<1>1. PICK v \in PowerBeforeTransfer(delegation[VOTING_POWER], balances, from, to, amount, now),
           p \in PowerBeforeTransfer(delegation[PROPOSITION_POWER], balances, from, to,
                                     amount, now) :
        delegation' = [delegation EXCEPT ![VOTING_POWER] = v, ![PROPOSITION_POWER] = p]
  BY DEF BeforeTokenTransferV3
<1>2. /\ delegation' = [type \in DelegationTypes |-> delegation'[type]]
      /\ delegation'[VOTING_POWER] = v /\ delegation'[PROPOSITION_POWER] = p
  <2>1. delegation = [type \in DelegationTypes |-> delegation[type]]
    BY DEF PowerInv
  <2> QED
    BY <1>1, <2>1 DEF DelegationTypes, VOTING_POWER, PROPOSITION_POWER
<1>3. ASSUME NEW type \in DelegationTypes,
             NEW after \in PowerBeforeTransfer(delegation[type], balances, from, to, amount, now)
      PROVE  PowerMoved(after, delegation[type], Users, balances', balances, now)
  <2>1. now \in Nat /\ SoundPower(delegation[type], Users, balances, now)
    BY DEF PowerInv
  <2> QED
    BY <2>1, StakeMovePower
<1>4. \A type \in DelegationTypes :
        PowerMoved(delegation'[type], delegation[type], Users, balances', balances, now)
  BY <1>1, <1>2, <1>3 DEF DelegationTypes
<1>5. balances' \in [Users -> Nat]
  BY DEF StakeMoves
<1> QED
  BY <1>2, <1>4, <1>5, StepPowerInv

(* _mint, with power for the delegatee of the receiver. *)
LEMMA StakePower ==
  ASSUME PowerInv, NEW sender \in Users, NEW onBehalfOf \in Users, NEW amount \in Amounts,
         Stake(sender, onBehalfOf, amount)
  PROVE  PowerInv'
<1> USE StakedTokenV3Assumption
<1>1. /\ delegation' \in BeforeTokenTransferV3(delegation, balances, ZERO_ADDRESS,
                                               onBehalfOf, amount, now)
      /\ balances' = [balances EXCEPT ![onBehalfOf] = @ + amount]
      /\ now' = now /\ ended' = ended
  BY DEF Stake, Token!Stake
<1>2. balances \in [Users -> Nat] /\ amount \in Nat
  BY DEF PowerInv
<1>3. StakeMoves(balances, balances', Users, ZERO_ADDRESS, onBehalfOf, amount)
  BY <1>1, <1>2, MintMoves
<1> QED
  BY <1>1, <1>3, MovePowerInv

(* _burn, out of the power of the sender's delegatee. *)
LEMMA RedeemPower ==
  ASSUME PowerInv, NEW sender \in Users, NEW to, NEW amount \in Amounts,
         Redeem(sender, to, amount)
  PROVE  PowerInv'
<1> USE StakedTokenV3Assumption
<1> DEFINE redeemed == IF amount > balances[sender] THEN balances[sender] ELSE amount
<1>1. /\ delegation' \in BeforeTokenTransferV3(delegation, balances, sender,
                                               ZERO_ADDRESS, redeemed, now)
      /\ balances' = [balances EXCEPT ![sender] = @ - redeemed]
      /\ now' = now /\ ended' = ended
  BY DEF Redeem, Token!Redeem
<1>2. balances \in [Users -> Nat] /\ amount \in Nat
  BY DEF PowerInv
<1>3. redeemed \in Nat /\ redeemed <= balances[sender]
  BY <1>2
<1> HIDE DEF redeemed
<1>4. StakeMoves(balances, balances', Users, sender, ZERO_ADDRESS, redeemed)
  BY <1>1, <1>2, <1>3, BurnMoves
<1> QED
  BY <1>1, <1>4, MovePowerInv

(* _transfer, to oneself included. *)
LEMMA TransferPower ==
  ASSUME PowerInv, NEW from \in Users, NEW to \in Users, NEW amount \in Amounts,
         Transfer(from, to, amount)
  PROVE  PowerInv'
<1> USE StakedTokenV3Assumption
<1> DEFINE debited == [balances EXCEPT ![from] = @ - amount]
<1>1. /\ delegation' \in BeforeTokenTransferV3(delegation, balances, from, to, amount, now)
      /\ balances' = [debited EXCEPT ![to] = @ + amount]
      /\ amount <= balances[from]
      /\ now' = now /\ ended' = ended
  BY DEF Transfer, Token!Transfer
<1>2. balances \in [Users -> Nat] /\ amount \in Nat
  BY DEF PowerInv
<1>3. StakeMoves(balances, balances', Users, from, to, amount)
  BY <1>1, <1>2, TransferMoves
<1> QED
  BY <1>1, <1>3, MovePowerInv

(* One type of power delegated. *)
LEMMA DelegatedPower ==
  ASSUME PowerInv, NEW type \in DelegationTypes,
         NEW sender \in Users, NEW delegatee \in Users,
         NEW data \in DelegatePower(delegation[type], balances, sender, delegatee, now)
  PROVE  PowerMoved(data, delegation[type], Users, balances, balances, now)
<1> USE StakedTokenV3Assumption
<1>1. /\ now \in Nat /\ balances \in [Users -> Nat]
      /\ SoundPower(delegation[type], Users, balances, now)
  BY DEF PowerInv
<1>2. /\ SoundPower(data, Users, balances, now)
      /\ PowerKept(data, delegation[type], Users, now)
  BY <1>1, DelegatePowerSound
<1> QED
  BY <1>2 DEF PowerMoved

(* delegateByType: the other type of power stays. *)
LEMMA DelegateByTypePower ==
  ASSUME PowerInv, NEW sender \in Users, NEW delegatee \in Users,
         NEW type \in DelegationTypes, DelegateByType(sender, delegatee, type)
  PROVE  PowerInv'
<1>1. PICK data \in DelegatePower(delegation[type], balances, sender, delegatee, now) :
        delegation' = [delegation EXCEPT ![type] = data]
  BY DEF DelegateByType
<1>2. balances' = balances /\ now' = now /\ ended' = ended
  BY DEF DelegateByType, tokenVars
<1>3. delegation = [t \in DelegationTypes |-> delegation[t]] /\ balances \in [Users -> Nat]
  BY DEF PowerInv
<1>4. /\ delegation' = [t \in DelegationTypes |-> delegation'[t]]
      /\ delegation'[type] = data
      /\ \A t \in DelegationTypes \ {type} : delegation'[t] = delegation[t]
  BY <1>1, <1>3
<1>5. PowerMoved(data, delegation[type], Users, balances, balances, now)
  BY DelegatedPower
<1>6. \A t \in DelegationTypes :
        PowerMoved(delegation'[t], delegation[t], Users, balances', balances, now)
  BY <1>2, <1>4, <1>5, UnmovedPower
<1> QED
  BY <1>2, <1>3, <1>4, <1>6, StepPowerInv

(* delegate: both types. *)
LEMMA DelegateBothPower ==
  ASSUME PowerInv, NEW sender \in Users, NEW delegatee \in Users,
         Delegate(sender, delegatee)
  PROVE  PowerInv'
<1>1. PICK v \in DelegatePower(delegation[VOTING_POWER], balances, sender, delegatee, now),
           p \in DelegatePower(delegation[PROPOSITION_POWER], balances, sender, delegatee, now) :
        delegation' = [delegation EXCEPT ![VOTING_POWER] = v, ![PROPOSITION_POWER] = p]
  BY DEF Delegate
<1>2. balances' = balances /\ now' = now /\ ended' = ended
  BY DEF Delegate, tokenVars
<1>3. delegation = [t \in DelegationTypes |-> delegation[t]] /\ balances \in [Users -> Nat]
  BY DEF PowerInv
<1>4. /\ delegation' = [t \in DelegationTypes |-> delegation'[t]]
      /\ delegation'[VOTING_POWER] = v /\ delegation'[PROPOSITION_POWER] = p
  BY <1>1, <1>3 DEF DelegationTypes, VOTING_POWER, PROPOSITION_POWER
<1>5. /\ PowerMoved(v, delegation[VOTING_POWER], Users, balances, balances, now)
      /\ PowerMoved(p, delegation[PROPOSITION_POWER], Users, balances, balances, now)
  BY DelegatedPower DEF DelegationTypes
<1>6. \A t \in DelegationTypes :
        PowerMoved(delegation'[t], delegation[t], Users, balances', balances, now)
  BY <1>2, <1>4, <1>5 DEF DelegationTypes
<1> QED
  BY <1>2, <1>3, <1>4, <1>6, StepPowerInv

(* The steps that move neither stake nor power. *)
LEMMA IdlePower ==
  ASSUME PowerInv, UNCHANGED <<balances, delegation, now, ended>>
  PROVE  PowerInv'
<1>1. \A t \in DelegationTypes :
        PowerMoved(delegation'[t], delegation[t], Users, balances', balances, now)
  BY UnmovedPower
<1>2. /\ balances \in [Users -> Nat]
      /\ delegation = [t \in DelegationTypes |-> delegation[t]]
  BY DEF PowerInv
<1>3. balances' \in [Users -> Nat] /\ delegation' = [t \in DelegationTypes |-> delegation'[t]]
  BY <1>2
<1> QED
  BY <1>1, <1>3, StepPowerInv

(* The end of a block: what is noted is what will be answered. *)
LEMMA TickPower ==
  ASSUME PowerInv, Tick
  PROVE  PowerInv'
<1> USE StakedTokenV3Assumption
<1> DEFINE note == [u \in Users |-> [type \in DelegationTypes |-> DelegatedStake(u, type)]]
<1>1. /\ now' = now + 1 /\ ended' = Append(ended, note)
      /\ balances' = balances /\ delegation' = delegation
  BY DEF Tick, EndOfBlock, Token!Tick, Token!stakeVars
<1>2. /\ now \in Nat /\ balances \in [Users -> Nat] /\ START + Len(ended) = now
      /\ ended \in Seq([Users -> [DelegationTypes -> Nat]]) /\ Len(ended) \in Nat
      /\ \A type \in DelegationTypes : SoundPower(delegation[type], Users, balances, now)
  BY DEF PowerInv
<1>3. \A type \in DelegationTypes :
        /\ SoundPower(delegation[type], Users, balances, now + 1)
        /\ \A u \in Users : SearchByBlockNumber(delegation[type].snapshots[u], balances[u], now)
                              = DelegatedStake(u, type)
  <2> TAKE type \in DelegationTypes
  <2> DEFINE data == delegation[type]
  <2>1. now \in Nat /\ SoundPower(data, Users, balances, now)
    BY <1>2
  <2>2. \A u \in Users : DelegatedStake(u, type) = Delegated(data.delegates, balances, Users, u)
    BY StakeDelegated
  <2> HIDE DEF data
  <2>3. /\ SoundPower(data, Users, balances, now + 1)
        /\ \A u \in Users : SearchByBlockNumber(data.snapshots[u], balances[u], now)
                              = Delegated(data.delegates, balances, Users, u)
    BY <2>1, NextBlockSound
  <2> QED
    BY <2>2, <2>3 DEF data
<1>4. note \in [Users -> [DelegationTypes -> Nat]]
  <2>1. \A u \in Users, type \in DelegationTypes : DelegatedStake(u, type) \in Nat
    <3> TAKE u \in Users, type \in DelegationTypes
    <3>1. Delegated(delegation[type].delegates, balances, Users, u) \in Nat
      BY <1>2, DelegatedChange
    <3> QED
      BY <3>1, StakeDelegated
  <2> QED
    BY <2>1
<1>5. /\ ended' \in Seq([Users -> [DelegationTypes -> Nat]])
      /\ Len(ended') = Len(ended) + 1
      /\ ended'[Len(ended) + 1] = note
      /\ \A i \in 1..Len(ended) : ended'[i] = ended[i]
  <2> HIDE DEF note
  <2> QED
    BY <1>1, <1>2, <1>4
<1>6. PowerAtBlockIsHistory'
  <2> SUFFICES ASSUME NEW i \in 1..(Len(ended) + 1), NEW u \in Users,
                      NEW type \in DelegationTypes
               PROVE  SearchByBlockNumber(delegation[type].snapshots[u], balances[u],
                                          START + i - 1) = ended'[i][u][type]
    BY <1>1, <1>5 DEF PowerAtBlockIsHistory, GetPowerAtBlock
  <2>0. i \in 1..Len(ended) \/ i = Len(ended) + 1
    <3>1. Len(ended) \in Nat
      BY <1>2
    <3> QED
      BY <3>1
  <2>1. CASE i \in 1..Len(ended)
    <3>1. i \in DOMAIN ended
      BY <1>2, <2>1
    <3>2. SearchByBlockNumber(delegation[type].snapshots[u], balances[u], START + i - 1)
            = ended[i][u][type]
      BY <3>1 DEF PowerInv, PowerAtBlockIsHistory, GetPowerAtBlock
    <3> QED
      BY <1>5, <2>1, <3>2
  <2>2. CASE i = Len(ended) + 1
    <3>1. START + i - 1 = now
      BY <1>2, <2>2
    <3>2. ended'[i][u][type] = DelegatedStake(u, type)
      BY <1>5, <2>2
    <3> QED
      BY <1>3, <3>1, <3>2
  <2> QED
    BY <2>0, <2>1, <2>2
<1>7. /\ now' \in Nat /\ START + Len(ended') = now'
  BY <1>1, <1>2, <1>5
<1>8. \A type \in DelegationTypes : SoundPower(delegation'[type], Users, balances', now')
  BY <1>1, <1>3
<1> QED
  BY <1>1, <1>5, <1>6, <1>7, <1>8 DEF PowerInv

LEMMA NextPowerInv == PowerInv /\ [Next]_vars => PowerInv'
<1> SUFFICES ASSUME PowerInv, [Next]_vars PROVE PowerInv'
  OBVIOUS
<1>1. ASSUME NEW sender \in Users, NEW onBehalfOf \in Users, NEW amount \in Amounts,
             Stake(sender, onBehalfOf, amount)
      PROVE  PowerInv'
  BY <1>1, StakePower
<1>2. ASSUME NEW sender \in Users, NEW to \in Token!Accounts, NEW amount \in Amounts,
             Redeem(sender, to, amount)
      PROVE  PowerInv'
  BY <1>2, RedeemPower
<1>3. ASSUME NEW sender \in Users, Cooldown(sender)
      PROVE  PowerInv'
  BY <1>3, IdlePower DEF Cooldown, Token!Cooldown, Token!stakeVars
<1>4. ASSUME NEW sender \in Users, NEW to \in Token!Accounts,
             NEW amount \in Amounts \cup {MAX_UINT}, ClaimRewards(sender, to, amount)
      PROVE  PowerInv'
  BY <1>4, IdlePower DEF ClaimRewards, Token!ClaimRewards, Token!stakeVars
<1>5. ASSUME NEW from \in Users, NEW to \in Users, NEW amount \in Amounts,
             Transfer(from, to, amount)
      PROVE  PowerInv'
  BY <1>5, TransferPower
<1>6. ASSUME NEW emission \in Emissions, ConfigureAssets(emission, totalSupply)
      PROVE  PowerInv'
  BY <1>6, IdlePower DEF ConfigureAssets, Token!ConfigureAssets, Token!stakeVars
<1>7. ASSUME NEW sender \in Users, NEW delegatee \in Users, NEW type \in DelegationTypes,
             DelegateByType(sender, delegatee, type)
      PROVE  PowerInv'
  BY <1>7, DelegateByTypePower
<1>8. ASSUME NEW sender \in Users, NEW delegatee \in Users, Delegate(sender, delegatee)
      PROVE  PowerInv'
  BY <1>8, DelegateBothPower
<1>9. CASE Tick
  BY <1>9, TickPower
<1>10. CASE UNCHANGED vars
  BY <1>10, IdlePower DEF vars, tokenVars
<1> QED
  BY <1>1, <1>2, <1>3, <1>4, <1>5, <1>6, <1>7, <1>8, <1>9, <1>10 DEF Next

LEMMA PowerInvariance == Spec => []PowerInv
BY InitPowerInv, NextPowerInv, PTL DEF Spec

----------------------------------------------------------------------------
(* The theorems. *)

(* Voting and proposition power neither appear nor disappear: what          *)
(* getPowerCurrent answers for an account is the stake of those who         *)
(* delegate to it.                                                          *)
THEOREM PowerIsStake == Spec => []PowerIsDelegatedStake
<1>1. PowerInv => PowerIsDelegatedStake
  <2> SUFFICES ASSUME PowerInv, NEW u \in Users, NEW type \in DelegationTypes
               PROVE  SearchByBlockNumber(delegation[type].snapshots[u], balances[u], now)
                        = DelegatedStake(u, type)
    BY DEF PowerIsDelegatedStake, GetPowerCurrent
  <2> DEFINE data == delegation[type]
  <2>1. now \in Nat /\ SoundPower(data, Users, balances, now)
    BY DEF PowerInv
  <2>2. DelegatedStake(u, type) = Delegated(data.delegates, balances, Users, u)
    BY StakeDelegated
  <2> HIDE DEF data
  <2>3. SearchByBlockNumber(data.snapshots[u], balances[u], now)
          = Delegated(data.delegates, balances, Users, u)
    BY <2>1, NextBlockSound
  <2> QED
    BY <2>2, <2>3 DEF data
<1> QED
  BY <1>1, PowerInvariance, PTL

(* What getPowerAtBlock answers for a finished block is what everyone's     *)
(* power was at its end, whatever is staked, moved and delegated later.     *)
THEOREM PastPowerStands == Spec => []PowerAtBlockIsHistory
<1>1. PowerInv => PowerAtBlockIsHistory
  BY DEF PowerInv
<1> QED
  BY <1>1, PowerInvariance, PTL

(* No stake is locked in by the bookkeeping of power: the subtraction from  *)
(* the delegatee's power never underflows.                                  *)
THEOREM NothingBlocks == Spec => []DelegationNeverBlocks
<1>1. PowerInv => DelegationNeverBlocks
  <2> USE StakedTokenV3Assumption
  <2> SUFFICES ASSUME PowerInv, NEW u \in Users, NEW to \in Users \cup {ZERO_ADDRESS},
                      NEW amount \in Amounts, amount <= balances[u]
               PROVE  BeforeTokenTransferV3(delegation, balances, u, to, amount, now) # {}
    BY DEF DelegationNeverBlocks
  <2>1. \A type \in DelegationTypes :
          PowerBeforeTransfer(delegation[type], balances, u, to, amount, now) # {}
    <3> TAKE type \in DelegationTypes
    <3>1. /\ now \in Nat /\ balances \in [Users -> Nat] /\ amount \in Nat
          /\ SoundPower(delegation[type], Users, balances, now)
      BY DEF PowerInv
    <3> QED
      BY <3>1, PowerNeverBlocks
  <2>2. PICK v \in PowerBeforeTransfer(delegation[VOTING_POWER], balances, u, to, amount, now) :
          TRUE
    BY <2>1 DEF DelegationTypes
  <2>3. PICK p \in PowerBeforeTransfer(delegation[PROPOSITION_POWER], balances, u, to, amount,
                                       now) :
          TRUE
    BY <2>1 DEF DelegationTypes
  <2>4. [delegation EXCEPT ![VOTING_POWER] = v, ![PROPOSITION_POWER] = p]
          \in BeforeTokenTransferV3(delegation, balances, u, to, amount, now)
    BY DEF BeforeTokenTransferV3
  <2> QED
    BY <2>4
<1> QED
  BY <1>1, PowerInvariance, PTL

----------------------------------------------------------------------------
(***************************************************************************)
(* What the token inherits from StakedToken holds of it too: a step is one *)
(* of the inherited token, whose theorems do not depend on what its        *)
(* _beforeTokenTransfer writes, or a delegation, which leaves the token    *)
(* alone.                                                                  *)
(***************************************************************************)
Base == INSTANCE StakedToken_proofs WITH
  hook <- delegation,
  InitialHook <- [type \in DelegationTypes |-> InitDelegationData(Users)],
  BeforeTokenTransfer <- BeforeTokenTransferV3

LEMMA BaseAssumptions ==
  /\ Base!DistributionManagerAssumption
  /\ Base!StakedTokenAssumption
  /\ Base!StartAssumption
BY DistributionManagerAssumption, InheritedAssumption
   DEF Base!DistributionManagerAssumption, Base!StakedTokenAssumption,
       Base!StartAssumption, Base!Accounts, Base!Tokens, Base!IsFiniteSet,
       Token!StakedTokenAssumption, Token!StartAssumption,
       Token!Accounts, Token!Tokens, Token!IsFiniteSet

LEMMA InheritedSteps ==
  ASSUME [Next]_vars
  PROVE  [Base!Next]_(Base!vars) \/ UNCHANGED tokenVars
<1> USE DEF Token!PayToken, Base!PayToken, Token!Accrued, Base!Accrued,
            Token!GetNextCooldownTimestamp, Base!GetNextCooldownTimestamp,
            Token!InUnstakeWindow, Base!InUnstakeWindow,
            Token!UpdateUserAsset, Base!UpdateUserAsset,
            Token!UpdateAssetState, Base!UpdateAssetState,
            Token!ConfigureAsset, Base!ConfigureAsset,
            Token!GetAssetIndex, Base!GetAssetIndex, Token!Earlier, Base!Earlier,
            Token!AccruedRewards, Base!AccruedRewards, Token!GetRewards, Base!GetRewards,
            Token!historyVars, Base!historyVars, Token!stakeVars, Base!stakeVars,
            Token!rewardVars, Base!rewardVars, Token!Accounts, Base!Accounts
<1>1. ASSUME NEW sender \in Users, NEW onBehalfOf \in Users, NEW amount \in Amounts,
             Stake(sender, onBehalfOf, amount)
      PROVE  Base!Next
  <2>1. Base!Stake(sender, onBehalfOf, amount)
    BY <1>1 DEF Stake, Token!Stake, Base!Stake
  <2> QED
    BY <1>1, <2>1 DEF Stake, Base!Next
<1>2. ASSUME NEW sender \in Users, NEW to \in Token!Accounts, NEW amount \in Amounts,
             Redeem(sender, to, amount)
      PROVE  Base!Next
  <2>1. Base!Redeem(sender, to, amount)
    BY <1>2 DEF Redeem, Token!Redeem, Base!Redeem
  <2> QED
    BY <1>2, <2>1 DEF Redeem, Base!Next
<1>3. ASSUME NEW sender \in Users, Cooldown(sender)
      PROVE  Base!Next
  <2>1. Base!Cooldown(sender)
    BY <1>3 DEF Cooldown, Token!Cooldown, Base!Cooldown
  <2> QED
    BY <1>3, <2>1 DEF Cooldown, Base!Next
<1>4. ASSUME NEW sender \in Users, NEW to \in Token!Accounts,
             NEW amount \in Amounts \cup {MAX_UINT}, ClaimRewards(sender, to, amount)
      PROVE  Base!Next
  <2>1. Base!ClaimRewards(sender, to, amount)
    BY <1>4 DEF ClaimRewards, Token!ClaimRewards, Base!ClaimRewards
  <2> QED
    BY <1>4, <2>1 DEF ClaimRewards, Base!Next
<1>5. ASSUME NEW from \in Users, NEW to \in Users, NEW amount \in Amounts,
             Transfer(from, to, amount)
      PROVE  Base!Next
  <2>1. Token!Transfer(from, to, amount)
    BY <1>5 DEF Transfer
  <2>2. \A u : Token!Accrued(u) = Base!Accrued(u)
    OBVIOUS
  <2>3. /\ \A a, u, t, n : Token!UpdateUserAsset(a, u, t, n) = Base!UpdateUserAsset(a, u, t, n)
        /\ \A f, n, u, b : Token!GetNextCooldownTimestamp(f, n, u, b)
                              = Base!GetNextCooldownTimestamp(f, n, u, b)
    OBVIOUS
  <2>4. Base!Transfer(from, to, amount)
    <3> HIDE DEF Token!Accrued, Base!Accrued, Token!UpdateUserAsset, Base!UpdateUserAsset,
                 Token!GetNextCooldownTimestamp, Base!GetNextCooldownTimestamp
    <3>1. [u \in Users |-> IF u \in {from, to} THEN stakerRewardsToClaim[u] + Token!Accrued(u)
                           ELSE stakerRewardsToClaim[u]]
            = [u \in Users |-> IF u \in {from, to}
                               THEN stakerRewardsToClaim[u] + Base!Accrued(u)
                               ELSE stakerRewardsToClaim[u]]
      BY <2>2
    <3> QED
      BY <2>1, <2>3, <3>1 DEF Token!Transfer, Base!Transfer
  <2> QED
    BY <1>5, <2>4 DEF Transfer, Base!Next
<1>6. ASSUME NEW emission \in Emissions, ConfigureAssets(emission, totalSupply)
      PROVE  Base!Next
  <2>1. Base!ConfigureAssets(emission, totalSupply)
    BY <1>6 DEF ConfigureAssets, Token!ConfigureAssets, Base!ConfigureAssets
  <2> QED
    BY <1>6, <2>1 DEF ConfigureAssets, Base!Next
<1>7. CASE Tick
  <2>1. Base!Tick
    BY <1>7 DEF Tick, Token!Tick, Base!Tick
  <2> QED
    BY <1>7, <2>1 DEF Tick, Base!Next
<1>8. CASE UNCHANGED vars
  BY <1>8 DEF vars, tokenVars, Base!vars
<1>9. ASSUME NEW sender \in Users, NEW delegatee \in Users, Delegate(sender, delegatee)
      PROVE  UNCHANGED tokenVars
  BY <1>9 DEF Delegate, tokenVars
<1>10. ASSUME NEW sender \in Users, NEW delegatee \in Users, NEW type \in DelegationTypes,
              DelegateByType(sender, delegatee, type)
       PROVE  UNCHANGED tokenVars
  BY <1>10 DEF DelegateByType, tokenVars
<1> QED
  BY <1>1, <1>2, <1>3, <1>4, <1>5, <1>6, <1>7, <1>8, <1>9, <1>10 DEF Next

LEMMA InheritedInvariance == Spec => [](Base!RewardInv)
<1>1. Init => Base!RewardInv
  <2> SUFFICES ASSUME Init PROVE Base!RewardInv
    OBVIOUS
  <2>1. Base!Init
    BY DEF Init, Token!Init, Base!Init, Token!InitAssetData, Base!InitAssetData
  <2> QED
    BY <2>1, BaseAssumptions, Base!InitRewardInv
<1>2. Base!RewardInv /\ [Next]_vars => Base!RewardInv'
  <2> SUFFICES ASSUME Base!RewardInv, [Next]_vars PROVE Base!RewardInv'
    OBVIOUS
  <2>1. CASE [Base!Next]_(Base!vars)
    BY <2>1, BaseAssumptions, Base!NextRewardInv
  <2>2. CASE UNCHANGED tokenVars
    BY <2>2 DEF tokenVars, Base!RewardInv, Base!SettledTo, Base!PendingEmission,
                Base!IInv, Base!TypeOK, Base!SoundAsset, Base!Backed, Base!CooldownOfStake
  <2> QED
    BY <2>1, <2>2, InheritedSteps
<1> QED
  BY <1>1, <1>2, PTL DEF Spec

(* The supply is what the holders hold and is there to be redeemed, a       *)
(* cooldown belongs to a stake, and the rewards paid and owed never exceed  *)
(* what was emitted, whatever is delegated.                                 *)
THEOREM StakeInherited == Spec => [](Token!Backed /\ Token!CooldownOfStake /\ Token!Solvent)
<1>1. Base!RewardInv => Token!Backed /\ Token!CooldownOfStake /\ Token!Solvent
  <2> SUFFICES ASSUME Base!RewardInv PROVE Token!Backed /\ Token!CooldownOfStake /\ Token!Solvent
    OBVIOUS
  <2>1. Base!Solvent
    BY BaseAssumptions, Base!RewardInvSolvent
  <2>2. Base!IInv
    BY DEF Base!RewardInv
  <2>3. Token!Solvent
    BY <2>1 DEF Base!Solvent, Base!SoundAsset, Base!AssetData,
                Base!DistributedTo, Base!GetAssetIndex, Base!Earlier,
                Base!Sum, Base!Units, Base!UnitsOf, Base!Cardinality,
                Token!Solvent, Token!SoundAsset, Token!AssetData,
                Token!DistributedTo, Token!GetAssetIndex, Token!Earlier,
                Token!Sum, Token!Units, Token!UnitsOf, Token!Cardinality
  <2> QED
    BY <2>2, <2>3 DEF Base!IInv, Base!Backed, Base!CooldownOfStake,
                Base!Sum, Base!Units, Base!UnitsOf, Base!Cardinality,
                Token!Backed, Token!CooldownOfStake,
                Token!Sum, Token!Units, Token!UnitsOf, Token!Cardinality
<1> QED
  BY <1>1, InheritedInvariance, PTL

(* Redemption waits for the cooldown its owner asked for, and nobody can    *)
(* bring a cooldown forward for another.                                    *)
THEOREM CooldownsInherited == Spec => Token!RedeemWaits /\ Token!CooldownOnlyPostponed
<1>1. ASSUME UNCHANGED tokenVars, Base!IInv
      PROVE  \A u \in Users : /\ ~ totalSupply' < totalSupply
                              /\ ~ stakersCooldowns'[u] < stakersCooldowns[u]
  <2>1. totalSupply \in Nat /\ \A u \in Users : stakersCooldowns[u] \in Nat
    BY <1>1 DEF Base!IInv, Base!TypeOK
  <2> QED
    BY <1>1, <2>1 DEF tokenVars
<1>2. Base!RewardInv /\ [Next]_vars =>
        [\A u \in Users :
           totalSupply' < totalSupply /\ balances'[u] < balances[u] =>
             activated[u] # 0 /\ now > activated[u] + COOLDOWN_SECONDS]_(Token!vars)
  BY <1>1, InheritedSteps, BaseAssumptions, Base!StepWaits DEF Base!RewardInv
<1>3. Base!RewardInv /\ [Next]_vars =>
        [\A u \in Users :
           stakersCooldowns'[u] < stakersCooldowns[u] => stakersCooldowns'[u] = 0]_(Token!vars)
  BY <1>1, InheritedSteps, BaseAssumptions, Base!StepPostpones DEF Base!RewardInv
<1> QED
  BY <1>2, <1>3, InheritedInvariance, PTL
     DEF Spec, Token!RedeemWaits, Token!CooldownOnlyPostponed

----------------------------------------------------------------------------
(***************************************************************************)
(* Allowances and signed messages, for any number of amounts, messages and *)
(* resubmissions of them.                                                  *)
(***************************************************************************)

(* The nonce of an owner is the number of his messages accepted so far, so  *)
(* the next one cannot be among them: a permit is granted once.             *)
MandateInv ==
  /\ allowances \in [Users -> [Users -> Nat]]
  /\ granted \in [Users -> [Users -> Nat]]
  /\ spent \in [Users -> [Users -> Nat]]
  /\ nonces \in [Users -> Nat]
  /\ accepted \in [Users -> Seq(Nat)]
  /\ \A owner \in Users : Len(accepted[owner]) = nonces[owner]
  /\ MessagesInOrder
  /\ SpentWithinGrants

(* A message that is accepted is the next of its owner: none of those       *)
(* before had its nonce.                                                    *)
LEMMA ConsumeInOrder ==
  ASSUME MandateInv, NEW owner \in Users, NEW nonce, NEW deadline,
         Consume(owner, nonce, deadline)
  PROVE  /\ nonces' \in [Users -> Nat]
         /\ accepted' \in [Users -> Seq(Nat)]
         /\ \A o \in Users : Len(accepted'[o]) = nonces'[o]
         /\ MessagesInOrder'
         /\ \A i \in DOMAIN accepted[owner] : accepted[owner][i] # nonce
<1> DEFINE before == accepted[owner]
           after  == Append(before, nonce)
<1>1. /\ before \in Seq(Nat) /\ nonce \in Nat /\ Len(before) = nonce
      /\ \A i \in 1..Len(before) : before[i] = i - 1
  BY DEF MandateInv, MessagesInOrder, Consume
<1>2. /\ after \in Seq(Nat) /\ Len(after) = nonce + 1
      /\ \A i \in DOMAIN after : after[i] = i - 1
  <2>1. /\ after \in Seq(Nat) /\ Len(after) = Len(before) + 1
        /\ \A i \in 1..Len(after) :
             after[i] = IF i \in 1..Len(before) THEN before[i] ELSE nonce
    BY <1>1
  <2> HIDE DEF before, after
  <2> QED
    BY <1>1, <2>1
<1>3. \A i \in DOMAIN before : before[i] # nonce
  <2> HIDE DEF before
  <2> QED
    BY <1>1
<1> HIDE DEF before, after
<1>4. /\ nonces' = [nonces EXCEPT ![owner] = nonce + 1]
      /\ accepted' = [accepted EXCEPT ![owner] = after]
  BY DEF Consume, before, after
<1>5. /\ nonces \in [Users -> Nat] /\ accepted \in [Users -> Seq(Nat)]
      /\ \A o \in Users : Len(accepted[o]) = nonces[o]
      /\ \A o \in Users : \A i \in DOMAIN accepted[o] : accepted[o][i] = i - 1
  BY DEF MandateInv, MessagesInOrder
<1>6. \A o \in Users : Len(accepted'[o]) = nonces'[o]
  BY <1>1, <1>2, <1>4, <1>5
<1>7. MessagesInOrder'
  BY <1>2, <1>4, <1>5 DEF MessagesInOrder
<1> QED
  BY <1>1, <1>2, <1>3, <1>4, <1>5, <1>6, <1>7 DEF before

(* Setting, granting or spending of one owner's allowance for one spender,  *)
(* such that no more is left than is granted.                               *)
LEMMA GrantsKept ==
  ASSUME MandateInv, NEW owner \in Users, NEW spender \in Users,
         NEW left \in Nat, NEW more \in Nat, NEW used \in Nat,
         allowances' = [allowances EXCEPT ![owner][spender] = left],
         granted' = [granted EXCEPT ![owner][spender] = @ + more],
         spent' = [spent EXCEPT ![owner][spender] = @ + used],
         \/ left <= more /\ used = 0
         \/ left + used <= allowances[owner][spender] + more
  PROVE  /\ allowances' \in [Users -> [Users -> Nat]]
         /\ granted' \in [Users -> [Users -> Nat]]
         /\ spent' \in [Users -> [Users -> Nat]]
         /\ SpentWithinGrants'
<1>1. /\ allowances \in [Users -> [Users -> Nat]]
      /\ granted \in [Users -> [Users -> Nat]]
      /\ spent \in [Users -> [Users -> Nat]]
  BY DEF MandateInv
<1>2. /\ allowances' \in [Users -> [Users -> Nat]]
      /\ granted' \in [Users -> [Users -> Nat]]
      /\ spent' \in [Users -> [Users -> Nat]]
  BY <1>1
<1>3. ASSUME NEW o \in Users, NEW s \in Users
      PROVE  spent'[o][s] + allowances'[o][s] <= granted'[o][s]
  <2>1. spent[o][s] + allowances[o][s] <= granted[o][s]
    BY DEF MandateInv, SpentWithinGrants
  <2>2. spent[o][s] \in Nat /\ allowances[o][s] \in Nat /\ granted[o][s] \in Nat
    BY <1>1
  <2>3. CASE o = owner /\ s = spender
    <3>1. /\ spent'[o][s] = spent[o][s] + used
          /\ allowances'[o][s] = left
          /\ granted'[o][s] = granted[o][s] + more
      BY <1>1, <2>3
    <3> QED
      BY <2>1, <2>2, <2>3, <3>1
  <2>4. CASE ~(o = owner /\ s = spender)
    <3>1. /\ spent'[o][s] = spent[o][s]
          /\ allowances'[o][s] = allowances[o][s]
          /\ granted'[o][s] = granted[o][s]
      BY <1>1, <2>4
    <3> QED
      BY <2>1, <3>1
  <2> QED
    BY <2>3, <2>4
<1> QED
  BY <1>2, <1>3 DEF SpentWithinGrants

(* At the deployment nothing is granted and no message accepted. *)
LEMMA InitMandateInv == SignedInit => MandateInv
<1> SUFFICES ASSUME SignedInit PROVE MandateInv
  OBVIOUS
<1>1. /\ allowances = [o \in Users |-> [s \in Users |-> 0]]
      /\ nonces = [o \in Users |-> 0]
      /\ accepted = [o \in Users |-> <<>>]
      /\ granted = [o \in Users |-> [s \in Users |-> 0]]
      /\ spent = [o \in Users |-> [s \in Users |-> 0]]
  BY DEF SignedInit
<1>2. accepted \in [Users -> Seq(Nat)] /\ \A o \in Users : Len(accepted[o]) = 0
  BY <1>1
<1>3. MessagesInOrder /\ SpentWithinGrants
  BY <1>1, <1>2 DEF MessagesInOrder, SpentWithinGrants
<1> QED
  BY <1>1, <1>2, <1>3 DEF MandateInv

(* What does not touch the messages keeps what is said of them. *)
LEMMA MessagesStay ==
  ASSUME MandateInv, UNCHANGED <<nonces, accepted>>
  PROVE  /\ nonces' \in [Users -> Nat]
         /\ accepted' \in [Users -> Seq(Nat)]
         /\ \A o \in Users : Len(accepted'[o]) = nonces'[o]
         /\ MessagesInOrder'
BY DEF MandateInv, MessagesInOrder

(* What grants and spends nothing keeps what is said of it. *)
LEMMA GrantsStay ==
  ASSUME MandateInv, UNCHANGED <<allowances, granted, spent>>
  PROVE  /\ allowances' \in [Users -> [Users -> Nat]]
         /\ granted' \in [Users -> [Users -> Nat]]
         /\ spent' \in [Users -> [Users -> Nat]]
         /\ SpentWithinGrants'
BY DEF MandateInv, SpentWithinGrants

----------------------------------------------------------------------------
(* The steps. *)

LEMMA ApproveMandate ==
  ASSUME MandateInv, NEW owner \in Users, NEW spender \in Users,
         NEW amount \in Amounts \cup {0}, Approve(owner, spender, amount)
  PROVE  MandateInv'
<1>1. amount \in Nat
  BY StakedTokenV3Assumption
<1>2. /\ allowances' = [allowances EXCEPT ![owner][spender] = amount]
      /\ granted' = [granted EXCEPT ![owner][spender] = @ + amount]
      /\ spent' = spent /\ UNCHANGED <<nonces, accepted>>
  BY DEF Approve
<1>3. spent' = [spent EXCEPT ![owner][spender] = @ + 0]
  BY <1>2 DEF MandateInv
<1>4. amount <= amount
  BY <1>1
<1>5. 0 \in Nat
  OBVIOUS
<1>6. /\ allowances' \in [Users -> [Users -> Nat]]
      /\ granted' \in [Users -> [Users -> Nat]]
      /\ spent' \in [Users -> [Users -> Nat]]
      /\ SpentWithinGrants'
  BY <1>1, <1>2, <1>3, <1>4, <1>5, GrantsKept
<1> QED
  BY <1>2, <1>6, MessagesStay DEF MandateInv

LEMMA IncreaseMandate ==
  ASSUME MandateInv, NEW owner \in Users, NEW spender \in Users, NEW amount \in Amounts,
         IncreaseAllowance(owner, spender, amount)
  PROVE  MandateInv'
<1> DEFINE left == allowances[owner][spender] + amount
<1>1. amount \in Nat /\ allowances[owner][spender] \in Nat
  BY StakedTokenV3Assumption DEF MandateInv
<1>2. left \in Nat /\ left + 0 <= allowances[owner][spender] + amount
  BY <1>1
<1> HIDE DEF left
<1>3. /\ allowances' = [allowances EXCEPT ![owner][spender] = left]
      /\ granted' = [granted EXCEPT ![owner][spender] = @ + amount]
      /\ spent' = spent /\ UNCHANGED <<nonces, accepted>>
  BY DEF IncreaseAllowance, left
<1>4. spent' = [spent EXCEPT ![owner][spender] = @ + 0]
  BY <1>3 DEF MandateInv
<1>5. 0 \in Nat
  OBVIOUS
<1>6. /\ allowances' \in [Users -> [Users -> Nat]]
      /\ granted' \in [Users -> [Users -> Nat]]
      /\ spent' \in [Users -> [Users -> Nat]]
      /\ SpentWithinGrants'
  BY <1>1, <1>2, <1>3, <1>4, <1>5, GrantsKept
<1> QED
  BY <1>3, <1>6, MessagesStay DEF MandateInv

(* What is given back is granted no longer to be spent, and stays granted   *)
(* in the history: the bound only gets wider.                               *)
LEMMA DecreaseMandate ==
  ASSUME MandateInv, NEW owner \in Users, NEW spender \in Users, NEW amount \in Amounts,
         DecreaseAllowance(owner, spender, amount)
  PROVE  MandateInv'
<1> DEFINE left == allowances[owner][spender] - amount
<1>1. /\ amount \in Nat /\ allowances[owner][spender] \in Nat
      /\ allowances[owner][spender] >= amount
  BY StakedTokenV3Assumption DEF MandateInv, DecreaseAllowance
<1>2. left \in Nat /\ left + 0 <= allowances[owner][spender] + 0
  BY <1>1
<1> HIDE DEF left
<1>3. /\ allowances' = [allowances EXCEPT ![owner][spender] = left]
      /\ UNCHANGED <<granted, spent>> /\ UNCHANGED <<nonces, accepted>>
  BY DEF DecreaseAllowance, left
<1>4. /\ granted' = [granted EXCEPT ![owner][spender] = @ + 0]
      /\ spent' = [spent EXCEPT ![owner][spender] = @ + 0]
  BY <1>3 DEF MandateInv
<1>5. 0 \in Nat
  OBVIOUS
<1>6. /\ allowances' \in [Users -> [Users -> Nat]]
      /\ granted' \in [Users -> [Users -> Nat]]
      /\ spent' \in [Users -> [Users -> Nat]]
      /\ SpentWithinGrants'
  BY <1>2, <1>3, <1>4, <1>5, GrantsKept
<1> QED
  BY <1>3, <1>6, MessagesStay DEF MandateInv

(* What a spender moves was left of the allowance, and no longer is. *)
LEMMA TransferFromMandate ==
  ASSUME MandateInv, NEW spender \in Users, NEW from \in Users, NEW to \in Users,
         NEW amount \in Amounts, TransferFrom(spender, from, to, amount)
  PROVE  MandateInv'
<1> DEFINE left == allowances[from][spender] - amount
<1>1. /\ amount \in Nat /\ allowances[from][spender] \in Nat
      /\ allowances[from][spender] >= amount
  BY StakedTokenV3Assumption DEF MandateInv, TransferFrom
<1>2. left \in Nat /\ left + amount <= allowances[from][spender] + 0
  BY <1>1
<1> HIDE DEF left
<1>3. /\ allowances' = [allowances EXCEPT ![from][spender] = left]
      /\ spent' = [spent EXCEPT ![from][spender] = @ + amount]
      /\ granted' = granted /\ UNCHANGED <<nonces, accepted>>
  BY DEF TransferFrom, left
<1>4. granted' = [granted EXCEPT ![from][spender] = @ + 0]
  BY <1>3 DEF MandateInv
<1>5. 0 \in Nat
  OBVIOUS
<1>6. /\ allowances' \in [Users -> [Users -> Nat]]
      /\ granted' \in [Users -> [Users -> Nat]]
      /\ spent' \in [Users -> [Users -> Nat]]
      /\ SpentWithinGrants'
  BY <1>1, <1>2, <1>3, <1>4, <1>5, GrantsKept
<1> QED
  BY <1>3, <1>6, MessagesStay DEF MandateInv

(* A permit replaces what was left by what it grants; its nonce is new.     *)
LEMMA PermitMandate ==
  ASSUME MandateInv, NEW owner \in Users, NEW spender \in Users, NEW amount \in Amounts,
         NEW nonce, NEW deadline, Permit(owner, spender, amount, nonce, deadline)
  PROVE  MandateInv'
<1>1. amount \in Nat /\ Consume(owner, nonce, deadline)
  BY StakedTokenV3Assumption DEF Permit
<1>2. /\ nonces' \in [Users -> Nat]
      /\ accepted' \in [Users -> Seq(Nat)]
      /\ \A o \in Users : Len(accepted'[o]) = nonces'[o]
      /\ MessagesInOrder'
      /\ \A i \in DOMAIN accepted[owner] : accepted[owner][i] # nonce
  BY <1>1, ConsumeInOrder
<1>3. /\ allowances' = [allowances EXCEPT ![owner][spender] = amount]
      /\ granted' = [granted EXCEPT ![owner][spender] = @ + amount]
      /\ spent' = spent
  BY <1>2 DEF Permit
<1>4. spent' = [spent EXCEPT ![owner][spender] = @ + 0]
  BY <1>3 DEF MandateInv
<1>5. 0 \in Nat /\ amount <= amount
  BY <1>1
<1>6. /\ allowances' \in [Users -> [Users -> Nat]]
      /\ granted' \in [Users -> [Users -> Nat]]
      /\ spent' \in [Users -> [Users -> Nat]]
      /\ SpentWithinGrants'
  BY <1>1, <1>3, <1>4, <1>5, GrantsKept
<1> QED
  BY <1>2, <1>6 DEF MandateInv

(* The two messages that delegate use up a nonce and no allowance. *)
LEMMA DelegationMandate ==
  ASSUME MandateInv, NEW owner \in Users, NEW nonce, NEW deadline,
         Consume(owner, nonce, deadline), UNCHANGED <<allowances, granted, spent>>
  PROVE  MandateInv'
BY ConsumeInOrder, GrantsStay DEF MandateInv

LEMMA NextMandateInv == MandateInv /\ [SignedNext]_signedVars => MandateInv'
<1> SUFFICES ASSUME MandateInv, [SignedNext]_signedVars PROVE MandateInv'
  OBVIOUS
<1>1. CASE UNCHANGED mandateVars
  BY <1>1, MessagesStay, GrantsStay DEF mandateVars, MandateInv
<1>2. CASE \E owner, spender \in Users, amount \in Amounts \cup {0} :
             Approve(owner, spender, amount)
  BY <1>2, ApproveMandate
<1>3. CASE \E owner, spender \in Users, amount \in Amounts :
             IncreaseAllowance(owner, spender, amount)
  BY <1>3, IncreaseMandate
<1>4. CASE \E owner, spender \in Users, amount \in Amounts :
             DecreaseAllowance(owner, spender, amount)
  BY <1>4, DecreaseMandate
<1>5. CASE \E spender, from, to \in Users, amount \in Amounts :
             TransferFrom(spender, from, to, amount)
  BY <1>5, TransferFromMandate
<1>6. CASE \E owner, other \in Users, nonce \in Nonces, deadline \in Deadlines :
             \E value \in Amounts : Permit(owner, other, value, nonce, deadline)
  BY <1>6, PermitMandate
<1>7. CASE \E owner, other \in Users, nonce \in Nonces, deadline \in Deadlines :
             \E type \in DelegationTypes :
               DelegateByTypeBySig(owner, other, type, nonce, deadline)
  BY <1>7, DelegationMandate DEF DelegateByTypeBySig
<1>8. CASE \E owner, other \in Users, nonce \in Nonces, deadline \in Deadlines :
             DelegateBySig(owner, other, nonce, deadline)
  BY <1>8, DelegationMandate DEF DelegateBySig
<1> QED
  BY <1>1, <1>2, <1>3, <1>4, <1>5, <1>6, <1>7, <1>8 DEF SignedNext, signedVars

LEMMA MandateInvariance == SignedSpec => []MandateInv
<1>1. SignedInit => MandateInv
  BY InitMandateInv
<1>2. MandateInv /\ [SignedNext]_signedVars => MandateInv'
  BY NextMandateInv
<1> QED
  BY <1>1, <1>2, PTL DEF SignedSpec

(* SpentWithinGrants: whatever is submitted again, late or out of order, a  *)
(* spender never moves more of an owner's stake than was agreed to.         *)
THEOREM GrantsAreLimits == SignedSpec => []SpentWithinGrants
<1>1. MandateInv => SpentWithinGrants
  BY DEF MandateInv
<1> QED
  BY <1>1, MandateInvariance, PTL

(* MessagesInOrder: an owner's messages, of all kinds together, have effect *)
(* in the order of their nonces, each at most once, and none is skipped.    *)
THEOREM OrderOfMessages == SignedSpec => []MessagesInOrder
<1>1. MandateInv => MessagesInOrder
  BY DEF MandateInv
<1> QED
  BY <1>1, MandateInvariance, PTL

----------------------------------------------------------------------------
(* Acting for another is nothing new to the token. *)

(* Acting for another is nothing new to the token.  A transfer by a spender *)
(* is one of the holder, a signed delegation is one of the signatory, and   *)
(* the allowances are none of the token's business: with allowances and     *)
(* messages it implements the token without them.                           *)
THEOREM ActingIsHolding == SignedSpec => Spec
<1>1. SignedInit => Init
  BY DEF SignedInit
<1>2. [SignedNext]_signedVars => [Next]_vars
  <2> SUFFICES ASSUME [SignedNext]_signedVars PROVE Next \/ UNCHANGED vars
    OBVIOUS
  <2>1. ASSUME NEW spender \in Users, NEW from \in Users, NEW to \in Users,
               NEW amount \in Amounts, TransferFrom(spender, from, to, amount)
        PROVE  Next
    BY <2>1 DEF TransferFrom, Next
  <2>2. ASSUME NEW owner \in Users, NEW other \in Users, NEW nonce \in Nonces,
               NEW deadline \in Deadlines, NEW type \in DelegationTypes,
               DelegateByTypeBySig(owner, other, type, nonce, deadline)
        PROVE  Next
    BY <2>2 DEF DelegateByTypeBySig, Next
  <2>3. ASSUME NEW owner \in Users, NEW other \in Users, NEW nonce \in Nonces,
               NEW deadline \in Deadlines, DelegateBySig(owner, other, nonce, deadline)
        PROVE  Next
    BY <2>3 DEF DelegateBySig, Next
  <2> QED
    BY <2>1, <2>2, <2>3
    DEF SignedNext, signedVars, Approve, IncreaseAllowance, DecreaseAllowance, Permit
<1> QED
  BY <1>1, <1>2, PTL DEF SignedSpec, Spec

(* So what is proved of the power and the stake of the holders stays true   *)
(* where stake is also moved by spenders and delegated by messages that     *)
(* others submit.                                                           *)
THEOREM MandatesKeepPower ==
  SignedSpec => [](PowerIsDelegatedStake /\ PowerAtBlockIsHistory /\ DelegationNeverBlocks)
BY ActingIsHolding, PowerIsStake, PastPowerStands, NothingBlocks, PTL

THEOREM MandatesKeepStake ==
  SignedSpec => [](Token!Backed /\ Token!CooldownOfStake /\ Token!Solvent)
BY ActingIsHolding, StakeInherited, PTL
=============================================================================
