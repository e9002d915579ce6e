--------------------- MODULE UpgradedStakedToken_proofs ---------------------
(***************************************************************************)
(* What an upgrade of the staked token in production keeps, for any number *)
(* of users, stakes, blocks and later revisions: the power of the stake,   *)
(* the votes of the blocks that are over, and the rewards.                 *)
(*                                                                         *)
(* The first implementation keeps a history of balances and knows no       *)
(* delegation; the storage it leaves is nevertheless a sound record of     *)
(* power as the later ones understand it, at every moment, which is why    *)
(* the upgrade may come at any (UpgradeInv).                               *)
(***************************************************************************)
EXTENDS UpgradedStakedToken, StakeLemmas

(* Nobody has delegated, and nobody has a history of proposition power. *)
Undelegated ==
  \A u \in Users :
    /\ delegation[PROPOSITION_POWER].snapshots[u] = <<>>
    /\ \A type \in DelegationTypes : delegation[type].delegates[u] = ZERO_ADDRESS

(* The record of both types of power is sound, under every implementation.  *)
(* An account without a history of votes has no stake; of propositions that *)
(* is not so, since the first implementation writes none, and it is why     *)
(* PropositionsAtBlockAreHistory does not hold.                             *)
UpgradeInv ==
  /\ balances \in [Users -> Nat]
  /\ now \in Nat
  /\ delegation = [type \in DelegationTypes |-> delegation[type]]
  /\ \A type \in DelegationTypes : SoundPower(delegation[type], Users, balances, now)
  /\ \A u \in Users : delegation[VOTING_POWER].snapshots[u] = <<>> => balances[u] = 0
  /\ lastInitializedRevision \in Nat \ {0}
  /\ lastInitializedRevision = 1 => Undelegated
  /\ ended \in Seq([Users -> [DelegationTypes -> Nat]])
  /\ START + Len(ended) = now
  /\ VotesAtBlockAreHistory

(* No step loses what a history says of the blocks that are over, and time  *)
(* goes on in steps that move neither stake nor power.                      *)
HistoriesKept ==
  /\ \A type \in DelegationTypes : PowerKept(delegation'[type], delegation[type], Users, now)
  /\ now' = now \/ (balances' = balances /\ delegation' = delegation)

(* What is needed of the constants. *)
LEMMA Constants ==
  /\ IsFiniteSet(Users) /\ ZERO_ADDRESS \notin Users
  /\ START \in Nat /\ Amounts \subseteq Nat
BY UpgradedStakedTokenAssumption DEF V1!StakedTokenAssumption, V1!StartAssumption,
    V1!IsFiniteSet, IsFiniteSet

(* The operators of the later implementations are those of the lemmas. *)
LEMMA SameTransfer ==
  \A data, b, from, to, amount, block :
    V2!PowerBeforeTransfer(data, b, from, to, amount, block)
      = PowerBeforeTransfer(data, b, from, to, amount, block)
BY DEF V2!PowerBeforeTransfer, V2!MoveDelegates, V2!GetDelegatee, V2!LatestPower,
       V2!WriteSnapshot,
       PowerBeforeTransfer, MoveDelegates, GetDelegatee, LatestPower, WriteSnapshot

LEMMA SameDelegation ==
  \A data, b, delegator, delegatee, block :
    V2!DelegatePower(data, b, delegator, delegatee, block)
      = DelegatePower(data, b, delegator, delegatee, block)
BY DEF V2!DelegatePower, V2!MoveDelegates, V2!GetDelegatee, V2!LatestPower,
       V2!WriteSnapshot,
       DelegatePower, MoveDelegates, GetDelegatee, LatestPower, WriteSnapshot

LEMMA SameSearch ==
  \A history, balance, block :
    V2!SearchByBlockNumber(history, balance, block) = SearchByBlockNumber(history, balance, block)
BY DEF V2!SearchByBlockNumber, SearchByBlockNumber

LEMMA SameTypes ==
  /\ V2!DelegationTypes = DelegationTypes
  /\ V2!VOTING_POWER = VOTING_POWER /\ V2!PROPOSITION_POWER = PROPOSITION_POWER
BY DEF V2!DelegationTypes, V2!VOTING_POWER, V2!PROPOSITION_POWER,
       DelegationTypes, VOTING_POWER, PROPOSITION_POWER

LEMMA SameStake ==
  \A u, type : V2!DelegatedStake(u, type)
                 = Delegated(delegation[type].delegates, balances, Users, u)
BY DEF V2!DelegatedStake, V2!Sum, V2!Units, V2!UnitsOf, V2!Cardinality, V2!GetDelegatee,
       Delegated, Sum, Units, UnitsOf, Cardinality, GetDelegatee

(* The deployment: no stake, no history, no delegation. *)
LEMMA InitUpgradeInv == Init => UpgradeInv
<1> SUFFICES ASSUME Init PROVE UpgradeInv
  OBVIOUS
<1> DEFINE none == InitDelegationData(Users)
<1>1. /\ balances = [u \in Users |-> 0] /\ now = START
      /\ delegation = [type \in DelegationTypes |-> none]
      /\ ended = <<>> /\ lastInitializedRevision = 1
  BY SameTypes DEF Init, V2!Init, V2!Token!Init, V2!InitDelegationData, V2!InitSnapshots,
                   InitDelegationData, InitSnapshots
<1>2. /\ \A u \in Users : none.snapshots[u] = <<>> /\ none.delegates[u] = ZERO_ADDRESS
      /\ none \in DelegationData(Users)
  <2>1. [u \in Users |-> <<>>] \in [Users -> Seq(Snapshot)]
    OBVIOUS
  <2>2. [u \in Users |-> ZERO_ADDRESS] \in [Users -> Users \cup {ZERO_ADDRESS}]
    OBVIOUS
  <2> QED
    BY <2>1, <2>2, WithDelegates DEF InitDelegationData, InitSnapshots
<1> HIDE DEF none
<1>3. balances \in [Users -> Nat] /\ now \in Nat /\ SoundPower(none, Users, balances, now)
  BY <1>1, <1>2, Constants, UnusedPower
<1>4. ended \in Seq([Users -> [DelegationTypes -> Nat]]) /\ Len(ended) = 0
  BY <1>1
<1>5. VotesAtBlockAreHistory
  BY <1>4 DEF VotesAtBlockAreHistory
<1>6. Undelegated
  BY <1>1, <1>2 DEF Undelegated, DelegationTypes
<1>7. /\ \A type \in DelegationTypes : SoundPower(delegation[type], Users, balances, now)
      /\ delegation = [type \in DelegationTypes |-> delegation[type]]
  BY <1>1, <1>3
<1>8. START + Len(ended) = now
  BY <1>1, <1>4, Constants
<1> QED
  BY <1>1, <1>3, <1>4, <1>5, <1>6, <1>7, <1>8 DEF UpgradeInv

----------------------------------------------------------------------------
(* The steps. *)

(* Within a block, a step of the record of both types keeps the invariant:  *)
(* the votes answered for the blocks that are over stay.                    *)
LEMMA StepUpgradeInv ==
  ASSUME UpgradeInv, balances' \in [Users -> Nat], now' = now, ended' = ended,
         delegation' = [type \in DelegationTypes |-> delegation'[type]],
         PowerMoved(delegation'[VOTING_POWER], delegation[VOTING_POWER],
                    Users, balances', balances, now),
         SoundPower(delegation'[PROPOSITION_POWER], Users, balances', now),
         PowerKept(delegation'[PROPOSITION_POWER], delegation[PROPOSITION_POWER], Users, now),
         lastInitializedRevision' \in Nat \ {0},
         lastInitializedRevision' = 1 => Undelegated'
  PROVE  UpgradeInv' /\ HistoriesKept
<1> DEFINE data  == delegation[VOTING_POWER]
           after == delegation'[VOTING_POWER]
<1>1. /\ now \in Nat /\ START \in Nat /\ balances \in [Users -> Nat]
      /\ balances' \in [Users -> Nat]
      /\ SoundPower(data, Users, balances, now)
      /\ SoundPower(after, Users, balances', now)
      /\ PowerKept(after, data, Users, now)
      /\ \A u \in Users : data.snapshots[u] = <<>> => balances[u] = 0
      /\ \A u \in Users : after.snapshots[u] = <<>> => balances'[u] = balances[u]
  BY Constants DEF UpgradeInv, PowerMoved, DelegationTypes
<1>2. \A u \in Users : after.snapshots[u] = <<>> => balances'[u] = 0
  BY <1>1 DEF PowerKept
<1>3. VotesAtBlockAreHistory'
  <2> SUFFICES ASSUME NEW i \in DOMAIN ended, NEW u \in Users
               PROVE  SearchByBlockNumber(after.snapshots[u], balances'[u], START + i - 1)
                        = ended[i][u][VOTING_POWER]
    BY SameSearch DEF VotesAtBlockAreHistory, V2!GetPowerAtBlock
  <2> DEFINE bn == START + i - 1
  <2>1. SearchByBlockNumber(data.snapshots[u], balances[u], bn) = ended[i][u][VOTING_POWER]
    BY SameSearch DEF UpgradeInv, VotesAtBlockAreHistory, V2!GetPowerAtBlock
  <2>2. bn \in Nat /\ bn < now
    <3>1. i \in 1..Len(ended) /\ Len(ended) \in Nat /\ START + Len(ended) = now
      BY DEF UpgradeInv
    <3> QED
      BY <1>1, <3>1
  <2> HIDE DEF bn, data, after
  <2>3. SearchByBlockNumber(after.snapshots[u], balances'[u], bn)
          = SearchByBlockNumber(data.snapshots[u], balances[u], bn)
    BY <1>1, <2>2, AnswersKept
  <2> QED
    BY <2>1, <2>3 DEF bn
<1>4. \A type \in DelegationTypes : SoundPower(delegation'[type], Users, balances', now')
  BY <1>1 DEF DelegationTypes
<1>5. HistoriesKept
  BY <1>1 DEF HistoriesKept, DelegationTypes
<1> QED
  BY <1>1, <1>2, <1>3, <1>4, <1>5 DEF UpgradeInv

(* A movement of stake under the first implementation: the history of votes *)
(* goes on as that of balances, proposition power has none, and nobody      *)
(* delegates.                                                               *)
LEMMA FirstMove ==
  ASSUME UpgradeInv, lastInitializedRevision = 1,
         lastInitializedRevision' = lastInitializedRevision,
         NEW from \in Users \cup {ZERO_ADDRESS}, NEW to \in Users \cup {ZERO_ADDRESS},
         NEW amount \in Nat, from # ZERO_ADDRESS => amount <= balances[from],
         StakeMoves(balances, balances', Users, from, to, amount),
         delegation' \in BeforeTokenTransferV1(delegation, balances, from, to, amount, now),
         now' = now, ended' = ended
  PROVE  UpgradeInv' /\ HistoriesKept
<1> DEFINE data  == delegation[VOTING_POWER]
           after == [data EXCEPT !.snapshots = SnapshotsBeforeTransfer(data.snapshots,
                                                 balances, from, to, amount, now)]
           props == delegation[PROPOSITION_POWER]
<1>1. delegation' = [delegation EXCEPT ![VOTING_POWER].snapshots =
                       SnapshotsBeforeTransfer(@, balances, from, to, amount, now)]
  BY DEF BeforeTokenTransferV1
<1>2. delegation = [type \in DelegationTypes |-> delegation[type]]
  BY DEF UpgradeInv
<1>3. /\ delegation' = [type \in DelegationTypes |-> delegation'[type]]
      /\ delegation'[VOTING_POWER] = after
      /\ delegation'[PROPOSITION_POWER] = props
  BY <1>1, <1>2 DEF DelegationTypes, VOTING_POWER, PROPOSITION_POWER
<1>4. /\ Undelegated /\ now \in Nat
      /\ balances \in [Users -> Nat] /\ balances' \in [Users -> Nat]
      /\ SoundPower(data, Users, balances, now) /\ SoundPower(props, Users, balances, now)
  BY DEF UpgradeInv, StakeMoves, DelegationTypes
<1>5. /\ \A u \in Users : data.delegates[u] = ZERO_ADDRESS
      /\ \A u \in Users : props.snapshots[u] = <<>>
      /\ \A u \in Users : props.delegates[u] = ZERO_ADDRESS
  BY <1>4 DEF Undelegated, DelegationTypes
<1> HIDE DEF data, props
<1>6. after \in PowerBeforeTransfer(data, balances, from, to, amount, now)
  BY <1>4, <1>5, Constants, FirstHookMoves
<1> HIDE DEF after
<1>7. /\ PowerMoved(after, data, Users, balances', balances, now)
      /\ after.delegates = data.delegates
  BY <1>4, <1>6, Constants, StakeMovePower
<1>8. SoundPower(props, Users, balances', now)
  <2>1. props \in DelegationData(Users)
    BY <1>4 DEF SoundPower
  <2> QED
    BY <1>4, <1>5, <2>1, Constants, UnusedPower
<1>9. PowerKept(props, props, Users, now)
  <2>1. PowerMoved(props, props, Users, balances, balances, now)
    BY <1>4, PowerStays
  <2> QED
    BY <2>1 DEF PowerMoved
<1>10. Undelegated'
  BY <1>3, <1>5, <1>7 DEF Undelegated, DelegationTypes
<1>11. lastInitializedRevision' \in Nat \ {0}
  OBVIOUS
<1>12. PowerMoved(delegation'[VOTING_POWER], delegation[VOTING_POWER],
                  Users, balances', balances, now)
  BY <1>3, <1>7 DEF data
<1>13. /\ SoundPower(delegation'[PROPOSITION_POWER], Users, balances', now)
       /\ PowerKept(delegation'[PROPOSITION_POWER], delegation[PROPOSITION_POWER], Users, now)
  BY <1>3, <1>8, <1>9 DEF props
<1> QED
  BY <1>3, <1>4, <1>10, <1>11, <1>12, <1>13, StepUpgradeInv

(* A step of both types of power under a later implementation. *)
LEMMA LaterStep ==
  ASSUME UpgradeInv, lastInitializedRevision > 1,
         lastInitializedRevision' = lastInitializedRevision,
         balances' \in [Users -> Nat], now' = now, ended' = ended,
         delegation' = [type \in DelegationTypes |-> delegation'[type]],
         \A type \in DelegationTypes :
           PowerMoved(delegation'[type], delegation[type], Users, balances', balances, now)
  PROVE  UpgradeInv' /\ HistoriesKept
<1>1. lastInitializedRevision' \in Nat \ {0} /\ lastInitializedRevision' # 1
  BY DEF UpgradeInv
<1>2. /\ PowerMoved(delegation'[VOTING_POWER], delegation[VOTING_POWER],
                    Users, balances', balances, now)
      /\ SoundPower(delegation'[PROPOSITION_POWER], Users, balances', now)
      /\ PowerKept(delegation'[PROPOSITION_POWER], delegation[PROPOSITION_POWER], Users, now)
  BY DEF PowerMoved, DelegationTypes
<1> QED
  BY <1>1, <1>2, StepUpgradeInv

(* A movement of stake under a later implementation. *)
LEMMA LaterMove ==
  ASSUME UpgradeInv, lastInitializedRevision > 1,
         lastInitializedRevision' = lastInitializedRevision,
         NEW from \in Users \cup {ZERO_ADDRESS}, NEW to \in Users \cup {ZERO_ADDRESS},
         NEW amount, StakeMoves(balances, balances', Users, from, to, amount),
         delegation' \in V2!BeforeTokenTransferV3(delegation, balances, from, to, amount, now),
         now' = now, ended' = ended
  PROVE  UpgradeInv' /\ HistoriesKept
<1>1. PICK v \in PowerBeforeTransfer(delegation[VOTING_POWER], balances, from, to, amount, now),
           p \in PowerBeforeTransfer(delegation[PROPOSITION_POWER], balances, from, to,
                                     amount, now) :
        delegation' = [delegation EXCEPT ![VOTING_POWER] = v, ![PROPOSITION_POWER] = p]
  BY SameTypes, SameTransfer DEF V2!BeforeTokenTransferV3
<1>2. /\ delegation' = [type \in DelegationTypes |-> delegation'[type]]
      /\ delegation'[VOTING_POWER] = v /\ delegation'[PROPOSITION_POWER] = p
  <2>1. delegation = [type \in DelegationTypes |-> delegation[type]]
    BY DEF UpgradeInv
  <2> QED
    BY <1>1, <2>1 DEF DelegationTypes, VOTING_POWER, PROPOSITION_POWER
<1>3. ASSUME NEW type \in DelegationTypes,
             NEW after \in PowerBeforeTransfer(delegation[type], balances, from, to, amount, now)
      PROVE  PowerMoved(after, delegation[type], Users, balances', balances, now)
  <2>1. now \in Nat /\ SoundPower(delegation[type], Users, balances, now)
    BY DEF UpgradeInv
  <2> QED
    BY <2>1, Constants, StakeMovePower
<1>4. \A type \in DelegationTypes :
        PowerMoved(delegation'[type], delegation[type], Users, balances', balances, now)
  BY <1>1, <1>2, <1>3 DEF DelegationTypes
<1>5. balances' \in [Users -> Nat]
  BY DEF StakeMoves
<1> QED
  BY <1>2, <1>4, <1>5, LaterStep

(* The steps that move neither stake nor power. *)
LEMMA IdleUpgrade ==
  ASSUME UpgradeInv, UNCHANGED <<balances, delegation, now, ended>>,
         \/ lastInitializedRevision' = lastInitializedRevision
         \/ lastInitializedRevision' \in Nat \ {0, 1}
  PROVE  UpgradeInv' /\ HistoriesKept
<1>1. \A type \in DelegationTypes :
        /\ SoundPower(delegation[type], Users, balances, now)
        /\ PowerMoved(delegation[type], delegation[type], Users, balances, balances, now)
  BY PowerStays DEF UpgradeInv
<1>2. /\ balances' \in [Users -> Nat]
      /\ delegation' = [type \in DelegationTypes |-> delegation'[type]]
      /\ lastInitializedRevision' \in Nat \ {0}
      /\ lastInitializedRevision' = 1 => Undelegated'
  BY DEF UpgradeInv, Undelegated
<1>3. /\ PowerMoved(delegation'[VOTING_POWER], delegation[VOTING_POWER],
                    Users, balances', balances, now)
      /\ SoundPower(delegation'[PROPOSITION_POWER], Users, balances', now)
      /\ PowerKept(delegation'[PROPOSITION_POWER], delegation[PROPOSITION_POWER], Users, now)
  BY <1>1 DEF PowerMoved, DelegationTypes
<1> QED
  BY <1>2, <1>3, StepUpgradeInv

LEMMA StakeUpgrade ==
  ASSUME UpgradeInv, NEW sender \in Users, NEW onBehalfOf \in Users, NEW amount \in Amounts,
         Stake(sender, onBehalfOf, amount)
  PROVE  UpgradeInv' /\ HistoriesKept
<1>1. balances \in [Users -> Nat] /\ amount \in Nat
  BY Constants DEF UpgradeInv
<1>2. CASE lastInitializedRevision = 1 /\ V1!Stake(sender, onBehalfOf, amount) /\ UNCHANGED ended
  <2>1. /\ delegation' \in BeforeTokenTransferV1(delegation, balances, ZERO_ADDRESS,
                                                 onBehalfOf, amount, now)
        /\ balances' = [balances EXCEPT ![onBehalfOf] = @ + amount]
        /\ now' = now /\ ended' = ended
        /\ lastInitializedRevision' = lastInitializedRevision
    BY <1>2 DEF Stake, Run, V1!Stake
  <2>2. StakeMoves(balances, balances', Users, ZERO_ADDRESS, onBehalfOf, amount)
    BY <1>1, <2>1, Constants, MintMoves
  <2> QED
    BY <1>1, <1>2, <2>1, <2>2, FirstMove
<1>3. CASE lastInitializedRevision > 1 /\ V2!Stake(sender, onBehalfOf, amount)
  <2>1. /\ delegation' \in V2!BeforeTokenTransferV3(delegation, balances, ZERO_ADDRESS,
                                                    onBehalfOf, amount, now)
        /\ balances' = [balances EXCEPT ![onBehalfOf] = @ + amount]
        /\ now' = now /\ ended' = ended
        /\ lastInitializedRevision' = lastInitializedRevision
    BY <1>3 DEF Stake, Run, V2!Stake, V2!Token!Stake
  <2>2. StakeMoves(balances, balances', Users, ZERO_ADDRESS, onBehalfOf, amount)
    BY <1>1, <2>1, Constants, MintMoves
  <2> QED
    BY <1>3, <2>1, <2>2, LaterMove
<1> QED
  BY <1>2, <1>3 DEF Stake, Run

LEMMA RedeemUpgrade ==
  ASSUME UpgradeInv, NEW sender \in Users, NEW to, NEW amount \in Amounts,
         Redeem(sender, to, amount)
  PROVE  UpgradeInv' /\ HistoriesKept
<1> DEFINE redeemed == IF amount > balances[sender] THEN balances[sender] ELSE amount
<1>1. balances \in [Users -> Nat] /\ redeemed \in Nat /\ redeemed <= balances[sender]
  BY Constants DEF UpgradeInv
<1>2. CASE lastInitializedRevision = 1 /\ V1!Redeem(sender, to, amount) /\ UNCHANGED ended
  <2>1. /\ delegation' \in BeforeTokenTransferV1(delegation, balances, sender,
                                                 ZERO_ADDRESS, redeemed, now)
        /\ balances' = [balances EXCEPT ![sender] = @ - redeemed]
        /\ now' = now /\ ended' = ended
        /\ lastInitializedRevision' = lastInitializedRevision
    BY <1>2 DEF Redeem, Run, V1!Redeem
  <2> HIDE DEF redeemed
  <2>2. StakeMoves(balances, balances', Users, sender, ZERO_ADDRESS, redeemed)
    BY <1>1, <2>1, Constants, BurnMoves
  <2> QED
    BY <1>1, <1>2, <2>1, <2>2, FirstMove
<1>3. CASE lastInitializedRevision > 1 /\ V2!Redeem(sender, to, amount)
  <2>1. /\ delegation' \in V2!BeforeTokenTransferV3(delegation, balances, sender,
                                                    ZERO_ADDRESS, redeemed, now)
        /\ balances' = [balances EXCEPT ![sender] = @ - redeemed]
        /\ now' = now /\ ended' = ended
        /\ lastInitializedRevision' = lastInitializedRevision
    BY <1>3 DEF Redeem, Run, V2!Redeem, V2!Token!Redeem
  <2> HIDE DEF redeemed
  <2>2. StakeMoves(balances, balances', Users, sender, ZERO_ADDRESS, redeemed)
    BY <1>1, <2>1, Constants, BurnMoves
  <2> QED
    BY <1>1, <1>3, <2>1, <2>2, LaterMove
<1> QED
  BY <1>2, <1>3 DEF Redeem, Run

LEMMA TransferUpgrade ==
  ASSUME UpgradeInv, NEW from \in Users, NEW to \in Users, NEW amount \in Amounts,
         Transfer(from, to, amount)
  PROVE  UpgradeInv' /\ HistoriesKept
<1> DEFINE debited == [balances EXCEPT ![from] = @ - amount]
<1>1. balances \in [Users -> Nat] /\ amount \in Nat
  BY Constants DEF UpgradeInv
<1>2. CASE lastInitializedRevision = 1 /\ V1!Transfer(from, to, amount) /\ UNCHANGED ended
  <2>1. /\ delegation' \in BeforeTokenTransferV1(delegation, balances, from, to, amount, now)
        /\ balances' = [debited EXCEPT ![to] = @ + amount]
        /\ amount <= balances[from]
        /\ now' = now /\ ended' = ended
        /\ lastInitializedRevision' = lastInitializedRevision
    BY <1>2 DEF Transfer, Run, V1!Transfer
  <2>2. StakeMoves(balances, balances', Users, from, to, amount)
    BY <1>1, <2>1, Constants, TransferMoves
  <2> QED
    BY <1>1, <1>2, <2>1, <2>2, FirstMove
<1>3. CASE lastInitializedRevision > 1 /\ V2!Transfer(from, to, amount)
  <2>1. /\ delegation' \in V2!BeforeTokenTransferV3(delegation, balances, from, to, amount, now)
        /\ balances' = [debited EXCEPT ![to] = @ + amount]
        /\ amount <= balances[from]
        /\ now' = now /\ ended' = ended
        /\ lastInitializedRevision' = lastInitializedRevision
    BY <1>3 DEF Transfer, Run, V2!Transfer, V2!Token!Transfer
  <2>2. StakeMoves(balances, balances', Users, from, to, amount)
    BY <1>1, <2>1, Constants, TransferMoves
  <2> QED
    BY <1>3, <2>1, <2>2, LaterMove
<1> QED
  BY <1>2, <1>3 DEF Transfer, Run

(* One type of power delegated. *)
LEMMA DelegatedUpgrade ==
  ASSUME UpgradeInv, NEW type \in DelegationTypes,
         NEW sender \in Users, NEW delegatee \in Users,
         NEW data \in DelegatePower(delegation[type], balances, sender, delegatee, now)
  PROVE  PowerMoved(data, delegation[type], Users, balances, balances, now)
<1>1. /\ now \in Nat /\ balances \in [Users -> Nat]
      /\ SoundPower(delegation[type], Users, balances, now)
  BY DEF UpgradeInv
<1>2. /\ SoundPower(data, Users, balances, now)
      /\ PowerKept(data, delegation[type], Users, now)
  BY <1>1, Constants, DelegatePowerSound
<1> QED
  BY <1>2 DEF PowerMoved

LEMMA DelegateByTypeUpgrade ==
  ASSUME UpgradeInv, NEW sender \in Users, NEW delegatee \in Users,
         NEW type \in DelegationTypes, DelegateByType(sender, delegatee, type)
  PROVE  UpgradeInv' /\ HistoriesKept
<1>1. PICK data \in DelegatePower(delegation[type], balances, sender, delegatee, now) :
        delegation' = [delegation EXCEPT ![type] = data]
  BY SameDelegation DEF DelegateByType, Run, V2!DelegateByType
<1>2. /\ balances' = balances /\ now' = now /\ ended' = ended
      /\ lastInitializedRevision > 1
      /\ lastInitializedRevision' = lastInitializedRevision
  BY DEF DelegateByType, Run, V2!DelegateByType, V2!tokenVars
<1>3. delegation = [t \in DelegationTypes |-> delegation[t]] /\ balances \in [Users -> Nat]
  BY DEF UpgradeInv
<1>4. /\ delegation' = [t \in DelegationTypes |-> delegation'[t]]
      /\ delegation'[type] = data
      /\ \A t \in DelegationTypes \ {type} : delegation'[t] = delegation[t]
  BY <1>1, <1>3
<1>5. PowerMoved(data, delegation[type], Users, balances, balances, now)
  BY DelegatedUpgrade
<1>6. \A t \in DelegationTypes :
        PowerMoved(delegation[t], delegation[t], Users, balances, balances, now)
  BY PowerStays DEF UpgradeInv
<1>7. \A t \in DelegationTypes :
        PowerMoved(delegation'[t], delegation[t], Users, balances', balances, now)
  BY <1>2, <1>4, <1>5, <1>6
<1> QED
  BY <1>2, <1>3, <1>4, <1>7, LaterStep

LEMMA DelegateUpgrade ==
  ASSUME UpgradeInv, NEW sender \in Users, NEW delegatee \in Users,
         Delegate(sender, delegatee)
  PROVE  UpgradeInv' /\ HistoriesKept
<1>1. PICK v \in DelegatePower(delegation[VOTING_POWER], balances, sender, delegatee, now),
           p \in DelegatePower(delegation[PROPOSITION_POWER], balances, sender, delegatee, now) :
        delegation' = [delegation EXCEPT ![VOTING_POWER] = v, ![PROPOSITION_POWER] = p]
  BY SameDelegation, SameTypes DEF Delegate, Run, V2!Delegate
<1>2. /\ balances' = balances /\ now' = now /\ ended' = ended
      /\ lastInitializedRevision > 1
      /\ lastInitializedRevision' = lastInitializedRevision
  BY DEF Delegate, Run, V2!Delegate, V2!tokenVars
<1>3. delegation = [t \in DelegationTypes |-> delegation[t]] /\ balances \in [Users -> Nat]
  BY DEF UpgradeInv
<1>4. /\ delegation' = [t \in DelegationTypes |-> delegation'[t]]
      /\ delegation'[VOTING_POWER] = v /\ delegation'[PROPOSITION_POWER] = p
  BY <1>1, <1>3 DEF DelegationTypes, VOTING_POWER, PROPOSITION_POWER
<1>5. /\ PowerMoved(v, delegation[VOTING_POWER], Users, balances, balances, now)
      /\ PowerMoved(p, delegation[PROPOSITION_POWER], Users, balances, balances, now)
  BY DelegatedUpgrade DEF DelegationTypes
<1>6. \A t \in DelegationTypes :
        PowerMoved(delegation'[t], delegation[t], Users, balances', balances, now)
  BY <1>2, <1>4, <1>5 DEF DelegationTypes
<1> QED
  BY <1>2, <1>3, <1>4, <1>6, LaterStep

(* The other transactions, and the upgrade itself. *)
LEMMA OtherUpgrade ==
  ASSUME UpgradeInv,
         \/ \E sender \in Users : Cooldown(sender)
         \/ \E sender \in Users, to \in V1!Accounts, amount \in Amounts \cup {MAX_UINT} :
              ClaimRewards(sender, to, amount)
         \/ \E emission \in Emissions : ConfigureAssets(emission, totalSupply)
         \/ \E revision \in Revisions : Upgrade(revision)
         \/ UNCHANGED vars
  PROVE  UpgradeInv' /\ HistoriesKept
<1>1. ASSUME NEW sender \in Users, Cooldown(sender)
      PROVE  UpgradeInv' /\ HistoriesKept
  BY <1>1, IdleUpgrade DEF Cooldown, Run, V1!Cooldown, V1!stakeVars,
                           V2!Cooldown, V2!Token!Cooldown, V2!Token!stakeVars
<1>2. ASSUME NEW sender \in Users, NEW to \in V1!Accounts,
             NEW amount \in Amounts \cup {MAX_UINT}, ClaimRewards(sender, to, amount)
      PROVE  UpgradeInv' /\ HistoriesKept
  BY <1>2, IdleUpgrade DEF ClaimRewards, Run, V1!ClaimRewards, V1!stakeVars,
                           V2!ClaimRewards, V2!Token!ClaimRewards, V2!Token!stakeVars
<1>3. ASSUME NEW emission \in Emissions, ConfigureAssets(emission, totalSupply)
      PROVE  UpgradeInv' /\ HistoriesKept
  BY <1>3, IdleUpgrade DEF ConfigureAssets, Run, V1!ConfigureAssets, V1!stakeVars,
                           V2!ConfigureAssets, V2!Token!ConfigureAssets, V2!Token!stakeVars
<1>4. ASSUME NEW revision \in Revisions, Upgrade(revision)
      PROVE  UpgradeInv' /\ HistoriesKept
  <2>1. lastInitializedRevision' \in Nat \ {0, 1}
    BY <1>4, RevisionsAssumption DEF Upgrade
  <2> QED
    BY <1>4, <2>1, IdleUpgrade DEF Upgrade, tokenVars
<1>5. CASE UNCHANGED vars
  BY <1>5, IdleUpgrade DEF vars, tokenVars
<1> QED
  BY <1>1, <1>2, <1>3, <1>4, <1>5

(* The end of a block: the votes noted are those that will be answered. *)
LEMMA TickUpgrade ==
  ASSUME UpgradeInv, Tick
  PROVE  UpgradeInv' /\ HistoriesKept
<1> DEFINE note == [u \in Users |-> [type \in DelegationTypes |-> V2!DelegatedStake(u, type)]]
<1>1. /\ now' = now + 1 /\ ended' = Append(ended, note)
      /\ balances' = balances /\ delegation' = delegation
      /\ lastInitializedRevision' = lastInitializedRevision
  BY SameTypes DEF Tick, V1!Tick, V1!stakeVars, V2!Tick, V2!Token!Tick, V2!Token!stakeVars,
                   V2!EndOfBlock
<1>2. /\ now \in Nat /\ START \in Nat /\ balances \in [Users -> Nat]
      /\ START + Len(ended) = now
      /\ ended \in Seq([Users -> [DelegationTypes -> Nat]]) /\ Len(ended) \in Nat
      /\ \A type \in DelegationTypes : SoundPower(delegation[type], Users, balances, now)
  BY Constants DEF UpgradeInv
<1>3. \A type \in DelegationTypes :
        /\ SoundPower(delegation[type], Users, balances, now + 1)
        /\ \A u \in Users : SearchByBlockNumber(delegation[type].snapshots[u], balances[u], now)
                              = V2!DelegatedStake(u, type)
  <2> TAKE type \in DelegationTypes
  <2> DEFINE data == delegation[type]
  <2>1. now \in Nat /\ SoundPower(data, Users, balances, now)
    BY <1>2
  <2>2. \A u \in Users : V2!DelegatedStake(u, type)
                            = Delegated(data.delegates, balances, Users, u)
    BY SameStake
  <2> HIDE DEF data
  <2>3. /\ SoundPower(data, Users, balances, now + 1)
        /\ \A u \in Users : SearchByBlockNumber(data.snapshots[u], balances[u], now)
                              = Delegated(data.delegates, balances, Users, u)
    BY <2>1, NextBlockSound
  <2> QED
    BY <2>2, <2>3 DEF data
<1>4. note \in [Users -> [DelegationTypes -> Nat]]
  <2>1. \A u \in Users, type \in DelegationTypes : V2!DelegatedStake(u, type) \in Nat
    <3> TAKE u \in Users, type \in DelegationTypes
    <3>1. Delegated(delegation[type].delegates, balances, Users, u) \in Nat
      BY <1>2, Constants, DelegatedChange
    <3> QED
      BY <3>1, SameStake
  <2> QED
    BY <2>1
<1>5. /\ ended' \in Seq([Users -> [DelegationTypes -> Nat]])
      /\ Len(ended') = Len(ended) + 1
      /\ ended'[Len(ended) + 1] = note
      /\ \A i \in 1..Len(ended) : ended'[i] = ended[i]
  <2> HIDE DEF note
  <2> QED
    BY <1>1, <1>2, <1>4
<1>6. VotesAtBlockAreHistory'
  <2>0. DOMAIN ended' = 1..(Len(ended) + 1)
    BY <1>5
  <2> SUFFICES ASSUME NEW i \in 1..(Len(ended) + 1), NEW u \in Users
               PROVE  SearchByBlockNumber(delegation'[VOTING_POWER].snapshots[u], balances'[u],
                                          START + i - 1) = ended'[i][u][VOTING_POWER]
    BY <2>0, SameSearch DEF VotesAtBlockAreHistory, V2!GetPowerAtBlock
  <2>1. CASE i \in 1..Len(ended)
    <3>1. i \in DOMAIN ended
      BY <1>2, <2>1
    <3>2. SearchByBlockNumber(delegation[VOTING_POWER].snapshots[u], balances[u], START + i - 1)
            = ended[i][u][VOTING_POWER]
      BY <3>1, SameSearch DEF UpgradeInv, VotesAtBlockAreHistory, V2!GetPowerAtBlock
    <3> QED
      BY <1>1, <1>5, <2>1, <3>2
  <2>2. CASE i = Len(ended) + 1
    <3>1. START + i - 1 = now
      BY <1>2, <2>2
    <3>2. VOTING_POWER \in DelegationTypes
      BY DEF DelegationTypes
    <3>3. ended'[i][u][VOTING_POWER] = V2!DelegatedStake(u, VOTING_POWER)
      BY <1>5, <2>2, <3>2
    <3> QED
      BY <1>1, <1>3, <3>1, <3>2, <3>3
  <2> QED
    BY <1>2, <2>1, <2>2
<1>7. /\ now' \in Nat /\ START + Len(ended') = now'
      /\ \A type \in DelegationTypes : SoundPower(delegation'[type], Users, balances', now')
  <2>1. now' \in Nat /\ START + Len(ended') = now'
    <3> DEFINE n == Len(ended)
               m == Len(ended')
    <3>1. now' = now + 1 /\ m = n + 1
      BY <1>1, <1>5
    <3>2. now \in Nat /\ START \in Nat /\ n \in Nat /\ START + n = now
      BY <1>2
    <3> HIDE DEF n, m
    <3>3. now' \in Nat /\ START + m = now'
      BY <3>1, <3>2
    <3> QED
      BY <3>3 DEF m
  <2> QED
    BY <1>1, <1>3, <2>1
<1>8. lastInitializedRevision' = 1 => Undelegated'
  BY <1>1 DEF UpgradeInv, Undelegated
<1>9. HistoriesKept
  <2>1. \A type \in DelegationTypes :
          PowerMoved(delegation[type], delegation[type], Users, balances, balances, now)
    BY <1>2, PowerStays
  <2> QED
    BY <1>1, <2>1 DEF HistoriesKept, PowerMoved
<1> QED
  BY <1>1, <1>5, <1>6, <1>7, <1>8, <1>9 DEF UpgradeInv

LEMMA NextUpgradeInv == UpgradeInv /\ [Next]_vars => UpgradeInv' /\ HistoriesKept
<1> SUFFICES ASSUME UpgradeInv, [Next]_vars PROVE UpgradeInv' /\ HistoriesKept
  OBVIOUS
<1>1. ASSUME NEW sender \in Users, NEW onBehalfOf \in Users, NEW amount \in Amounts,
             Stake(sender, onBehalfOf, amount)
      PROVE  UpgradeInv' /\ HistoriesKept
  BY <1>1, StakeUpgrade
<1>2. ASSUME NEW sender \in Users, NEW to \in V1!Accounts, NEW amount \in Amounts,
             Redeem(sender, to, amount)
      PROVE  UpgradeInv' /\ HistoriesKept
  BY <1>2, RedeemUpgrade
<1>3. ASSUME NEW from \in Users, NEW to \in Users, NEW amount \in Amounts,
             Transfer(from, to, amount)
      PROVE  UpgradeInv' /\ HistoriesKept
  BY <1>3, TransferUpgrade
<1>4. ASSUME NEW sender \in Users, NEW delegatee \in Users, NEW type \in DelegationTypes,
             DelegateByType(sender, delegatee, type)
      PROVE  UpgradeInv' /\ HistoriesKept
  BY <1>4, DelegateByTypeUpgrade
<1>5. ASSUME NEW sender \in Users, NEW delegatee \in Users, Delegate(sender, delegatee)
      PROVE  UpgradeInv' /\ HistoriesKept
  BY <1>5, DelegateUpgrade
<1>6. CASE Tick
  BY <1>6, TickUpgrade
<1>7. CASE \/ \E sender \in Users : Cooldown(sender)
           \/ \E sender \in Users, to \in V1!Accounts, amount \in Amounts \cup {MAX_UINT} :
                ClaimRewards(sender, to, amount)
           \/ \E emission \in Emissions : ConfigureAssets(emission, totalSupply)
           \/ \E revision \in Revisions : Upgrade(revision)
           \/ UNCHANGED vars
  BY <1>7, OtherUpgrade
<1> QED
  BY <1>1, <1>2, <1>3, <1>4, <1>5, <1>6, <1>7 DEF Next

LEMMA UpgradeInvariance == Spec => []UpgradeInv
BY InitUpgradeInv, NextUpgradeInv, PTL DEF Spec

----------------------------------------------------------------------------
(* The theorems about power. *)

(* From the moment of the upgrade, whenever it comes, every staker has the  *)
(* power of the stake delegated to it, of both types: what the first        *)
(* implementation left in the storage is enough.                            *)
THEOREM UpgradeKeepsPower == Spec => []PowerSurvivesUpgrade
<1>1. UpgradeInv => PowerSurvivesUpgrade
  <2> SUFFICES ASSUME UpgradeInv, NEW u \in Users, NEW type \in DelegationTypes
               PROVE  SearchByBlockNumber(delegation[type].snapshots[u], balances[u], now)
                        = V2!DelegatedStake(u, type)
    BY SameSearch DEF PowerSurvivesUpgrade, V2!GetPowerCurrent
  <2> DEFINE data == delegation[type]
  <2>1. now \in Nat /\ SoundPower(data, Users, balances, now)
    BY DEF UpgradeInv
  <2>2. V2!DelegatedStake(u, type) = Delegated(data.delegates, balances, Users, u)
    BY SameStake
  <2> HIDE DEF data
  <2>3. SearchByBlockNumber(data.snapshots[u], balances[u], now)
          = Delegated(data.delegates, balances, Users, u)
    BY <2>1, NextBlockSound
  <2> QED
    BY <2>2, <2>3 DEF data
<1> QED
  BY <1>1, UpgradeInvariance, PTL

(* The votes getPowerAtBlock answers for a block that is over are those of  *)
(* its end, for the blocks before the upgrade too.                          *)
THEOREM UpgradeKeepsVotes == Spec => []VotesAtBlockAreHistory
<1>1. UpgradeInv => VotesAtBlockAreHistory
  BY DEF UpgradeInv
<1> QED
  BY <1>1, UpgradeInvariance, PTL

(* What getPowerAtBlock answers for a block that is over stays, in every    *)
(* step of any implementation and every upgrade: votes always, proposition  *)
(* power once the account has a history of it.                              *)
THEOREM FinishedBlocksStay == Spec => FinishedBlocksAreFinal
<1> DEFINE Final ==
      \A u \in Users, type \in DelegationTypes :
        /\ type = VOTING_POWER \/ delegation[type].snapshots[u] # <<>>
        /\ \/ delegation'[type].snapshots[u] # delegation[type].snapshots[u]
           \/ balances'[u] # balances[u]
        => \A block \in START .. now - 1 :
             V2!GetPowerAtBlock(u, block, type)' = V2!GetPowerAtBlock(u, block, type)
<1>1. UpgradeInv /\ UpgradeInv' /\ HistoriesKept => Final
  <2> SUFFICES ASSUME UpgradeInv, UpgradeInv', HistoriesKept,
                      NEW u \in Users, NEW type \in DelegationTypes,
                      type = VOTING_POWER \/ delegation[type].snapshots[u] # <<>>,
                      \/ delegation'[type].snapshots[u] # delegation[type].snapshots[u]
                      \/ balances'[u] # balances[u],
                      NEW block \in START .. now - 1
               PROVE  SearchByBlockNumber(delegation'[type].snapshots[u], balances'[u], block)
                        = SearchByBlockNumber(delegation[type].snapshots[u], balances[u], block)
    BY SameSearch DEF V2!GetPowerAtBlock
  <2> DEFINE h     == delegation[type].snapshots[u]
             later == delegation'[type].snapshots[u]
  <2>1. now' = now
    BY DEF HistoriesKept
  <2>2. now \in Nat /\ block \in Nat /\ block < now
    BY Constants DEF UpgradeInv
  <2>3. IsHistory(h, now) /\ IsHistory(later, now)
    BY <2>1 DEF UpgradeInv, SoundPower, SoundSnapshots
  <2>4. Prolongs(later, h, now) /\ (later = <<>> => h = <<>>)
    BY DEF HistoriesKept, PowerKept
  <2>5. h = <<>> => balances[u] = 0
    BY DEF UpgradeInv
  <2>6. later = <<>> => balances'[u] = 0
    <3>1. later = <<>> => type = VOTING_POWER
      BY <2>4
    <3> QED
      BY <3>1 DEF UpgradeInv
  <2> HIDE DEF h, later
  <2>7. AnswersAlike(later, balances'[u], h, balances[u], block)
    BY <2>2, <2>3, <2>4, SearchKept
  <2>8. SearchByBlockNumber(later, balances'[u], block)
          = SearchByBlockNumber(h, balances[u], block)
    BY <2>4, <2>5, <2>6, <2>7 DEF AnswersAlike
  <2> QED
    BY <2>8 DEF h, later
<1>2. UpgradeInv /\ [Next]_vars =>
        [\A u \in Users, type \in DelegationTypes :
           LET history == delegation[type].snapshots[u]
           IN  /\ type = VOTING_POWER \/ history # <<>>
               /\ delegation'[type].snapshots[u] # history \/ balances'[u] # balances[u]
               => \A block \in START .. now - 1 :
                    V2!GetPowerAtBlock(u, block, type)' = V2!GetPowerAtBlock(u, block, type)]_vars
  BY <1>1, NextUpgradeInv
<1> QED
  BY <1>2, UpgradeInvariance, PTL DEF Spec, FinishedBlocksAreFinal

----------------------------------------------------------------------------
(***************************************************************************)
(* The rewards.  Every transaction is one of the token before the upgrade  *)
(* or one of the token after it, for each of which the invariant of the    *)
(* rewards is proved (StakedToken_proofs); what is left is the upgrade     *)
(* itself.  It changes no storage but replaces the end of the              *)
(* distribution, on which that invariant depends: for the later token,     *)
(* what the upgrade dates back counts as emitted.                          *)
(***************************************************************************)
First == INSTANCE StakedToken_proofs WITH
  DISTRIBUTION_END <- DISTRIBUTION_END_V1,
  hook <- delegation,
  InitialHook <- [type \in DelegationTypes |-> InitDelegationData(Users)],
  BeforeTokenTransfer <- BeforeTokenTransferV1

Later == INSTANCE StakedToken_proofs WITH
  hook <- delegation,
  emitted <- emitted + backdated,
  InitialHook <- [type \in DelegationTypes |-> InitDelegationData(Users)],
  BeforeTokenTransfer <- V2!BeforeTokenTransferV3

(* The token keeps its accounts and its rewards under every implementation. *)
UpgradeRewardInv ==
  /\ lastInitializedRevision \in Nat \ {0}
  /\ emitted \in Nat /\ backdated \in Nat
  /\ lastInitializedRevision = 1 => First!RewardInv /\ upgraded = 0 /\ backdated = 0
  /\ lastInitializedRevision > 1 => Later!RewardInv /\ upgraded \in Nat \ {0}

(* The histories of the upgrade stay, and what is emitted is a number. *)
Counted ==
  /\ upgraded' = upgraded /\ backdated' = backdated
  /\ emitted' \in Nat

(* What the lemmas about the token assume holds of both. *)
LEMMA FirstAssumptions ==
  /\ First!DistributionManagerAssumption
  /\ First!StakedTokenAssumption
  /\ First!StartAssumption
BY DistributionManagerAssumption, RevisionsAssumption, UpgradedStakedTokenAssumption
   DEF First!DistributionManagerAssumption, First!StakedTokenAssumption,
       First!StartAssumption, First!Accounts, First!Tokens, First!IsFiniteSet,
       V1!StakedTokenAssumption, V1!StartAssumption, V1!Accounts, V1!Tokens, V1!IsFiniteSet

LEMMA LaterAssumptions ==
  /\ Later!DistributionManagerAssumption
  /\ Later!StakedTokenAssumption
  /\ Later!StartAssumption
BY DistributionManagerAssumption, UpgradedStakedTokenAssumption
   DEF Later!DistributionManagerAssumption, Later!StakedTokenAssumption,
       Later!StartAssumption, Later!Accounts, Later!Tokens, Later!IsFiniteSet,
       V1!StakedTokenAssumption, V1!StartAssumption, V1!Accounts, V1!Tokens, V1!IsFiniteSet

(* A transaction of the first implementation is one of First. *)
LEMMA FirstSteps ==
  ASSUME [Next]_vars, lastInitializedRevision = 1, lastInitializedRevision' = 1,
         emitted \in Nat, asset.emissionPerSecond \in Nat
  PROVE  [First!Next]_(First!vars) /\ Counted
<1> USE DEF V1!PayToken, First!PayToken, V1!Accrued, First!Accrued,
            V1!GetNextCooldownTimestamp, First!GetNextCooldownTimestamp,
            V1!InUnstakeWindow, First!InUnstakeWindow,
            V1!UpdateUserAsset, First!UpdateUserAsset,
            V1!UpdateAssetState, First!UpdateAssetState,
            V1!ConfigureAsset, First!ConfigureAsset,
            V1!GetAssetIndex, First!GetAssetIndex, V1!Earlier, First!Earlier,
            V1!AccruedRewards, First!AccruedRewards, V1!GetRewards, First!GetRewards,
            V1!historyVars, First!historyVars, V1!stakeVars, First!stakeVars,
            V1!rewardVars, First!rewardVars, V1!Accounts, First!Accounts, Counted
<1>1. ASSUME NEW sender \in Users, NEW onBehalfOf \in Users, NEW amount \in Amounts,
             Stake(sender, onBehalfOf, amount)
      PROVE  First!Next /\ Counted
  <2>1. First!Stake(sender, onBehalfOf, amount)
    BY <1>1 DEF Stake, Run, V1!Stake, First!Stake
  <2> QED
    BY <1>1, <2>1 DEF Stake, Run, V1!Stake, First!Next
<1>2. ASSUME NEW sender \in Users, NEW to \in V1!Accounts, NEW amount \in Amounts,
             Redeem(sender, to, amount)
      PROVE  First!Next /\ Counted
  <2>1. First!Redeem(sender, to, amount)
    BY <1>2 DEF Redeem, Run, V1!Redeem, First!Redeem
  <2> QED
    BY <1>2, <2>1 DEF Redeem, Run, V1!Redeem, First!Next
<1>3. ASSUME NEW sender \in Users, Cooldown(sender)
      PROVE  First!Next /\ Counted
  <2>1. First!Cooldown(sender)
    BY <1>3 DEF Cooldown, Run, V1!Cooldown, First!Cooldown
  <2> QED
    BY <1>3, <2>1 DEF Cooldown, Run, V1!Cooldown, First!Next
<1>4. ASSUME NEW sender \in Users, NEW to \in V1!Accounts,
             NEW amount \in Amounts \cup {MAX_UINT}, ClaimRewards(sender, to, amount)
      PROVE  First!Next /\ Counted
  <2>1. First!ClaimRewards(sender, to, amount)
    BY <1>4 DEF ClaimRewards, Run, V1!ClaimRewards, First!ClaimRewards
  <2>2. First!Next
    BY <2>1, <1>4 DEF ClaimRewards, First!Next
  <2>3. Counted
    BY <1>4 DEF ClaimRewards, Run, V1!ClaimRewards
  <2> QED
    BY <2>2, <2>3
<1>5. ASSUME NEW from \in Users, NEW to \in Users, NEW amount \in Amounts,
             Transfer(from, to, amount)
      PROVE  First!Next /\ Counted
  <2>1. V1!Transfer(from, to, amount)
    BY <1>5 DEF Transfer, Run
  <2>2. \A u : V1!Accrued(u) = First!Accrued(u)
    OBVIOUS
  <2>3. /\ \A a, u, t, n : V1!UpdateUserAsset(a, u, t, n) = First!UpdateUserAsset(a, u, t, n)
        /\ \A f, n, u, b : V1!GetNextCooldownTimestamp(f, n, u, b)
                              = First!GetNextCooldownTimestamp(f, n, u, b)
    OBVIOUS
  <2>4. First!Transfer(from, to, amount)
    <3> HIDE DEF V1!Accrued, First!Accrued, V1!UpdateUserAsset, First!UpdateUserAsset,
                 V1!GetNextCooldownTimestamp, First!GetNextCooldownTimestamp
    <3>1. [u \in Users |-> IF u \in {from, to} THEN stakerRewardsToClaim[u] + V1!Accrued(u)
                           ELSE stakerRewardsToClaim[u]]
            = [u \in Users |-> IF u \in {from, to}
                               THEN stakerRewardsToClaim[u] + First!Accrued(u)
                               ELSE stakerRewardsToClaim[u]]
      BY <2>2
    <3> QED
      BY <2>1, <2>3, <3>1 DEF V1!Transfer, First!Transfer
  <2> QED
    BY <1>5, <2>4 DEF Transfer, Run, V1!Transfer, First!Next
<1>6. ASSUME NEW emission \in Emissions, ConfigureAssets(emission, totalSupply)
      PROVE  First!Next /\ Counted
  <2>1. First!ConfigureAssets(emission, totalSupply)
    BY <1>6 DEF ConfigureAssets, Run, V1!ConfigureAssets, First!ConfigureAssets
  <2> QED
    BY <1>6, <2>1 DEF ConfigureAssets, Run, V1!ConfigureAssets, First!Next
<1>7. CASE Tick
  <2>1. First!Tick
    BY <1>7 DEF Tick, V1!Tick, First!Tick
  <2> QED
    BY <1>7, <2>1 DEF Tick, V1!Tick, First!Next
<1>8. CASE UNCHANGED vars
  BY <1>8 DEF vars, tokenVars, First!vars
<1>9. ~ \E sender, delegatee \in Users : Delegate(sender, delegatee)
  BY DEF Delegate, Run
<1>10. ~ \E sender, delegatee \in Users, type \in DelegationTypes :
           DelegateByType(sender, delegatee, type)
  BY DEF DelegateByType, Run
<1>11. ~ \E revision \in Revisions : Upgrade(revision)
  BY RevisionsAssumption DEF Upgrade
<1> QED
  BY <1>1, <1>2, <1>3, <1>4, <1>5, <1>6, <1>7, <1>8, <1>9, <1>10, <1>11 DEF Next

(* A transaction of a later implementation is one of Later, or delegates. *)
LEMMA LaterSteps ==
  ASSUME [Next]_vars, lastInitializedRevision > 1,
         lastInitializedRevision' = lastInitializedRevision,
         ~ \E revision \in Revisions : Upgrade(revision),
         emitted \in Nat, backdated \in Nat, asset.emissionPerSecond \in Nat
  PROVE  /\ [Later!Next]_(Later!vars) \/ UNCHANGED tokenVars
         /\ Counted
<1> USE DEF V2!Token!PayToken, Later!PayToken, V2!Token!Accrued, Later!Accrued,
            V2!Token!GetNextCooldownTimestamp, Later!GetNextCooldownTimestamp,
            V2!Token!InUnstakeWindow, Later!InUnstakeWindow,
            V2!Token!UpdateUserAsset, Later!UpdateUserAsset,
            V2!Token!UpdateAssetState, Later!UpdateAssetState,
            V2!Token!ConfigureAsset, Later!ConfigureAsset,
            V2!Token!GetAssetIndex, Later!GetAssetIndex, V2!Token!Earlier, Later!Earlier,
            V2!Token!AccruedRewards, Later!AccruedRewards, V2!Token!GetRewards, Later!GetRewards,
            V2!Token!historyVars, Later!historyVars, V2!Token!stakeVars, Later!stakeVars,
            V2!Token!rewardVars, Later!rewardVars, V1!Accounts, V2!Token!Accounts, Later!Accounts,
            Counted
<1>1. ASSUME NEW sender \in Users, NEW onBehalfOf \in Users, NEW amount \in Amounts,
             Stake(sender, onBehalfOf, amount)
      PROVE  Later!Next /\ Counted
  <2>1. Later!Stake(sender, onBehalfOf, amount)
    BY <1>1 DEF Stake, Run, V2!Stake, V2!Token!Stake, Later!Stake
  <2> QED
    BY <1>1, <2>1 DEF Stake, Run, V2!Stake, V2!Token!Stake, Later!Next
<1>2. ASSUME NEW sender \in Users, NEW to \in V1!Accounts, NEW amount \in Amounts,
             Redeem(sender, to, amount)
      PROVE  Later!Next /\ Counted
  <2>1. Later!Redeem(sender, to, amount)
    BY <1>2 DEF Redeem, Run, V2!Redeem, V2!Token!Redeem, Later!Redeem
  <2> QED
    BY <1>2, <2>1 DEF Redeem, Run, V2!Redeem, V2!Token!Redeem, Later!Next
<1>3. ASSUME NEW sender \in Users, Cooldown(sender)
      PROVE  Later!Next /\ Counted
  <2>1. Later!Cooldown(sender)
    BY <1>3 DEF Cooldown, Run, V2!Cooldown, V2!Token!Cooldown, Later!Cooldown
  <2> QED
    BY <1>3, <2>1 DEF Cooldown, Run, V2!Cooldown, V2!Token!Cooldown, Later!Next
<1>4. ASSUME NEW sender \in Users, NEW to \in V1!Accounts,
             NEW amount \in Amounts \cup {MAX_UINT}, ClaimRewards(sender, to, amount)
      PROVE  Later!Next /\ Counted
  <2>1. Later!ClaimRewards(sender, to, amount)
    BY <1>4 DEF ClaimRewards, Run, V2!ClaimRewards, V2!Token!ClaimRewards, Later!ClaimRewards
  <2> QED
    BY <1>4, <2>1 DEF ClaimRewards, Run, V2!ClaimRewards, V2!Token!ClaimRewards, Later!Next
<1>5. ASSUME NEW from \in Users, NEW to \in Users, NEW amount \in Amounts,
             Transfer(from, to, amount)
      PROVE  Later!Next /\ Counted
  <2>1. V2!Token!Transfer(from, to, amount)
    BY <1>5 DEF Transfer, Run, V2!Transfer
  <2>5. backdated' = backdated
    BY <1>5 DEF Transfer, Run
  <2>2. \A u : V2!Token!Accrued(u) = Later!Accrued(u)
    OBVIOUS
  <2>3. /\ \A a, u, t, n : V2!Token!UpdateUserAsset(a, u, t, n) = Later!UpdateUserAsset(a, u, t, n)
        /\ \A f, n, u, b : V2!Token!GetNextCooldownTimestamp(f, n, u, b)
                              = Later!GetNextCooldownTimestamp(f, n, u, b)
    OBVIOUS
  <2>4. Later!Transfer(from, to, amount)
    <3> HIDE DEF V2!Token!Accrued, Later!Accrued, V2!Token!UpdateUserAsset, Later!UpdateUserAsset,
                 V2!Token!GetNextCooldownTimestamp, Later!GetNextCooldownTimestamp
    <3>1. [u \in Users |-> IF u \in {from, to} THEN stakerRewardsToClaim[u] + V2!Token!Accrued(u)
                           ELSE stakerRewardsToClaim[u]]
            = [u \in Users |-> IF u \in {from, to}
                               THEN stakerRewardsToClaim[u] + Later!Accrued(u)
                               ELSE stakerRewardsToClaim[u]]
      BY <2>2
    <3> QED
      BY <2>1, <2>3, <2>5, <3>1 DEF V2!Token!Transfer, Later!Transfer
  <2> QED
    BY <1>5, <2>4 DEF Transfer, Run, V2!Transfer, V2!Token!Transfer, Later!Next
<1>6. ASSUME NEW emission \in Emissions, ConfigureAssets(emission, totalSupply)
      PROVE  Later!Next /\ Counted
  <2>1. Later!ConfigureAssets(emission, totalSupply)
    BY <1>6 DEF ConfigureAssets, Run, V2!ConfigureAssets, V2!Token!ConfigureAssets, Later!ConfigureAssets
  <2> QED
    BY <1>6, <2>1 DEF ConfigureAssets, Run, V2!ConfigureAssets, V2!Token!ConfigureAssets, Later!Next
<1>7. CASE Tick
  <2>1. Later!Tick
    BY <1>7 DEF Tick, V2!Tick, V2!Token!Tick, Later!Tick
  <2> QED
    BY <1>7, <2>1 DEF Tick, V2!Tick, V2!Token!Tick, Later!Next
<1>8. CASE UNCHANGED vars
  BY <1>8 DEF vars, tokenVars, Later!vars
<1>9. ASSUME NEW sender \in Users, NEW delegatee \in Users, Delegate(sender, delegatee)
      PROVE  UNCHANGED tokenVars /\ Counted
  BY <1>9 DEF Delegate, Run, V2!Delegate, V2!tokenVars, tokenVars
<1>10. ASSUME NEW sender \in Users, NEW delegatee \in Users, NEW type \in DelegationTypes,
              DelegateByType(sender, delegatee, type)
       PROVE  UNCHANGED tokenVars /\ Counted
  BY <1>10 DEF DelegateByType, Run, V2!DelegateByType, V2!tokenVars, tokenVars
<1> QED
  BY <1>1, <1>2, <1>3, <1>4, <1>5, <1>6, <1>7, <1>8, <1>9, <1>10 DEF Next

(* The accounts of the token do not mention the end of the distribution. *)
LEMMA AccountsAcross ==
  ASSUME emitted \in Nat, backdated \in Nat
  PROVE  First!IInv <=> Later!IInv
<1>1. emitted + backdated \in Nat
  OBVIOUS
<1> QED
  BY <1>1 DEF First!IInv, First!TypeOK, First!SoundAsset, First!Backed, First!CooldownOfStake,
       First!Sum, First!Units, First!UnitsOf, First!Cardinality, First!AssetData,
       First!Tokens, First!Accounts,
       Later!IInv, Later!TypeOK, Later!SoundAsset, Later!Backed, Later!CooldownOfStake,
       Later!Sum, Later!Units, Later!UnitsOf, Later!Cardinality, Later!AssetData,
       Later!Tokens, Later!Accounts

(* What the new code counts as emitted since the last update is no more     *)
(* than what the old one did and what the upgrade dates back.               *)
LEMMA PendingAcross ==
  ASSUME First!IInv, emitted \in Nat, backdated \in Nat
  PROVE  /\ First!PendingEmission \in Nat /\ Later!PendingEmission \in Nat
         /\ Backdated \in Nat
         /\ Later!PendingEmission <= First!PendingEmission + Backdated
<1> DEFINE e     == asset.emissionPerSecond
           last  == asset.lastUpdateTimestamp
           until == IF now <= DISTRIBUTION_END THEN now ELSE DISTRIBUTION_END
           ended1 == IF now <= DISTRIBUTION_END_V1 THEN now ELSE DISTRIBUTION_END_V1
           since == IF last <= DISTRIBUTION_END_V1 THEN DISTRIBUTION_END_V1 ELSE last
           later == IF last < DISTRIBUTION_END THEN until - last ELSE 0
           first == IF last < DISTRIBUTION_END_V1 THEN ended1 - last ELSE 0
           added == IF since < until THEN until - since ELSE 0
<1>1. /\ e \in Nat /\ last \in Nat /\ last <= now /\ now \in Nat
      /\ DISTRIBUTION_END \in Nat /\ DISTRIBUTION_END_V1 \in Nat
  BY DistributionManagerAssumption, RevisionsAssumption
     DEF First!IInv, First!TypeOK, First!SoundAsset, First!AssetData
<1>2. later \in Nat /\ first \in Nat /\ added \in Nat /\ later <= first + added
  BY <1>1
<1>3. CASE totalSupply = 0
  <2>1. /\ Later!PendingEmission = 0 /\ First!PendingEmission = 0 /\ Backdated = 0
    BY <1>3 DEF Later!PendingEmission, Later!EmissionSince, First!PendingEmission,
                First!EmissionSince, Backdated
  <2> QED
    BY <2>1
<1>4. CASE totalSupply # 0
  <2>1. e * 0 = 0
    BY <1>1
  <2>2. Later!PendingEmission = e * later
    BY <1>1, <1>4, <2>1 DEF Later!PendingEmission, Later!EmissionSince, Later!Earlier
  <2>3. First!PendingEmission = e * first
    BY <1>1, <1>4, <2>1 DEF First!PendingEmission, First!EmissionSince, First!Earlier
  <2>4. Backdated = e * added
    BY <1>1, <1>4, <2>1 DEF Backdated, Earlier
  <2> HIDE DEF later, first, added, e
  <2>5. /\ e * later <= e * (first + added)
        /\ e * (first + added) = e * first + e * added
    BY <1>1, <1>2, MulMono, MulDist
  <2>6. e * later \in Nat /\ e * first \in Nat /\ e * added \in Nat
    BY <1>1, <1>2, MulNat
  <2> QED
    BY <2>2, <2>3, <2>4, <2>5, <2>6
<1> QED
  BY <1>3, <1>4

(* The upgrade: no storage changes, and what is paid, owed and pending by   *)
(* the new code is within what was emitted and what is dated back.          *)
LEMMA RewardsAcross ==
  ASSUME First!RewardInv, emitted \in Nat, backdated = 0,
         UNCHANGED tokenVars, backdated' = Backdated
  PROVE  Later!RewardInv' /\ backdated' \in Nat
<1> DEFINE settled == First!Sum([u \in Users |-> First!SettledTo(u)])
           p       == First!PendingEmission
           q       == Later!PendingEmission
           b       == Backdated
<1>1. First!IInv
  BY DEF First!RewardInv
<1>2. settled + SCALE * p <= SCALE * emitted
  BY DEF First!RewardInv
<1>3. Later!Sum([u \in Users |-> Later!SettledTo(u)]) = settled
  BY DEF First!SettledTo, Later!SettledTo, First!Sum, First!Units, First!UnitsOf,
         First!Cardinality, Later!Sum, Later!Units, Later!UnitsOf, Later!Cardinality
<1>4. p \in Nat /\ q \in Nat /\ b \in Nat /\ q <= p + b
  BY <1>1, PendingAcross
<1>5. /\ settled \in Nat /\ SCALE \in Nat
  <2>1. [u \in Users |-> First!SettledTo(u)] \in [Users -> Nat]
    BY <1>1, FirstAssumptions, First!SettledNat
  <2>2. settled \in Nat
    BY <2>1, FirstAssumptions, Constants, First!SumType DEF First!IsFiniteSet, IsFiniteSet
  <2> QED
    BY <2>2, DistributionManagerAssumption
<1>6. /\ Later!IInv' /\ backdated' = b /\ emitted' = emitted
      /\ Later!PendingEmission' = q
      /\ Later!Sum([u \in Users |-> Later!SettledTo(u)])' = settled
  <2>1. backdated' = b /\ emitted' = emitted
    BY DEF tokenVars
  <2>2. First!IInv'
    BY <1>1 DEF tokenVars, First!IInv, First!TypeOK, First!SoundAsset, First!Backed,
                First!CooldownOfStake
  <2>3. emitted' + backdated' \in Nat
    BY <1>4, <2>1
  <2>4. Later!IInv'
    BY <2>2, <2>3 DEF First!IInv, First!TypeOK, First!SoundAsset, First!Backed,
       First!CooldownOfStake,
       First!Sum, First!Units, First!UnitsOf, First!Cardinality, First!AssetData,
       First!Tokens, First!Accounts,
       Later!IInv, Later!TypeOK, Later!SoundAsset, Later!Backed, Later!CooldownOfStake,
       Later!Sum, Later!Units, Later!UnitsOf, Later!Cardinality, Later!AssetData,
       Later!Tokens, Later!Accounts
  <2>5. Later!PendingEmission' = q
    BY DEF tokenVars, Later!PendingEmission, Later!EmissionSince
  <2>6. Later!Sum([u \in Users |-> Later!SettledTo(u)])'
          = Later!Sum([u \in Users |-> Later!SettledTo(u)])
    BY DEF tokenVars, Later!SettledTo
  <2> QED
    BY <1>3, <2>1, <2>4, <2>5, <2>6
<1> HIDE DEF settled, p, q, b
<1>7. settled + SCALE * q <= SCALE * (emitted + b)
  <2>1. /\ SCALE * q <= SCALE * (p + b)
        /\ SCALE * (p + b) = SCALE * p + SCALE * b
        /\ SCALE * (emitted + b) = SCALE * emitted + SCALE * b
    BY <1>4, <1>5, MulMono, MulDist
  <2>2. /\ SCALE * q \in Nat /\ SCALE * p \in Nat /\ SCALE * b \in Nat
        /\ SCALE * emitted \in Nat
    BY <1>4, <1>5, MulNat
  <2> QED
    BY <1>2, <1>5, <2>1, <2>2
<1>8. (Later!Sum([u \in Users |-> Later!SettledTo(u)])
         + SCALE * Later!PendingEmission <= SCALE * (emitted + backdated))'
  BY <1>6, <1>7
<1> QED
  BY <1>4, <1>6, <1>8 DEF Later!RewardInv

(* A step that leaves the token alone. *)
LEMMA TokenUnchanged ==
  ASSUME UNCHANGED tokenVars, backdated' = backdated
  PROVE  Later!RewardInv => Later!RewardInv'
<1>1. Later!IInv => Later!IInv'
  BY DEF tokenVars, Later!IInv, Later!TypeOK, Later!SoundAsset, Later!Backed,
         Later!CooldownOfStake
<1> QED
  BY <1>1 DEF tokenVars, Later!RewardInv, Later!SettledTo, Later!PendingEmission,
              Later!EmissionSince

LEMMA InitUpgradeRewardInv == Init => UpgradeRewardInv
<1> SUFFICES ASSUME Init PROVE UpgradeRewardInv
  OBVIOUS
<1>1. First!Init
  BY SameTypes DEF Init, V2!Init, V2!Token!Init, First!Init,
                   V2!Token!InitAssetData, First!InitAssetData,
                   V2!InitDelegationData, V2!InitSnapshots, InitDelegationData, InitSnapshots
<1>2. First!RewardInv
  BY <1>1, FirstAssumptions, First!InitRewardInv
<1>3. emitted = 0
  BY DEF Init, V2!Init, V2!Token!Init
<1> QED
  BY <1>2, <1>3 DEF Init, UpgradeRewardInv

LEMMA NextUpgradeRewardInv == UpgradeRewardInv /\ [Next]_vars => UpgradeRewardInv'
<1> SUFFICES ASSUME UpgradeRewardInv, [Next]_vars PROVE UpgradeRewardInv'
  OBVIOUS
<1>1. ASSUME NEW revision \in Revisions, Upgrade(revision)
      PROVE  UpgradeRewardInv'
  <2>1. /\ UNCHANGED tokenVars /\ emitted' = emitted
        /\ lastInitializedRevision' \in Nat \ {0} /\ lastInitializedRevision' > 1
        /\ upgraded' = IF upgraded = 0 THEN now ELSE upgraded
        /\ backdated' = IF upgraded = 0 THEN Backdated ELSE backdated
    BY <1>1, RevisionsAssumption DEF Upgrade, UpgradeRewardInv, tokenVars
  <2>2. CASE lastInitializedRevision = 1
    <3>1. First!RewardInv /\ upgraded = 0 /\ backdated = 0 /\ emitted \in Nat
      BY <2>2 DEF UpgradeRewardInv
    <3>2. upgraded' = now /\ now \in Nat \ {0}
      <4>1. now \in Nat /\ now > COOLDOWN_SECONDS + UNSTAKE_WINDOW
        BY <3>1 DEF First!RewardInv, First!IInv, First!TypeOK
      <4>2. COOLDOWN_SECONDS \in Nat /\ UNSTAKE_WINDOW \in Nat
        BY UpgradedStakedTokenAssumption DEF V1!StakedTokenAssumption
      <4> QED
        BY <2>1, <3>1, <4>1, <4>2
    <3>3. Later!RewardInv' /\ backdated' \in Nat
      BY <2>1, <3>1, RewardsAcross
    <3> QED
      BY <2>1, <3>1, <3>2, <3>3 DEF UpgradeRewardInv
  <2>3. CASE lastInitializedRevision # 1
    <3>1. /\ Later!RewardInv /\ upgraded \in Nat \ {0}
          /\ emitted \in Nat /\ backdated \in Nat
      BY <2>3 DEF UpgradeRewardInv
    <3>2. Later!RewardInv' /\ upgraded' = upgraded /\ backdated' = backdated
      BY <2>1, <3>1, TokenUnchanged
    <3> QED
      BY <2>1, <3>1, <3>2 DEF UpgradeRewardInv
  <2> QED
    BY <2>2, <2>3
<1>2. CASE ~ \E revision \in Revisions : Upgrade(revision)
  <2>1. lastInitializedRevision' = lastInitializedRevision
    BY <1>2 DEF Next, Stake, Redeem, Cooldown, ClaimRewards, Transfer, ConfigureAssets,
                DelegateByType, Delegate, Tick, Run, vars
  <2>2. CASE lastInitializedRevision = 1
    <3>1. /\ First!RewardInv /\ upgraded = 0 /\ backdated = 0
          /\ emitted \in Nat /\ asset.emissionPerSecond \in Nat
      BY <2>2 DEF UpgradeRewardInv, First!RewardInv, First!IInv, First!SoundAsset,
                  First!TypeOK, First!AssetData
    <3>2. [First!Next]_(First!vars) /\ Counted
      BY <2>1, <2>2, <3>1, FirstSteps
    <3>3. First!RewardInv'
      BY <3>1, <3>2, FirstAssumptions, First!NextRewardInv
    <3> QED
      BY <2>1, <2>2, <3>1, <3>2, <3>3 DEF UpgradeRewardInv, Counted
  <2>3. CASE lastInitializedRevision # 1
    <3>1. /\ lastInitializedRevision \in Nat \ {0} /\ lastInitializedRevision > 1
          /\ Later!RewardInv /\ upgraded \in Nat \ {0}
          /\ emitted \in Nat /\ backdated \in Nat /\ asset.emissionPerSecond \in Nat
      BY <2>3 DEF UpgradeRewardInv, Later!RewardInv, Later!IInv, Later!SoundAsset,
                  Later!TypeOK, Later!AssetData
    <3>2. /\ [Later!Next]_(Later!vars) \/ UNCHANGED tokenVars
          /\ Counted
      BY <1>2, <2>1, <3>1, LaterSteps
    <3>3. Later!RewardInv'
      <4>1. CASE [Later!Next]_(Later!vars)
        BY <3>1, <4>1, LaterAssumptions, Later!NextRewardInv
      <4>2. CASE UNCHANGED tokenVars
        BY <3>1, <3>2, <4>2, TokenUnchanged DEF Counted
      <4> QED
        BY <3>2, <4>1, <4>2
    <3> QED
      BY <2>1, <3>1, <3>2, <3>3 DEF UpgradeRewardInv, Counted
  <2> QED
    BY <2>2, <2>3
<1> QED
  BY <1>1, <1>2

LEMMA UpgradeRewardInvariance == Spec => []UpgradeRewardInv
BY InitUpgradeRewardInv, NextUpgradeRewardInv, PTL DEF Spec

(* Whenever the upgrade comes, the rewards paid and owed never exceed what  *)
(* the implementations emitted, each in its time, and the emission of the   *)
(* seconds between the old end and an upgrade after it.                     *)
THEOREM UpgradeKeepsRewards == Spec => []SolventThroughUpgrade
<1>1. UpgradeRewardInv => SolventThroughUpgrade
  <2> SUFFICES ASSUME UpgradeRewardInv
               PROVE  IF lastInitializedRevision = 1 THEN V1!Solvent
                      ELSE /\ V2!Token!SoundAsset(asset, Users, now)
                           /\ Sum([u \in Users |-> V2!Token!DistributedTo(u)])
                                <= SCALE * (emitted + backdated)
    BY DEF SolventThroughUpgrade
  <2>1. CASE lastInitializedRevision = 1
    <3>1. First!Solvent
      BY <2>1, FirstAssumptions, First!RewardInvSolvent DEF UpgradeRewardInv
    <3> QED
      BY <2>1, <3>1 DEF First!Solvent, First!SoundAsset, First!AssetData, First!DistributedTo,
                        First!GetAssetIndex, First!Earlier,
                        First!Sum, First!Units, First!UnitsOf, First!Cardinality,
                        V1!Solvent, V1!SoundAsset, V1!AssetData, V1!DistributedTo,
                        V1!GetAssetIndex, V1!Earlier,
                        V1!Sum, V1!Units, V1!UnitsOf, V1!Cardinality
  <2>2. CASE lastInitializedRevision # 1
    <3>1. Later!Solvent
      BY <2>2, LaterAssumptions, Later!RewardInvSolvent DEF UpgradeRewardInv
    <3> QED
      BY <2>2, <3>1 DEF Later!Solvent, Later!SoundAsset, Later!AssetData,
                        Later!DistributedTo, Later!GetAssetIndex, Later!Earlier,
                        Later!Sum, Later!Units, Later!UnitsOf, Later!Cardinality,
                        V2!Token!SoundAsset, V2!Token!AssetData,
                        V2!Token!DistributedTo, V2!Token!GetAssetIndex, V2!Token!Earlier,
                        Sum, Units, UnitsOf, Cardinality
  <2> QED
    BY <2>1, <2>2
<1> QED
  BY <1>1, UpgradeRewardInvariance, PTL

(* Whenever the upgrade comes: the staked token's supply is what its        *)
(* holders hold and is there to be redeemed, and a cooldown belongs to a    *)
(* stake, before it and after.                                              *)
THEOREM UpgradeKeepsStake == Spec => [](V1!Backed /\ V1!CooldownOfStake)
<1>1. UpgradeRewardInv => V1!Backed /\ V1!CooldownOfStake
  <2> SUFFICES ASSUME UpgradeRewardInv PROVE V1!Backed /\ V1!CooldownOfStake
    OBVIOUS
  <2>1. First!IInv
    BY AccountsAcross DEF UpgradeRewardInv, First!RewardInv, Later!RewardInv
  <2> QED
    BY <2>1 DEF First!IInv, First!Backed, First!CooldownOfStake,
                First!Sum, First!Units, First!UnitsOf, First!Cardinality,
                V1!Backed, V1!CooldownOfStake, V1!Sum, V1!Units, V1!UnitsOf, V1!Cardinality
<1> QED
  BY <1>1, UpgradeRewardInvariance, PTL

(* Under every implementation, and through every upgrade, redemption waits  *)
(* for the cooldown its owner asked for, and nobody can bring a cooldown    *)
(* forward for another.                                                     *)
THEOREM UpgradeKeepsCooldowns == Spec => V1!RedeemWaits /\ V1!CooldownOnlyPostponed
<1> DEFINE Waits ==
             \A u \in Users :
               totalSupply' < totalSupply /\ balances'[u] < balances[u] =>
                 activated[u] # 0 /\ now > activated[u] + COOLDOWN_SECONDS
           Postponed ==
             \A u \in Users :
               stakersCooldowns'[u] < stakersCooldowns[u] => stakersCooldowns'[u] = 0
<1>1. ASSUME UNCHANGED tokenVars, Later!IInv PROVE Waits /\ Postponed
  <2>1. totalSupply \in Nat /\ \A u \in Users : stakersCooldowns[u] \in Nat
    BY <1>1 DEF Later!IInv, Later!TypeOK
  <2> QED
    BY <1>1, <2>1 DEF tokenVars
<1>2. ASSUME UpgradeRewardInv, [Next]_vars PROVE Waits /\ Postponed
  <2>1. CASE \E revision \in Revisions : Upgrade(revision)
    <3>1. Later!IInv
      BY <1>2, AccountsAcross DEF UpgradeRewardInv, First!RewardInv, Later!RewardInv
    <3> QED
      BY <1>1, <2>1, <3>1 DEF Upgrade
  <2>2. CASE ~ \E revision \in Revisions : Upgrade(revision)
    <3>1. lastInitializedRevision' = lastInitializedRevision
      BY <1>2, <2>2 DEF Next, Stake, Redeem, Cooldown, ClaimRewards, Transfer,
                        ConfigureAssets, DelegateByType, Delegate, Tick, Run, vars
    <3>2. CASE lastInitializedRevision = 1
      <4>1. First!IInv /\ emitted \in Nat /\ asset.emissionPerSecond \in Nat
        BY <1>2, <3>2 DEF UpgradeRewardInv, First!RewardInv, First!IInv, First!SoundAsset,
                          First!TypeOK, First!AssetData
      <4>2. [First!Next]_(First!vars)
        BY <1>2, <3>1, <3>2, <4>1, FirstSteps
      <4> QED
        BY <4>1, <4>2, FirstAssumptions, First!StepWaits, First!StepPostpones
    <3>3. CASE lastInitializedRevision # 1
      <4>1. /\ Later!IInv /\ lastInitializedRevision > 1
            /\ emitted \in Nat /\ backdated \in Nat /\ asset.emissionPerSecond \in Nat
        BY <1>2, <3>3 DEF UpgradeRewardInv, Later!RewardInv, Later!IInv, Later!SoundAsset,
                          Later!TypeOK, Later!AssetData
      <4>2. [Later!Next]_(Later!vars) \/ UNCHANGED tokenVars
        BY <1>2, <2>2, <3>1, <4>1, LaterSteps
      <4>3. CASE [Later!Next]_(Later!vars)
        BY <4>1, <4>3, LaterAssumptions, Later!StepWaits, Later!StepPostpones
      <4> QED
        BY <1>1, <4>1, <4>2, <4>3
    <3> QED
      BY <3>2, <3>3
  <2> QED
    BY <2>1, <2>2
<1>3. UpgradeRewardInv /\ [Next]_vars =>
        [\A u \in Users :
           totalSupply' < totalSupply /\ balances'[u] < balances[u] =>
             activated[u] # 0 /\ now > activated[u] + COOLDOWN_SECONDS]_(V1!vars)
  BY <1>2
<1>4. UpgradeRewardInv /\ [Next]_vars =>
        [\A u \in Users :
           stakersCooldowns'[u] < stakersCooldowns[u] => stakersCooldowns'[u] = 0]_(V1!vars)
  BY <1>2
<1> QED
  BY <1>3, <1>4, UpgradeRewardInvariance, PTL
     DEF Spec, V1!RedeemWaits, V1!CooldownOnlyPostponed
============================================================================
