-------------------- MODULE IncentivesController_proofs --------------------
(***************************************************************************)
(* Proofs about IncentivesController, for any users and assets, any lists  *)
(* a user may claim over, any emissions and any scale: the rewards of the  *)
(* pool stay within what was emitted, no transaction changes what a user   *)
(* has earned, and the view shows what a claim gives.                      *)
(*                                                                         *)
(* WithinEmission is not inductive, for the reason the staked token's      *)
(* solvency is not: the index is rounded down once per update, and a       *)
(* second can move the rounded index by more than its emission.  What is   *)
(* inductive compares, asset by asset, what is due at the last update of   *)
(* the record, with the emission since then (RewardInv).                   *)
(***************************************************************************)
EXTENDS IncentivesController, StakeLemmas

(* The types, the soundness of every record, and supplies that are the sums *)
(* of the balances.                                                         *)
IInv ==
  /\ usersUnclaimedRewards \in [Users -> Nat]
  /\ claimed \in [Users -> Nat]
  /\ emitted \in [Assets -> Nat]
  /\ now \in Nat
  /\ scaledBalances \in [Assets -> [Users -> Nat]]
  /\ scaledTotalSupply \in [Assets -> Nat]
  /\ assets \in [Assets -> AssetData(Users)]
  /\ \A a \in Assets : SoundAsset(assets[a], Users, now)
  /\ \A a \in Assets : scaledTotalSupply[a] = Sum(scaledBalances[a])

(* The index of an asset at this moment. *)
Index(a) == GetAssetIndex(assets[a], scaledTotalSupply[a], now)

(* What an update of the user's record adds to his rewards. *)
Gain(a, u) == PendingOn(a, u) \div SCALE

GainOver(W, u) == Sum([a \in Assets |-> IF a \in W THEN Gain(a, u) ELSE 0])

(* What is owed on an asset, scaled: at the stored index, and by the        *)
(* emission since it was stored.                                            *)
SettledOn(a, u) == scaledBalances[a][u] * (assets[a].index - assets[a].users[u])

Due(a) ==
  Sum([u \in Users |-> SettledOn(a, u)])
    + SCALE * EmissionSince(assets[a], scaledTotalSupply[a], now)

RewardInv ==
  /\ IInv
  /\ SCALE * (Sum(claimed) + Sum(usersUnclaimedRewards)) + Sum([a \in Assets |-> Due(a)])
       <= SCALE * Sum(emitted)

----------------------------------------------------------------------------
(* The quantities of one state. *)
LEMMA AssetTypes ==
  ASSUME IInv, NEW a \in Assets
  PROVE  /\ now \in Nat /\ scaledTotalSupply[a] \in Nat
         /\ SoundAsset(assets[a], Users, now)
         /\ assets[a].index \in Nat /\ Index(a) \in Nat /\ Index(a) >= assets[a].index
         /\ SCALE \in Nat \ {0}
         /\ scaledBalances[a] \in [Users -> Nat]
         /\ \A u \in Users : /\ scaledBalances[a][u] \in Nat
                             /\ assets[a].users[u] \in Nat
                             /\ assets[a].users[u] <= assets[a].index
<1>1. now \in Nat /\ scaledTotalSupply[a] \in Nat /\ SoundAsset(assets[a], Users, now)
  BY DEF IInv
<1>2. Index(a) \in Nat /\ Index(a) >= assets[a].index
  BY <1>1, IndexGrows DEF Index
<1> QED
  BY <1>1, <1>2, DistributionManagerAssumption DEF IInv, SoundAsset, AssetData

LEMMA PendingTypes ==
  ASSUME IInv, NEW a \in Assets, NEW u \in Users
  PROVE  /\ PendingOn(a, u) = scaledBalances[a][u] * (Index(a) - assets[a].users[u])
         /\ PendingOn(a, u) \in Nat /\ SettledOn(a, u) \in Nat /\ Gain(a, u) \in Nat
         /\ SCALE * Gain(a, u) \in Nat /\ SCALE * Gain(a, u) <= PendingOn(a, u)
         /\ PendingOn(a, u) = SettledOn(a, u)
                                + (Index(a) - assets[a].index) * scaledBalances[a][u]
<1> DEFINE b    == scaledBalances[a][u]
           old  == assets[a].index - assets[a].users[u]
           d    == Index(a) - assets[a].index
<1>1. /\ b \in Nat /\ old \in Nat /\ d \in Nat /\ SCALE \in Nat \ {0}
      /\ Index(a) - assets[a].users[u] = old + d
  BY AssetTypes
<1>2. /\ PendingOn(a, u) = b * (Index(a) - assets[a].users[u])
      /\ SettledOn(a, u) = b * old
  BY DEF PendingOn, Index, SettledOn
<1> HIDE DEF b, old, d
<1>3. b * old \in Nat /\ b * d \in Nat /\ b * (old + d) = b * old + b * d /\ b * d = d * b
  BY <1>1, MulNat, MulDist
<1>4. /\ PendingOn(a, u) \in Nat /\ SettledOn(a, u) \in Nat
      /\ PendingOn(a, u) = SettledOn(a, u) + d * b
  BY <1>1, <1>2, <1>3
<1>5. Gain(a, u) \in Nat /\ SCALE * Gain(a, u) \in Nat
  BY <1>1, <1>4, DivNat, MulNat DEF Gain
<1>6. SCALE * Gain(a, u) <= PendingOn(a, u)
  BY <1>1, <1>4, DivBound DEF Gain
<1> QED
  BY <1>2, <1>4, <1>5, <1>6 DEF b, d

(* What everybody would be recorded on an asset now is covered by what is   *)
(* due on it.                                                               *)
LEMMA PendingWithinDue ==
  ASSUME IInv, NEW a \in Assets
  PROVE  /\ [u \in Users |-> PendingOn(a, u)] \in [Users -> Nat]
         /\ Sum([u \in Users |-> PendingOn(a, u)]) \in Nat
         /\ Due(a) \in Nat
         /\ Sum([u \in Users |-> PendingOn(a, u)]) <= Due(a)
<1> DEFINE pending == [u \in Users |-> PendingOn(a, u)]
           settled == [u \in Users |-> SettledOn(a, u)]
           since == EmissionSince(assets[a], scaledTotalSupply[a], now)
           b == scaledBalances[a]
           d == Index(a) - assets[a].index
<1>1. pending \in [Users -> Nat] /\ settled \in [Users -> Nat]
  BY PendingTypes
<1>2. IsFiniteSet(Users) /\ b \in [Users -> Nat] /\ d \in Nat
  BY AssetTypes, IncentivesControllerAssumption
<1>3. pending = [u \in Users |-> settled[u] + d * b[u]]
  BY PendingTypes
<1>4. Sum(b) = scaledTotalSupply[a]
  BY DEF IInv
<1>5. since \in Nat /\ SCALE * since \in Nat /\ d * Sum(b) <= SCALE * since
  <2>1. now \in Nat /\ scaledTotalSupply[a] \in Nat /\ SoundAsset(assets[a], Users, now)
    BY AssetTypes
  <2> QED
    BY <1>4, <2>1, IndexCost DEF Index
<1>6. Due(a) = Sum(settled) + SCALE * since
  BY DEF Due
<1> HIDE DEF pending, settled, since, b, d
<1>7. Sum(pending) = Sum(settled) + d * Sum(b)
  BY <1>1, <1>2, <1>3, SumLinear
<1>8. Sum(settled) \in Nat /\ Sum(pending) \in Nat /\ Sum(b) \in Nat
  BY <1>1, <1>2, SumType
<1>9. d * Sum(b) \in Nat
  BY <1>2, <1>8, MulNat
<1>10. Due(a) \in Nat /\ Sum(pending) <= Due(a)
  BY <1>5, <1>6, <1>7, <1>8, <1>9
<1> QED
  BY <1>1, <1>8, <1>10 DEF pending

(* The invariant covers what is claimed, recorded and pending. *)
LEMMA RewardInvWithin == RewardInv => WithinEmission
<1> SUFFICES ASSUME RewardInv PROVE WithinEmission
  OBVIOUS
<1> DEFINE table == [x \in Assets \X Users |-> PendingOn(x[1], x[2])]
           row(a) == Sum([u \in Users |-> PendingOn(a, u)])
           rows == [a \in Assets |-> row(a)]
           due == [a \in Assets |-> Due(a)]
           paid == SCALE * (Sum(claimed) + Sum(usersUnclaimedRewards))
<1>1. /\ IInv /\ paid + Sum(due) <= SCALE * Sum(emitted)
      /\ IsFiniteSet(Users) /\ IsFiniteSet(Assets)
  BY IncentivesControllerAssumption DEF RewardInv
<1>2. table \in [Assets \X Users -> Nat]
  BY <1>1, PendingTypes
<1>3. \A a \in Assets : [u \in Users |-> table[<<a, u>>]] = [u \in Users |-> PendingOn(a, u)]
  OBVIOUS
<1>4. Sum(table) = Sum(rows)
  <2>1. RowSums(table, Assets, Users) = rows
    BY <1>3 DEF RowSums
  <2>2. IsTable(table, Assets, Users)
    BY <1>2 DEF IsTable
  <2> HIDE DEF table, rows
  <2>3. Sum(table) = Sum(RowSums(table, Assets, Users))
    BY <1>1, <2>2, SumOfRows
  <2> QED
    BY <2>1, <2>3
<1>5. /\ rows \in [Assets -> Nat] /\ due \in [Assets -> Nat]
      /\ \A a \in Assets : rows[a] <= due[a]
  <2>1. \A a \in Assets : row(a) \in Nat /\ Due(a) \in Nat /\ row(a) <= Due(a)
    BY <1>1, PendingWithinDue
  <2> HIDE DEF row
  <2> QED
    BY <2>1
<1>6. Sum(claimed) \in Nat /\ Sum(usersUnclaimedRewards) \in Nat /\ Sum(emitted) \in Nat
  BY <1>1, SumType DEF IInv
<1>7. paid \in Nat /\ SCALE * Sum(emitted) \in Nat
  <2>1. Sum(claimed) + Sum(usersUnclaimedRewards) \in Nat
    BY <1>6
  <2> QED
    BY <1>6, <2>1, MulNat, DistributionManagerAssumption
<1> HIDE DEF table, rows, due, paid
<1>8. Sum(rows) <= Sum(due) /\ Sum(rows) \in Nat /\ Sum(due) \in Nat
  BY <1>1, <1>5, SumMonotone, SumType
<1>9. paid + Sum(table) <= SCALE * Sum(emitted)
  BY <1>1, <1>4, <1>7, <1>8
<1> QED
  BY <1>9 DEF WithinEmission, paid, table

(* At the deployment nothing is deposited, due or emitted. *)
LEMMA InitRewardInv == Init => RewardInv
<1> SUFFICES ASSUME Init PROVE RewardInv
  OBVIOUS
<1>1. DistributionManagerAssumption /\ IncentivesControllerAssumption
  BY DistributionManagerAssumption, IncentivesControllerAssumption
<1>2. InitAssetData(Users) \in AssetData(Users)
  BY DEF InitAssetData, AssetData
<1>3. \A a \in Assets : /\ assets[a] = InitAssetData(Users)
                        /\ scaledBalances[a] = [u \in Users |-> 0]
                        /\ scaledTotalSupply[a] = 0
  BY DEF Init
<1>4. \A a \in Assets : SoundAsset(assets[a], Users, now)
  BY <1>1, <1>2, <1>3 DEF Init, SoundAsset, InitAssetData, IncentivesControllerAssumption
<1>5. \A a \in Assets : scaledTotalSupply[a] = Sum(scaledBalances[a])
  BY <1>3, SumZero
<1>6. IInv
  BY <1>1, <1>2, <1>4, <1>5 DEF Init, IInv, IncentivesControllerAssumption
<1>7. \A a \in Assets : Due(a) = 0
  <2> SUFFICES ASSUME NEW a \in Assets PROVE Due(a) = 0
    OBVIOUS
  <2>1. \A u \in Users : SettledOn(a, u) = 0
    BY <1>3 DEF SettledOn, InitAssetData
  <2>2. Sum([u \in Users |-> SettledOn(a, u)]) = 0
    <3>1. [u \in Users |-> SettledOn(a, u)] = [u \in Users |-> 0]
      BY <2>1
    <3> QED
      BY <3>1, SumZero
  <2>3. EmissionSince(assets[a], scaledTotalSupply[a], now) = 0
    BY <1>3 DEF EmissionSince
  <2> QED
    BY <2>2, <2>3, DistributionManagerAssumption DEF Due
<1>8. Sum([a \in Assets |-> Due(a)]) = 0
  <2>1. [a \in Assets |-> Due(a)] = [a \in Assets |-> 0]
    BY <1>7
  <2> QED
    BY <2>1, SumZero
<1>9. Sum(claimed) = 0 /\ Sum(usersUnclaimedRewards) = 0 /\ Sum(emitted) = 0
  BY SumZero DEF Init
<1> QED
  BY <1>6, <1>8, <1>9, DistributionManagerAssumption DEF RewardInv

----------------------------------------------------------------------------
(***************************************************************************)
(* A claim over a list.  What the loop of _claimRewards makes of the       *)
(* records depends on the assets it has met, not on their order nor on     *)
(* their repetitions: a second update in the block finds the user's index  *)
(* at the index of the asset.                                              *)
(***************************************************************************)

(* The assets met in the first i steps. *)
Met(list, i) == {list[j] : j \in 1..i}

(* The records once the user is up to date on the assets of W. *)
Updated(a, user) == UpdateUserAsset(assets[a], user, scaledTotalSupply[a], now)

RecordsAfter(W, user) ==
  [a \in Assets |-> IF a \in W THEN Updated(a, user) ELSE assets[a]]

(* One turn of the loop. *)
ClaimStep(user, list, f, i) ==
  IF i = 0 THEN [records |-> assets, accrued |-> 0]
  ELSE LET records == f[i - 1].records
           a       == list[i]
       IN  [records |-> [records EXCEPT ![a] =
                           UpdateUserAsset(@, user, scaledTotalSupply[a], now)],
            accrued |-> f[i - 1].accrued
                          + AccruedRewards(records[a], user, scaledBalances[a][user],
                                           scaledTotalSupply[a], now)]

(* One turn of the loop of the view. *)
ViewStep(user, list, f, i) ==
  IF i = 0 THEN 0
  ELSE f[i - 1] + GetUnclaimedRewards(assets[list[i]], user,
                                      scaledBalances[list[i]][user],
                                      scaledTotalSupply[list[i]], now)

LEMMA MetOneMore ==
  ASSUME NEW list \in Seq(Assets)
  PROVE  /\ Met(list, 0) = {}
         /\ Met(list, Len(list)) \in SUBSET Assets
         /\ \A i \in 1..Len(list) : /\ Met(list, i) = Met(list, i - 1) \cup {list[i]}
                                    /\ Met(list, i - 1) \in SUBSET Assets
                                    /\ list[i] \in Assets
<1>1. Len(list) \in Nat /\ \A i \in 1..Len(list) : list[i] \in Assets
  OBVIOUS
<1>2. \A i \in 1..Len(list) : 1..i = (1..(i - 1)) \cup {i}
  OBVIOUS
<1>3. \A i \in 1..Len(list) : Met(list, i) = Met(list, i - 1) \cup {list[i]}
  <2> SUFFICES ASSUME NEW i \in 1..Len(list)
               PROVE  Met(list, i) = Met(list, i - 1) \cup {list[i]}
    OBVIOUS
  <2> QED
    BY <1>2 DEF Met
<1>4. \A i \in 0..Len(list) : Met(list, i) \in SUBSET Assets
  <2> SUFFICES ASSUME NEW i \in 0..Len(list), NEW j \in 1..i PROVE list[j] \in Assets
    BY DEF Met
  <2> QED
    BY <1>1
<1> QED
  BY <1>1, <1>3, <1>4 DEF Met

(* Over no assets there is no gain. *)
LEMMA NoGain ==
  ASSUME NEW user
  PROVE  GainOver({}, user) = 0
<1>1. [b \in Assets |-> IF b \in {} THEN Gain(b, user) ELSE 0] = [b \in Assets |-> 0]
  OBVIOUS
<1> QED
  BY <1>1, SumZero DEF GainOver

(* What the sum of gains makes of one more asset. *)
LEMMA GainOneMore ==
  ASSUME IInv, NEW user \in Users, NEW W \in SUBSET Assets, NEW a \in Assets
  PROVE  /\ GainOver({}, user) = 0
         /\ GainOver(W, user) \in Nat
         /\ a \notin W => GainOver(W \cup {a}, user) = GainOver(W, user) + Gain(a, user)
<1> DEFINE f == [b \in Assets |-> IF b \in W THEN Gain(b, user) ELSE 0]
           g == [b \in Assets |-> IF b \in W \cup {a} THEN Gain(b, user) ELSE 0]
<1>1. \A b \in Assets : Gain(b, user) \in Nat
  BY PendingTypes
<1>2. f \in [Assets -> Nat] /\ g \in [Assets -> Nat] /\ IsFiniteSet(Assets)
  BY <1>1, IncentivesControllerAssumption
<1>3. GainOver({}, user) = 0
  BY NoGain
<1>4. /\ \A b \in Assets \ {a} : g[b] = f[b]
      /\ g[a] = Gain(a, user) /\ (a \notin W => f[a] = 0)
  OBVIOUS
<1>5. GainOver(W, user) = Sum(f) /\ GainOver(W \cup {a}, user) = Sum(g)
  BY DEF GainOver
<1> HIDE DEF f, g
<1>6. Sum(g) + f[a] = Sum(f) + g[a] /\ Sum(f) \in Nat /\ Sum(g) \in Nat
  BY <1>2, <1>4, SumChange, SumType
<1> QED
  BY <1>1, <1>3, <1>4, <1>5, <1>6

(* What the code computes for one asset is the gain. *)
LEMMA GainIsAccrued ==
  ASSUME IInv, NEW user \in Users, NEW a \in Assets
  PROVE  /\ AccruedRewards(assets[a], user, scaledBalances[a][user], scaledTotalSupply[a], now)
              = Gain(a, user)
         /\ GetUnclaimedRewards(assets[a], user, scaledBalances[a][user],
                                scaledTotalSupply[a], now) = Gain(a, user)
<1> DEFINE r == assets[a]
           total == scaledTotalSupply[a]
<1>1. now \in Nat /\ total \in Nat /\ SoundAsset(r, Users, now)
  BY AssetTypes
<1> HIDE DEF r, total
<1>2. UpdateAssetState(r, total, now).index = GetAssetIndex(r, total, now)
  BY <1>1, UpdateAssetStateSound
<1> QED
  BY <1>2 DEF r, total, AccruedRewards, GetUnclaimedRewards, GetRewards, Gain, PendingOn

(* A record in which the user is up to date. *)
LEMMA UpdatedTwice ==
  ASSUME IInv, NEW user \in Users, NEW a \in Assets
  PROVE  /\ BroughtUpToDate(Updated(a, user), assets[a], user, Users, Index(a), now)
         /\ UpdateUserAsset(Updated(a, user), user, scaledTotalSupply[a], now)
              = Updated(a, user)
         /\ AccruedRewards(Updated(a, user), user, scaledBalances[a][user],
                           scaledTotalSupply[a], now) = 0
<1> DEFINE r == Updated(a, user)
<1>1. now \in Nat /\ scaledTotalSupply[a] \in Nat /\ SoundAsset(assets[a], Users, now)
  BY AssetTypes
<1>2. BroughtUpToDate(r, assets[a], user, Users, Index(a), now)
  BY <1>1, UpdateUserAssetSound DEF Index, Updated
<1> HIDE DEF r
<1>3. /\ SoundAsset(r, Users, now) /\ r.index = Index(a) /\ r.users[user] = Index(a)
      /\ r.lastUpdateTimestamp = now
  BY <1>2 DEF BroughtUpToDate
<1>4. UpdateAssetState(r, scaledTotalSupply[a], now) = r
  BY <1>3 DEF UpdateAssetState
<1>5. UpdateUserAsset(r, user, scaledTotalSupply[a], now) = r
  <2>1. UpdateUserAsset(r, user, scaledTotalSupply[a], now)
          = [r EXCEPT !.users[user] = r.index]
    BY <1>4 DEF UpdateUserAsset
  <2>2. r \in AssetData(Users)
    BY <1>3 DEF SoundAsset
  <2>3. r.users \in [Users -> Nat] /\ r.index = r.users[user]
    BY <1>3, <2>2 DEF AssetData
  <2>4. [r.users EXCEPT ![user] = r.index] = r.users
    BY <2>3
  <2>5. [r EXCEPT !.users[user] = r.index]
          = [r EXCEPT !.users = [r.users EXCEPT ![user] = r.index]]
    BY <2>2 DEF AssetData
  <2>6. [r EXCEPT !.users = r.users] = r
    BY <2>2 DEF AssetData
  <2> QED
    BY <2>1, <2>4, <2>5, <2>6
<1>6. AccruedRewards(r, user, scaledBalances[a][user], scaledTotalSupply[a], now) = 0
  <2>1. AccruedRewards(r, user, scaledBalances[a][user], scaledTotalSupply[a], now)
          = (scaledBalances[a][user] * (Index(a) - Index(a))) \div SCALE
    BY <1>3, <1>4 DEF AccruedRewards, GetRewards
  <2>2. scaledBalances[a][user] \in Nat /\ Index(a) \in Nat /\ SCALE \in Nat \ {0}
    BY AssetTypes
  <2>3. scaledBalances[a][user] * (Index(a) - Index(a)) = 0
    BY <2>2
  <2>4. 0 \div SCALE = 0
    BY <2>2
  <2> QED
    BY <2>1, <2>3, <2>4
<1> QED
  BY <1>2, <1>5, <1>6 DEF r

(* One turn of the loop adds its asset to those met. *)
LEMMA ClaimOne ==
  ASSUME IInv, NEW user \in Users, NEW W \in SUBSET Assets, NEW a \in Assets
  PROVE  LET records == RecordsAfter(W, user)
         IN  /\ [records EXCEPT ![a] = UpdateUserAsset(@, user, scaledTotalSupply[a], now)]
                  = RecordsAfter(W \cup {a}, user)
             /\ GainOver(W, user) + AccruedRewards(records[a], user, scaledBalances[a][user],
                                                   scaledTotalSupply[a], now)
                  = GainOver(W \cup {a}, user)
<1> DEFINE records == RecordsAfter(W, user)
           next == UpdateUserAsset(records[a], user, scaledTotalSupply[a], now)
           accrued == AccruedRewards(records[a], user, scaledBalances[a][user],
                                     scaledTotalSupply[a], now)
<1>1. records[a] = IF a \in W THEN Updated(a, user) ELSE assets[a]
  BY DEF RecordsAfter
<1>2. next = Updated(a, user)
  BY <1>1, UpdatedTwice DEF Updated
<1>3. accrued = IF a \in W THEN 0 ELSE Gain(a, user)
  BY <1>1, UpdatedTwice, GainIsAccrued
<1> HIDE DEF next, accrued
<1>4. [records EXCEPT ![a] = next] = RecordsAfter(W \cup {a}, user)
  BY <1>2 DEF RecordsAfter
<1>5. GainOver(W, user) + accrued = GainOver(W \cup {a}, user)
  <2>1. CASE a \in W
    <3>1. W \cup {a} = W
      BY <2>1
    <3>2. GainOver(W \cup {a}, user) = GainOver(W, user)
      BY <3>1, Zenon
    <3>3. GainOver(W, user) \in Nat
      BY GainOneMore
    <3> QED
      BY <1>3, <2>1, <3>2, <3>3
  <2>2. CASE a \notin W
    BY <1>3, <2>2, GainOneMore
  <2> QED
    BY <2>1, <2>2
<1> QED
  BY <1>4, <1>5 DEF next, accrued

(* A claim over a list brings the user up to date on the assets it names,   *)
(* and accrues the gain on each of them once.                               *)
LEMMA ClaimOverMet ==
  ASSUME IInv, NEW user \in Users, NEW list \in Seq(Assets)
  PROVE  LET W == Met(list, Len(list))
         IN  /\ W \in SUBSET Assets
             /\ ClaimOver(user, list).records = RecordsAfter(W, user)
             /\ ClaimOver(user, list).accrued = GainOver(W, user)
<1> DEFINE n == Len(list)
           D(f, i) == ClaimStep(user, list, f, i)
           after == CHOOSE f : f = [i \in 0..n |-> D(f, i)]
           W(i) == Met(list, i)
           result(i) == [records |-> RecordsAfter(W(i), user), accrued |-> GainOver(W(i), user)]
           g == [i \in 0..n |-> result(i)]
<1>1. ClaimOver(user, list) = after[n]
  BY DEF ClaimOver, ClaimStep
<1>2. n \in Nat
  OBVIOUS
<1>3. /\ W(0) = {} /\ W(n) \in SUBSET Assets
      /\ \A i \in 1..n : W(i) = W(i - 1) \cup {list[i]} /\ W(i - 1) \in SUBSET Assets
                         /\ list[i] \in Assets
  BY MetOneMore
<1> HIDE DEF W
<1>4. \A i \in 0..n : g[i] = result(i)
  OBVIOUS
<1>5. \A f : D(f, 0) = result(0)
  <2>1. RecordsAfter({}, user) = assets
    <3>1. assets \in [Assets -> AssetData(Users)]
      BY DEF IInv
    <3> QED
      BY <3>1 DEF RecordsAfter
  <2>2. GainOver({}, user) = 0
    BY NoGain
  <2> QED
    BY <1>3, <2>1, <2>2 DEF ClaimStep
<1>6. \A f : \A i \in 1..n : f[i - 1] = result(i - 1) => D(f, i) = result(i)
  <2> SUFFICES ASSUME NEW f, NEW i \in 1..n, f[i - 1] = result(i - 1)
               PROVE  D(f, i) = result(i)
    OBVIOUS
  <2> DEFINE a == list[i]
             V == W(i - 1)
             records == RecordsAfter(V, user)
             next == [records EXCEPT ![a] = UpdateUserAsset(@, user, scaledTotalSupply[a], now)]
             more == GainOver(V, user) + AccruedRewards(records[a], user,
                                                        scaledBalances[a][user],
                                                        scaledTotalSupply[a], now)
  <2>1. a \in Assets /\ V \in SUBSET Assets /\ W(i) = V \cup {a}
    BY <1>3
  <2>2. f[i - 1].records = records /\ f[i - 1].accrued = GainOver(V, user)
    OBVIOUS
  <2>3. i # 0
    OBVIOUS
  <2>4. D(f, i) = [records |-> next, accrued |-> more]
    BY <2>2, <2>3 DEF ClaimStep
  <2>5. next = RecordsAfter(V \cup {a}, user) /\ more = GainOver(V \cup {a}, user)
    <3> HIDE DEF a, V
    <3> QED
      BY <2>1, ClaimOne
  <2> HIDE DEF next, more
  <2> QED
    BY <2>1, <2>4, <2>5
<1> HIDE DEF D, g, result, n
<1>7. \A i \in 0..n : D(g, i) = result(i)
  <2> SUFFICES ASSUME NEW i \in 0..n PROVE D(g, i) = result(i)
    OBVIOUS
  <2>1. CASE i = 0
    BY <1>5, <2>1
  <2>2. CASE i # 0
    <3>1. i \in 1..n /\ i - 1 \in 0..n
      BY <1>2, <2>2
    <3> QED
      BY <1>4, <1>6, <3>1
  <2> QED
    BY <2>1, <2>2
<1>8. g = [i \in 0..n |-> D(g, i)]
  BY <1>7 DEF g
<1>9. after = [i \in 0..n |-> D(after, i)]
  <2>1. \E f : f = [i \in 0..n |-> D(f, i)]
    BY <1>8
  <2> QED
    BY <2>1
<1> HIDE DEF after
<1>10. \A i \in 0..n : after[i] = D(after, i)
  BY <1>9
<1>11. after[n] = result(n)
  <2> DEFINE N == {i \in Nat : i <= n => after[i] = result(i)}
  <2>1. 0 \in N
    BY <1>2, <1>5, <1>10
  <2>2. ASSUME NEW i \in N PROVE i + 1 \in N
    <3>1. i \in Nat /\ i + 1 \in Nat /\ (i <= n => after[i] = result(i))
      OBVIOUS
    <3>2. ASSUME i + 1 <= n PROVE after[i + 1] = result(i + 1)
      <4>1. i + 1 \in 1..n /\ i + 1 \in 0..n /\ (i + 1) - 1 = i /\ i <= n
        BY <1>2, <3>1, <3>2
      <4>2. after[(i + 1) - 1] = result((i + 1) - 1)
        BY <3>1, <4>1
      <4>3. D(after, i + 1) = result(i + 1)
        BY <1>6, <4>1, <4>2
      <4> QED
        BY <1>10, <4>1, <4>3
    <3> QED
      BY <3>1, <3>2
  <2>3. N = Nat
    <3> HIDE DEF N
    <3>1. N \in SUBSET Nat
      BY DEF N
    <3> QED
      BY <2>1, <2>2, <3>1, SetInduction
  <2> QED
    BY <1>2, <2>3
<1> QED
  BY <1>1, <1>3, <1>11 DEF result, n, W

(* The view over a list without repetitions sums the same gains. *)
LEMMA ViewOverMet ==
  ASSUME IInv, NEW user \in Users, NEW list \in Seq(Assets),
         \A i, j \in DOMAIN list : list[i] = list[j] => i = j
  PROVE  GetUnclaimedRewardsOver(list, user) = GainOver(Met(list, Len(list)), user)
<1> DEFINE n == Len(list)
           D(f, i) == ViewStep(user, list, f, i)
           sum == CHOOSE f : f = [i \in 0..n |-> D(f, i)]
           W(i) == Met(list, i)
           result(i) == GainOver(W(i), user)
           g == [i \in 0..n |-> result(i)]
<1>1. GetUnclaimedRewardsOver(list, user) = sum[n]
  BY DEF GetUnclaimedRewardsOver, ViewStep
<1>2. n \in Nat
  OBVIOUS
<1>3. /\ W(0) = {}
      /\ \A i \in 1..n : /\ W(i) = W(i - 1) \cup {list[i]} /\ W(i - 1) \in SUBSET Assets
                         /\ list[i] \in Assets
  BY MetOneMore
<1>4. \A i \in 1..n : list[i] \notin W(i - 1)
  <2> SUFFICES ASSUME NEW i \in 1..n, NEW j \in 1..(i - 1), list[i] = list[j] PROVE FALSE
    BY DEF Met
  <2>1. i \in DOMAIN list /\ j \in DOMAIN list /\ i # j
    OBVIOUS
  <2> QED
    BY <2>1
<1> HIDE DEF W
<1>5. \A i \in 0..n : g[i] = result(i)
  OBVIOUS
<1>6. \A f : D(f, 0) = result(0)
  <2>1. GainOver({}, user) = 0
    BY NoGain
  <2> QED
    BY <1>3, <2>1 DEF ViewStep
<1>7. \A f : \A i \in 1..n : f[i - 1] = result(i - 1) => D(f, i) = result(i)
  <2> SUFFICES ASSUME NEW f, NEW i \in 1..n, f[i - 1] = result(i - 1)
               PROVE  D(f, i) = result(i)
    OBVIOUS
  <2> DEFINE a == list[i]
             V == W(i - 1)
  <2>1. a \in Assets /\ V \in SUBSET Assets /\ W(i) = V \cup {a} /\ a \notin V /\ i # 0
    BY <1>3, <1>4
  <2>2. D(f, i) = GainOver(V, user)
                    + GetUnclaimedRewards(assets[a], user, scaledBalances[a][user],
                                          scaledTotalSupply[a], now)
    BY <2>1 DEF ViewStep
  <2> HIDE DEF a, V
  <2>3. D(f, i) = GainOver(V, user) + Gain(a, user)
    BY <2>1, <2>2, GainIsAccrued
  <2>4. GainOver(V \cup {a}, user) = GainOver(V, user) + Gain(a, user)
    BY <2>1, GainOneMore
  <2> QED
    BY <2>1, <2>3, <2>4
<1> HIDE DEF D, g, result, n
<1>8. \A i \in 0..n : D(g, i) = result(i)
  <2> SUFFICES ASSUME NEW i \in 0..n PROVE D(g, i) = result(i)
    OBVIOUS
  <2>1. CASE i = 0
    BY <1>6, <2>1
  <2>2. CASE i # 0
    <3>1. i \in 1..n /\ i - 1 \in 0..n
      BY <1>2, <2>2
    <3> QED
      BY <1>5, <1>7, <3>1
  <2> QED
    BY <2>1, <2>2
<1>9. g = [i \in 0..n |-> D(g, i)]
  BY <1>8 DEF g
<1>10. sum = [i \in 0..n |-> D(sum, i)]
  <2>1. \E f : f = [i \in 0..n |-> D(f, i)]
    BY <1>9
  <2> QED
    BY <2>1
<1> HIDE DEF sum
<1>11. \A i \in 0..n : sum[i] = D(sum, i)
  BY <1>10
<1>12. sum[n] = result(n)
  <2> DEFINE N == {i \in Nat : i <= n => sum[i] = result(i)}
  <2>1. 0 \in N
    BY <1>2, <1>6, <1>11
  <2>2. ASSUME NEW i \in N PROVE i + 1 \in N
    <3>1. i \in Nat /\ i + 1 \in Nat /\ (i <= n => sum[i] = result(i))
      OBVIOUS
    <3>2. ASSUME i + 1 <= n PROVE sum[i + 1] = result(i + 1)
      <4>1. i + 1 \in 1..n /\ i + 1 \in 0..n /\ (i + 1) - 1 = i /\ i <= n
        BY <1>2, <3>1, <3>2
      <4>2. sum[(i + 1) - 1] = result((i + 1) - 1)
        BY <3>1, <4>1
      <4>3. D(sum, i + 1) = result(i + 1)
        BY <1>7, <4>1, <4>2
      <4> QED
        BY <1>11, <4>1, <4>3
    <3> QED
      BY <3>1, <3>2
  <2>3. N = Nat
    <3> HIDE DEF N
    <3>1. N \in SUBSET Nat
      BY DEF N
    <3> QED
      BY <2>1, <2>2, <3>1, SetInduction
  <2> QED
    BY <1>2, <2>3
<1> QED
  BY <1>1, <1>12 DEF result, n, W

(* The invariant makes the view right. *)
LEMMA InvView == IInv => ViewIsWhatAClaimGives
<1> SUFFICES ASSUME IInv, NEW u \in Users, NEW list \in AssetLists,
                    \A i, j \in DOMAIN list : list[i] = list[j] => i = j
             PROVE  GetRewardsBalance(list, u)
                      = usersUnclaimedRewards[u] + ClaimOver(u, list).accrued
  BY DEF ViewIsWhatAClaimGives
<1>1. list \in Seq(Assets)
  BY IncentivesControllerAssumption
<1>2. GetUnclaimedRewardsOver(list, u) = GainOver(Met(list, Len(list)), u)
  BY <1>1, ViewOverMet
<1>3. ClaimOver(u, list).accrued = GainOver(Met(list, Len(list)), u)
  BY <1>1, ClaimOverMet
<1> QED
  BY <1>2, <1>3 DEF GetRewardsBalance

----------------------------------------------------------------------------
(***************************************************************************)
(* A transaction that brings the records of C up to date, and user on the  *)
(* assets W of them.  A deposit, a withdrawal and a claim are of this      *)
(* form with W = C; a change of emission has no user.                      *)
(***************************************************************************)

(* What the user is recorded. *)
Recorded(W, user, u) == IF u = user THEN GainOver(W, user) ELSE 0

Settles(user, W, C) ==
  /\ W \subseteq C /\ C \subseteq Assets /\ (user \in Users \/ W = {})
  /\ now' = now /\ emitted' = emitted
  /\ \A a \in C :
       /\ assets'[a].index = Index(a)
       /\ assets'[a].lastUpdateTimestamp = now
       /\ \A u \in Users : assets'[a].users[u] = IF a \in W /\ u = user THEN Index(a)
                                                 ELSE assets[a].users[u]
  /\ \A a \in Assets \ C : assets'[a] = assets[a]
  /\ \A a \in Assets : \A u \in Users :
       (a \in W /\ u = user) \/ scaledBalances'[a][u] = scaledBalances[a][u]
  /\ \A a \in Assets \ W : scaledTotalSupply'[a] = scaledTotalSupply[a]
  /\ \A u \in Users :
       claimed'[u] + usersUnclaimedRewards'[u]
         = claimed[u] + usersUnclaimedRewards[u] + Recorded(W, user, u)

(* Nothing is pending any more for the user on W, and elsewhere what was    *)
(* pending still is.                                                        *)
LEMMA PendingAfter ==
  ASSUME IInv, IInv', NEW user, NEW W, NEW C, Settles(user, W, C),
         NEW a \in Assets, NEW u \in Users
  PROVE  PendingOn(a, u)' = IF a \in W /\ u = user THEN 0 ELSE PendingOn(a, u)
<1>1. now' = now /\ (a \in W => a \in C)
  BY DEF Settles
<1>2. PendingOn(a, u)' = scaledBalances'[a][u]
        * (GetAssetIndex(assets'[a], scaledTotalSupply'[a], now) - assets'[a].users[u])
  BY <1>1 DEF PendingOn
<1>3. PendingOn(a, u) = scaledBalances[a][u] * (Index(a) - assets[a].users[u])
  BY PendingTypes
<1>4. Index(a) \in Nat /\ scaledBalances'[a][u] \in Nat
  BY AssetTypes DEF IInv
<1>5. CASE a \in C
  <2>1. /\ assets'[a].index = Index(a) /\ assets'[a].lastUpdateTimestamp = now
        /\ assets'[a].users[u] = IF a \in W /\ u = user THEN Index(a) ELSE assets[a].users[u]
    BY <1>5 DEF Settles
  <2>2. GetAssetIndex(assets'[a], scaledTotalSupply'[a], now) = Index(a)
    BY <2>1 DEF GetAssetIndex
  <2>3. CASE a \in W /\ u = user
    <3>1. PendingOn(a, u)' = scaledBalances'[a][u] * (Index(a) - Index(a))
      BY <1>2, <2>1, <2>2, <2>3
    <3> QED
      BY <1>4, <2>3, <3>1
  <2>4. CASE ~(a \in W /\ u = user)
    <3>1. scaledBalances'[a][u] = scaledBalances[a][u]
      BY <2>4 DEF Settles
    <3> QED
      BY <1>2, <1>3, <2>1, <2>2, <2>4, <3>1
  <2> QED
    BY <2>3, <2>4
<1>6. CASE a \notin C
  <2>1. /\ a \notin W /\ assets'[a] = assets[a]
        /\ scaledTotalSupply'[a] = scaledTotalSupply[a]
        /\ scaledBalances'[a][u] = scaledBalances[a][u]
    BY <1>1, <1>6 DEF Settles
  <2> QED
    BY <1>2, <1>3, <2>1 DEF Index
<1> QED
  BY <1>5, <1>6

(* What is due falls at least by what the user is recorded. *)
LEMMA DueAfter ==
  ASSUME IInv, IInv', NEW user, NEW W, NEW C, Settles(user, W, C), NEW a \in Assets
  PROVE  /\ Due(a)' \in Nat
         /\ a \in W => SCALE * Gain(a, user) \in Nat
                       /\ Due(a)' + SCALE * Gain(a, user) <= Due(a)
         /\ a \notin W => Due(a)' <= Due(a)
<1> DEFINE before == [u \in Users |-> PendingOn(a, u)]
           after == [u \in Users |-> PendingOn(a, u)']
<1>1. before \in [Users -> Nat] /\ Sum(before) \in Nat /\ Due(a) \in Nat /\ Sum(before) <= Due(a)
  BY PendingWithinDue
<1>2. (IInv => /\ [u \in Users |-> PendingOn(a, u)] \in [Users -> Nat]
               /\ Sum([u \in Users |-> PendingOn(a, u)]) \in Nat /\ Due(a) \in Nat)'
  BY PendingWithinDue, PTL
<1>3. after \in [Users -> Nat] /\ Sum(after) \in Nat /\ Due(a)' \in Nat
  BY <1>2
<1>4. \A u \in Users : after[u] = IF a \in W /\ u = user THEN 0 ELSE before[u]
  BY PendingAfter
<1>5. W \subseteq C /\ now' = now
  BY DEF Settles
<1>6. CASE a \in C
  <2>1. assets'[a].index = Index(a) /\ assets'[a].lastUpdateTimestamp = now
    BY <1>6 DEF Settles
  <2>2. EmissionSince(assets[a], scaledTotalSupply[a], now)' = 0
    <3>1. now \in Nat /\ DISTRIBUTION_END \in Nat /\ assets'[a].emissionPerSecond \in Nat
      BY DistributionManagerAssumption DEF IInv, AssetData
    <3>2. now' = now /\ assets'[a].lastUpdateTimestamp = now
      BY <1>5, <2>1
    <3> QED
      BY <3>1, <3>2 DEF EmissionSince, Earlier
  <2>3. \A u \in Users : SettledOn(a, u)' = PendingOn(a, u)'
    <3> SUFFICES ASSUME NEW u \in Users PROVE SettledOn(a, u)' = PendingOn(a, u)'
      OBVIOUS
    <3>1. GetAssetIndex(assets'[a], scaledTotalSupply'[a], now') = assets'[a].index
      BY <1>5, <2>1 DEF GetAssetIndex
    <3> QED
      BY <3>1 DEF SettledOn, PendingOn
  <2>4. Due(a)' = Sum(after)
    <3>1. [u \in Users |-> SettledOn(a, u)'] = after
      BY <2>3
    <3>2. Due(a)' = Sum([u \in Users |-> SettledOn(a, u)'])
                      + SCALE * EmissionSince(assets[a], scaledTotalSupply[a], now)'
      BY DEF Due
    <3> HIDE DEF after
    <3> QED
      BY <1>3, <2>2, <3>1, <3>2, DistributionManagerAssumption
  <2>5. CASE a \in W
    <3>1. user \in Users
      BY <2>5 DEF Settles
    <3>2. after[user] = 0 /\ before[user] = PendingOn(a, user)
      BY <1>4, <2>5, <3>1
    <3>3. \A u \in Users \ {user} : after[u] = before[u]
      BY <1>4
    <3>4. /\ SCALE * Gain(a, user) \in Nat /\ SCALE * Gain(a, user) <= PendingOn(a, user)
          /\ PendingOn(a, user) \in Nat
      BY <3>1, PendingTypes
    <3> HIDE DEF before, after
    <3>5. Sum(after) + before[user] = Sum(before) + after[user]
      BY <1>1, <1>3, <3>1, <3>3, SumChange, IncentivesControllerAssumption
    <3>6. Due(a)' + SCALE * Gain(a, user) <= Due(a)
      BY <1>1, <1>3, <2>4, <3>2, <3>4, <3>5
    <3> QED
      BY <1>3, <2>5, <3>4, <3>6
  <2>6. CASE a \notin W
    <3>1. after = before
      BY <1>4, <2>6
    <3> QED
      BY <1>1, <1>3, <2>4, <2>6, <3>1
  <2> QED
    BY <2>5, <2>6
<1>7. CASE a \notin C
  <2>1. /\ a \notin W /\ assets'[a] = assets[a]
        /\ scaledTotalSupply'[a] = scaledTotalSupply[a]
        /\ \A u \in Users : scaledBalances'[a][u] = scaledBalances[a][u]
    BY <1>5, <1>7 DEF Settles
  <2>2. [u \in Users |-> SettledOn(a, u)'] = [u \in Users |-> SettledOn(a, u)]
    BY <2>1 DEF SettledOn
  <2>3. Due(a)' = Due(a)
    <3>1. Due(a)' = Sum([u \in Users |-> SettledOn(a, u)'])
                      + SCALE * EmissionSince(assets'[a], scaledTotalSupply'[a], now')
      BY DEF Due
    <3>2. Due(a) = Sum([u \in Users |-> SettledOn(a, u)])
                      + SCALE * EmissionSince(assets[a], scaledTotalSupply[a], now)
      BY DEF Due
    <3> QED
      BY <1>5, <2>1, <2>2, <3>1, <3>2
  <2> QED
    BY <1>1, <1>3, <2>1, <2>3
<1> QED
  BY <1>6, <1>7

(* What is claimed and recorded grows by the gain of the user. *)
LEMMA RecordedAfter ==
  ASSUME IInv, IInv', NEW user, NEW W, NEW C, Settles(user, W, C)
  PROVE  /\ GainOver(W, user) \in Nat
         /\ Sum(claimed)' + Sum(usersUnclaimedRewards)'
              = Sum(claimed) + Sum(usersUnclaimedRewards) + GainOver(W, user)
<1> DEFINE before == [u \in Users |-> claimed[u] + usersUnclaimedRewards[u]]
           after == [u \in Users |-> claimed'[u] + usersUnclaimedRewards'[u]]
<1>1. /\ claimed \in [Users -> Nat] /\ usersUnclaimedRewards \in [Users -> Nat]
      /\ claimed' \in [Users -> Nat] /\ usersUnclaimedRewards' \in [Users -> Nat]
      /\ IsFiniteSet(Users)
  BY IncentivesControllerAssumption DEF IInv
<1>2. Sum(before) = Sum(claimed) + Sum(usersUnclaimedRewards)
  BY <1>1, SumAdd
<1>3. Sum(after) = Sum(claimed') + Sum(usersUnclaimedRewards')
  BY <1>1, SumAdd
<1>4. before \in [Users -> Nat] /\ after \in [Users -> Nat]
  BY <1>1
<1>5. \A u \in Users : after[u] = before[u] + Recorded(W, user, u)
  BY DEF Settles
<1>6. W \in SUBSET Assets
  BY DEF Settles
<1> HIDE DEF before, after
<1>7. Sum(before) \in Nat /\ Sum(after) \in Nat
  BY <1>1, <1>4, SumType
<1>8. CASE user \in Users
  <2>1. GainOver(W, user) \in Nat
    <3>1. \A a \in Assets : Gain(a, user) \in Nat
      BY <1>8, PendingTypes
    <3> DEFINE f == [a \in Assets |-> IF a \in W THEN Gain(a, user) ELSE 0]
    <3>2. f \in [Assets -> Nat] /\ IsFiniteSet(Assets)
      BY <3>1, IncentivesControllerAssumption
    <3>3. GainOver(W, user) = Sum(f)
      BY DEF GainOver
    <3> HIDE DEF f
    <3> QED
      BY <3>2, <3>3, SumType
  <2>2. \A u \in Users \ {user} : after[u] = before[u]
    BY <1>4, <1>5 DEF Recorded
  <2>3. after[user] = before[user] + GainOver(W, user)
    BY <1>5, <1>8 DEF Recorded
  <2>4. Sum(after) + before[user] = Sum(before) + after[user]
    BY <1>1, <1>4, <1>8, <2>2, SumChange
  <2>5. before[user] \in Nat /\ after[user] \in Nat
    BY <1>4, <1>8
  <2>6. Sum(after) = Sum(before) + GainOver(W, user)
    BY <1>7, <2>1, <2>3, <2>4, <2>5
  <2> QED
    BY <1>2, <1>3, <2>1, <2>6
<1>9. CASE user \notin Users
  <2>1. W = {}
    BY <1>9 DEF Settles
  <2>2. GainOver(W, user) = 0
    <3>1. [a \in Assets |-> IF a \in W THEN Gain(a, user) ELSE 0] = [a \in Assets |-> 0]
      BY <2>1
    <3> QED
      BY <3>1, SumZero DEF GainOver
  <2>3. after = before
    BY <1>4, <1>5, <1>9 DEF Recorded
  <2> QED
    BY <1>2, <1>3, <1>7, <2>2, <2>3
<1> QED
  BY <1>8, <1>9

(* Such a transaction keeps the invariant. *)
LEMMA SettleStep ==
  ASSUME RewardInv, IInv', NEW user, NEW W, NEW C, Settles(user, W, C)
  PROVE  RewardInv'
<1> DEFINE before == [a \in Assets |-> Due(a)]
           after == [a \in Assets |-> Due(a)']
           gain == [a \in Assets |-> IF a \in W THEN Gain(a, user) ELSE 0]
           both == [a \in Assets |-> after[a] + SCALE * gain[a]]
           paid == Sum(claimed) + Sum(usersUnclaimedRewards)
           paidAfter == Sum(claimed') + Sum(usersUnclaimedRewards')
<1>1. IInv /\ SCALE * paid + Sum(before) <= SCALE * Sum(emitted)
  BY DEF RewardInv
<1>2. IsFiniteSet(Assets) /\ SCALE \in Nat /\ emitted' = emitted
  BY IncentivesControllerAssumption, DistributionManagerAssumption DEF Settles
<1>3. paidAfter = paid + GainOver(W, user) /\ GainOver(W, user) \in Nat
  BY <1>1, RecordedAfter
<1>4. /\ before \in [Assets -> Nat] /\ after \in [Assets -> Nat] /\ gain \in [Assets -> Nat]
      /\ \A a \in Assets : both[a] \in Nat /\ both[a] <= before[a]
  <2>1. ASSUME NEW a \in Assets
        PROVE  /\ Due(a) \in Nat /\ Due(a)' \in Nat /\ gain[a] \in Nat
               /\ both[a] \in Nat /\ both[a] <= before[a]
    <3>1. /\ Due(a)' \in Nat
          /\ a \in W => SCALE * Gain(a, user) \in Nat
                        /\ Due(a)' + SCALE * Gain(a, user) <= Due(a)
          /\ a \notin W => Due(a)' <= Due(a)
      BY <1>1, DueAfter
    <3>2. Due(a) \in Nat
      BY <1>1, PendingWithinDue
    <3>3. both[a] = Due(a)' + SCALE * gain[a] /\ before[a] = Due(a)
      OBVIOUS
    <3>4. CASE a \in W
      <4>1. user \in Users
        BY <3>4 DEF Settles
      <4>2. Gain(a, user) \in Nat
        BY <1>1, <4>1, PendingTypes
      <4>3. gain[a] = Gain(a, user)
        BY <3>4
      <4> HIDE DEF both, before, gain
      <4> QED
        BY <3>1, <3>2, <3>3, <3>4, <4>2, <4>3
    <3>5. CASE a \notin W
      <4>1. gain[a] = 0
        BY <3>5
      <4> HIDE DEF both, before, gain
      <4> QED
        BY <1>2, <3>1, <3>2, <3>3, <3>5, <4>1
    <3> QED
      BY <3>4, <3>5
  <2> HIDE DEF both
  <2> QED
    BY <2>1
<1>5. both \in [Assets -> Nat]
  <2>1. \A a \in Assets : both[a] \in Nat
    BY <1>4
  <2>2. DOMAIN both = Assets /\ both = [a \in Assets |-> both[a]]
    OBVIOUS
  <2> HIDE DEF both
  <2> QED
    BY <2>1, <2>2
<1>6. Sum(gain) = GainOver(W, user)
  BY DEF GainOver
<1>7. Sum([a \in Assets |-> Due(a)])' = Sum(after) /\ Sum(emitted)' = Sum(emitted)
  BY <1>2
<1>8. (SCALE * (Sum(claimed) + Sum(usersUnclaimedRewards)))' = SCALE * paidAfter
  OBVIOUS
<1>9. paid \in Nat
  <2>1. /\ claimed \in [Users -> Nat] /\ usersUnclaimedRewards \in [Users -> Nat]
        /\ IsFiniteSet(Users)
    BY <1>1, IncentivesControllerAssumption DEF IInv
  <2>2. Sum(claimed) \in Nat /\ Sum(usersUnclaimedRewards) \in Nat
    BY <2>1, SumType
  <2> QED
    BY <2>2
<1>10. both = [a \in Assets |-> after[a] + SCALE * gain[a]]
  OBVIOUS
<1>11. SCALE * Sum(emitted) \in Nat
  <2>1. Sum(emitted) \in Nat
    BY <1>1, <1>2, SumType DEF IInv
  <2> QED
    BY <1>2, <2>1, MulNat
<1> HIDE DEF before, after, gain, both, paid, paidAfter
<1>12. Sum(both) = Sum(after) + SCALE * Sum(gain)
  <2>1. Sum([a \in Assets |-> after[a] + SCALE * gain[a]]) = Sum(after) + SCALE * Sum(gain)
    BY <1>2, <1>4, SumLinear
  <2> QED
    BY <1>10, <2>1
<1>13. Sum(both) <= Sum(before)
  BY <1>2, <1>4, <1>5, SumMonotone
<1>14. Sum(after) \in Nat /\ Sum(before) \in Nat /\ Sum(gain) \in Nat
  BY <1>2, <1>4, SumType
<1>15. SCALE * paidAfter = SCALE * paid + SCALE * Sum(gain)
  BY <1>2, <1>3, <1>6, <1>9, <1>14, MulDist
<1>16. SCALE * paid \in Nat /\ SCALE * Sum(gain) \in Nat
  BY <1>2, <1>9, <1>14, MulNat
<1>17. SCALE * paidAfter + Sum(after) <= SCALE * Sum(emitted)
  BY <1>1, <1>11, <1>12, <1>13, <1>14, <1>15, <1>16
<1> QED
  BY <1>7, <1>8, <1>17 DEF RewardInv

(* And nobody's earnings change. *)
LEMMA SettleKeepsEarned ==
  ASSUME IInv, IInv', NEW user, NEW W, NEW C, Settles(user, W, C), NEW u \in Users
  PROVE  /\ Earned(u) \in Nat
         /\ Earned(u)' = Earned(u)
<1> DEFINE before == [a \in Assets |-> PendingOn(a, u) \div SCALE]
           after == [a \in Assets |-> PendingOn(a, u)' \div SCALE]
           gain == [a \in Assets |-> IF a \in W THEN Gain(a, user) ELSE 0]
<1>1. /\ Earned(u) = claimed[u] + usersUnclaimedRewards[u] + Sum(before)
      /\ Earned(u)' = claimed'[u] + usersUnclaimedRewards'[u] + Sum(after)
  BY DEF Earned
<1>2. /\ claimed[u] \in Nat /\ usersUnclaimedRewards[u] \in Nat
      /\ claimed'[u] \in Nat /\ usersUnclaimedRewards'[u] \in Nat
      /\ IsFiniteSet(Assets) /\ SCALE \in Nat \ {0}
  BY IncentivesControllerAssumption, DistributionManagerAssumption DEF IInv
<1>3. claimed'[u] + usersUnclaimedRewards'[u]
        = claimed[u] + usersUnclaimedRewards[u] + Recorded(W, user, u)
  BY DEF Settles
<1>4. before \in [Assets -> Nat]
  BY PendingTypes DEF Gain
<1>5. \A a \in Assets : PendingOn(a, u)' = IF a \in W /\ u = user THEN 0 ELSE PendingOn(a, u)
  BY PendingAfter
<1>6. CASE u = user
  <2>1. gain \in [Assets -> Nat]
    BY <1>6, PendingTypes
  <2>2. \A a \in Assets : after[a] \in Nat /\ before[a] = after[a] + gain[a]
    <3> SUFFICES ASSUME NEW a \in Assets PROVE after[a] \in Nat /\ before[a] = after[a] + gain[a]
      OBVIOUS
    <3>1. before[a] = Gain(a, user) /\ Gain(a, user) \in Nat
      BY <1>6, PendingTypes DEF Gain
    <3>2. after[a] = IF a \in W THEN 0 \div SCALE ELSE Gain(a, user)
      BY <1>5, <1>6 DEF Gain
    <3>3. 0 \div SCALE = 0
      BY <1>2
    <3>4. gain[a] = IF a \in W THEN Gain(a, user) ELSE 0
      OBVIOUS
    <3> HIDE DEF before, after, gain
    <3> QED
      BY <3>1, <3>2, <3>3, <3>4
  <2>3. after \in [Assets -> Nat] /\ before = [a \in Assets |-> after[a] + gain[a]]
    <3>1. after = [a \in Assets |-> after[a]] /\ before = [a \in Assets |-> before[a]]
      OBVIOUS
    <3> HIDE DEF before, after, gain
    <3> QED
      BY <2>2, <3>1
  <2>4. Recorded(W, user, u) = Sum(gain)
    BY <1>6 DEF Recorded, GainOver
  <2> HIDE DEF before, after, gain
  <2>5. Sum(before) = Sum(after) + Sum(gain)
    BY <1>2, <2>1, <2>3, SumAdd
  <2>6. Sum(before) \in Nat /\ Sum(after) \in Nat /\ Sum(gain) \in Nat
    BY <1>2, <1>4, <2>1, <2>3, SumType
  <2> QED
    BY <1>1, <1>2, <1>3, <2>4, <2>5, <2>6
<1>7. CASE u # user
  <2>1. after = before
    BY <1>5, <1>7
  <2>2. Recorded(W, user, u) = 0
    BY <1>7 DEF Recorded
  <2> HIDE DEF before, after
  <2>3. Sum(before) \in Nat
    BY <1>2, <1>4, SumType
  <2> QED
    BY <1>1, <1>2, <1>3, <2>1, <2>2, <2>3
<1> QED
  BY <1>6, <1>7

----------------------------------------------------------------------------
(* The transactions are of that form. *)

LEMMA HandleActionStep ==
  ASSUME IInv, NEW a \in Assets, NEW user \in Users, NEW newBalance \in Balances,
         HandleAction(a, user, newBalance)
  PROVE  /\ IInv'
         /\ Settles(user, {a}, {a})
<1> DEFINE r == Updated(a, user)
           b == scaledBalances[a]
           gain == Gain(a, user)
<1>1. /\ assets' = [assets EXCEPT ![a] = r]
      /\ scaledBalances' = [scaledBalances EXCEPT ![a] = [b EXCEPT ![user] = newBalance]]
      /\ scaledTotalSupply' = [scaledTotalSupply EXCEPT
                                 ![a] = (scaledTotalSupply[a] - b[user]) + newBalance]
      /\ now' = now /\ claimed' = claimed /\ emitted' = emitted
  <2>1. scaledBalances \in [Assets -> [Users -> Nat]] /\ scaledTotalSupply \in [Assets -> Nat]
    BY DEF IInv
  <2> QED
    BY <2>1 DEF HandleAction, Updated
<1>2. usersUnclaimedRewards' =
        [usersUnclaimedRewards EXCEPT ![user] = usersUnclaimedRewards[user] + gain]
  BY GainIsAccrued DEF HandleAction, IInv
<1>3. /\ usersUnclaimedRewards \in [Users -> Nat] /\ claimed \in [Users -> Nat]
      /\ emitted \in [Assets -> Nat] /\ now \in Nat
      /\ scaledBalances \in [Assets -> [Users -> Nat]]
      /\ scaledTotalSupply \in [Assets -> Nat]
      /\ assets \in [Assets -> AssetData(Users)]
      /\ \A c \in Assets : SoundAsset(assets[c], Users, now)
      /\ \A c \in Assets : scaledTotalSupply[c] = Sum(scaledBalances[c])
  BY DEF IInv
<1>4. newBalance \in Nat /\ IsFiniteSet(Users) /\ gain \in Nat /\ b \in [Users -> Nat]
  BY PendingTypes, AssetTypes, IncentivesControllerAssumption
<1>5. BroughtUpToDate(r, assets[a], user, Users, Index(a), now)
  BY UpdatedTwice
<1>6. SoundAsset(r, Users, now) /\ r \in AssetData(Users)
  BY <1>5 DEF BroughtUpToDate, SoundAsset
<1>7. /\ (scaledTotalSupply[a] - b[user]) + newBalance \in Nat
      /\ Sum([b EXCEPT ![user] = newBalance])
           = (scaledTotalSupply[a] - b[user]) + newBalance
  <2> HIDE DEF b
  <2>1. Sum([b EXCEPT ![user] = newBalance]) + b[user] = Sum(b) + newBalance
    <3> DEFINE c == [b EXCEPT ![user] = newBalance]
    <3>1. c \in [Users -> Nat] /\ c[user] = newBalance /\ \A u \in Users \ {user} : c[u] = b[u]
      BY <1>4
    <3> HIDE DEF c
    <3>2. Sum(c) + b[user] = Sum(b) + c[user]
      BY <1>4, <3>1, SumChange
    <3>3. Sum(c) + b[user] = Sum(b) + newBalance
      BY <3>1, <3>2
    <3> QED
      BY <3>3 DEF c
  <2>2. Sum(b) \in Nat /\ b[user] <= Sum(b) /\ b[user] \in Nat
    BY <1>4, SumType
  <2>3. [b EXCEPT ![user] = newBalance] \in [Users -> Nat]
    BY <1>4
  <2>4. Sum([b EXCEPT ![user] = newBalance]) \in Nat
    BY <1>4, <2>3, SumType
  <2>5. scaledTotalSupply[a] = Sum(b)
    BY <1>3 DEF b
  <2> QED
    BY <1>4, <2>1, <2>2, <2>4, <2>5
<1> HIDE DEF r, b, gain
<1>8. IInv'
  <2>1. usersUnclaimedRewards' \in [Users -> Nat]
    BY <1>2, <1>3, <1>4
  <2>2. assets' \in [Assets -> AssetData(Users)]
        /\ \A c \in Assets : SoundAsset(assets'[c], Users, now)
    BY <1>1, <1>3, <1>6
  <2>3. scaledTotalSupply' \in [Assets -> Nat]
    BY <1>1, <1>3, <1>7
  <2>4. scaledBalances' \in [Assets -> [Users -> Nat]]
    <3>1. [b EXCEPT ![user] = newBalance] \in [Users -> Nat]
      BY <1>4
    <3> QED
      BY <1>1, <1>3, <3>1
  <2>5. \A c \in Assets : scaledTotalSupply'[c] = Sum(scaledBalances'[c])
    <3> SUFFICES ASSUME NEW c \in Assets PROVE scaledTotalSupply'[c] = Sum(scaledBalances'[c])
      OBVIOUS
    <3>1. CASE c = a
      BY <1>1, <1>3, <1>7, <3>1
    <3>2. CASE c # a
      BY <1>1, <1>3, <3>2
    <3> QED
      BY <3>1, <3>2
  <2> QED
    BY <1>1, <1>3, <2>1, <2>2, <2>3, <2>4, <2>5 DEF IInv
<1>9. GainOver({a}, user) = gain
  <2>1. /\ GainOver({}, user) = 0 /\ GainOver({}, user) \in Nat
        /\ a \notin {} => GainOver({} \cup {a}, user) = GainOver({}, user) + Gain(a, user)
    BY GainOneMore
  <2>2. {} \cup {a} = {a}
    OBVIOUS
  <2>3. GainOver({} \cup {a}, user) = GainOver({a}, user)
    BY <2>2, Zenon
  <2> QED
    BY <1>4, <2>1, <2>3 DEF gain
<1>10. Settles(user, {a}, {a})
  <2>1. /\ r.index = Index(a) /\ r.lastUpdateTimestamp = now /\ r.users[user] = Index(a)
        /\ \A u \in Users \ {user} : r.users[u] = assets[a].users[u]
    BY <1>5 DEF BroughtUpToDate
  <2>2. assets'[a] = r /\ \A c \in Assets \ {a} : assets'[c] = assets[c]
    BY <1>1, <1>3
  <2>3. \A c \in Assets \ {a} : /\ scaledTotalSupply'[c] = scaledTotalSupply[c]
                                /\ scaledBalances'[c] = scaledBalances[c]
    BY <1>1, <1>3
  <2>4. \A u \in Users \ {user} : scaledBalances'[a][u] = scaledBalances[a][u]
    <3>1. scaledBalances'[a] = [b EXCEPT ![user] = newBalance]
      BY <1>1, <1>3
    <3> QED
      BY <1>4, <3>1 DEF b
  <2>5. \A u \in Users : claimed'[u] + usersUnclaimedRewards'[u]
          = claimed[u] + usersUnclaimedRewards[u] + Recorded({a}, user, u)
    <3> SUFFICES ASSUME NEW u \in Users
                 PROVE  claimed'[u] + usersUnclaimedRewards'[u]
                          = claimed[u] + usersUnclaimedRewards[u] + Recorded({a}, user, u)
      OBVIOUS
    <3>1. claimed[u] \in Nat /\ usersUnclaimedRewards[u] \in Nat
      BY <1>3
    <3>2. Recorded({a}, user, u) = IF u = user THEN gain ELSE 0
      BY <1>9 DEF Recorded
    <3>3. usersUnclaimedRewards'[u] = IF u = user THEN usersUnclaimedRewards[u] + gain
                                      ELSE usersUnclaimedRewards[u]
      BY <1>2, <1>3
    <3> QED
      BY <1>1, <1>4, <3>1, <3>2, <3>3
  <2> QED
    BY <1>1, <2>1, <2>2, <2>3, <2>4, <2>5 DEF Settles
<1> QED
  BY <1>8, <1>10

LEMMA ClaimRewardsStep ==
  ASSUME IInv, NEW user \in Users, NEW list \in AssetLists, NEW amount \in Amounts,
         NEW to \in Recipients, NEW stake \in BOOLEAN,
         ClaimRewards(user, list, amount, to, stake)
  PROVE  /\ IInv'
         /\ \E W \in SUBSET Assets : Settles(user, W, W)
<1> DEFINE W == Met(list, Len(list))
           accrued == ClaimOver(user, list).accrued
           unclaimed == usersUnclaimedRewards[user] + accrued
           claiming == IF amount > unclaimed THEN unclaimed ELSE amount
<1>1. list \in Seq(Assets) /\ amount \in Nat
  BY IncentivesControllerAssumption
<1>2. /\ W \in SUBSET Assets
      /\ ClaimOver(user, list).records = RecordsAfter(W, user)
      /\ accrued = GainOver(W, user)
  BY <1>1, ClaimOverMet
<1>3. /\ assets' = ClaimOver(user, list).records
      /\ usersUnclaimedRewards' = [usersUnclaimedRewards EXCEPT ![user] = unclaimed - claiming]
      /\ claimed' = [claimed EXCEPT ![user] = claimed[user] + claiming]
      /\ scaledBalances' = scaledBalances /\ scaledTotalSupply' = scaledTotalSupply
      /\ now' = now /\ emitted' = emitted
  BY DEF ClaimRewards, poolVars, IInv
<1>4. /\ usersUnclaimedRewards \in [Users -> Nat] /\ claimed \in [Users -> Nat]
      /\ assets \in [Assets -> AssetData(Users)]
      /\ \A c \in Assets : SoundAsset(assets[c], Users, now)
  BY DEF IInv
<1>5. GainOver(W, user) \in Nat
  <2>1. CASE Assets = {}
    <3>1. [a \in Assets |-> IF a \in W THEN Gain(a, user) ELSE 0] = [a \in Assets |-> 0]
      BY <2>1
    <3> QED
      BY <3>1, SumZero DEF GainOver
  <2>2. CASE Assets # {}
    <3> HIDE DEF W
    <3> QED
      BY <1>2, <2>2, GainOneMore
  <2> QED
    BY <2>1, <2>2
<1> HIDE DEF W, accrued
<1>6. unclaimed \in Nat /\ claiming \in Nat /\ claiming <= unclaimed
  BY <1>1, <1>2, <1>4, <1>5
<1> HIDE DEF unclaimed, claiming
<1>7. \A c \in Assets :
        /\ c \in W => /\ assets'[c] = Updated(c, user)
                      /\ BroughtUpToDate(Updated(c, user), assets[c], user, Users,
                                         Index(c), now)
        /\ c \notin W => assets'[c] = assets[c]
  BY <1>2, <1>3, UpdatedTwice DEF RecordsAfter
<1>8. \A c \in Assets : SoundAsset(assets'[c], Users, now)
  <2> SUFFICES ASSUME NEW c \in Assets PROVE SoundAsset(assets'[c], Users, now)
    OBVIOUS
  <2>1. CASE c \in W
    BY <1>7, <2>1 DEF BroughtUpToDate
  <2>2. CASE c \notin W
    BY <1>4, <1>7, <2>2
  <2> QED
    BY <2>1, <2>2
<1>9. assets' \in [Assets -> AssetData(Users)]
  <2>1. assets' = [c \in Assets |-> assets'[c]]
    BY <1>2, <1>3 DEF RecordsAfter
  <2>2. \A c \in Assets : assets'[c] \in AssetData(Users)
    BY <1>8 DEF SoundAsset
  <2> QED
    BY <2>1, <2>2
<1>10. usersUnclaimedRewards' \in [Users -> Nat] /\ claimed' \in [Users -> Nat]
  <2>1. unclaimed - claiming \in Nat /\ claimed[user] + claiming \in Nat
    BY <1>4, <1>6
  <2> QED
    BY <1>3, <1>4, <2>1
<1>11. IInv'
  BY <1>3, <1>8, <1>9, <1>10 DEF IInv
<1>12. Settles(user, W, W)
  <2>1. \A c \in W :
          /\ assets'[c].index = Index(c) /\ assets'[c].lastUpdateTimestamp = now
          /\ \A u \in Users : assets'[c].users[u] = IF c \in W /\ u = user THEN Index(c)
                                                    ELSE assets[c].users[u]
    BY <1>2, <1>7 DEF BroughtUpToDate
  <2>2. \A u \in Users : claimed'[u] + usersUnclaimedRewards'[u]
          = claimed[u] + usersUnclaimedRewards[u] + Recorded(W, user, u)
    <3> SUFFICES ASSUME NEW u \in Users
                 PROVE  claimed'[u] + usersUnclaimedRewards'[u]
                          = claimed[u] + usersUnclaimedRewards[u] + Recorded(W, user, u)
      OBVIOUS
    <3>1. claimed[u] \in Nat /\ usersUnclaimedRewards[u] \in Nat
      BY <1>4
    <3>2. CASE u = user
      <4>1. /\ claimed'[u] = claimed[u] + claiming
            /\ usersUnclaimedRewards'[u] = unclaimed - claiming
        BY <1>3, <1>4, <3>2
      <4>2. unclaimed = usersUnclaimedRewards[u] + GainOver(W, user)
        BY <1>2, <3>2 DEF unclaimed
      <4>3. Recorded(W, user, u) = GainOver(W, user)
        BY <3>2 DEF Recorded
      <4> QED
        BY <1>5, <1>6, <3>1, <4>1, <4>2, <4>3
    <3>3. CASE u # user
      <4>1. claimed'[u] = claimed[u] /\ usersUnclaimedRewards'[u] = usersUnclaimedRewards[u]
        BY <1>3, <1>4, <3>3
      <4>2. Recorded(W, user, u) = 0
        BY <3>3 DEF Recorded
      <4> QED
        BY <3>1, <4>1, <4>2
    <3> QED
      BY <3>2, <3>3
  <2> QED
    BY <1>2, <1>3, <1>7, <2>1, <2>2 DEF Settles
<1> QED
  BY <1>2, <1>11, <1>12

LEMMA ConfigureAssetsStep ==
  ASSUME IInv, NEW a \in Assets, NEW emission \in Emissions, ConfigureAssets(a, emission)
  PROVE  /\ IInv'
         /\ \A user : Settles(user, {}, {a})
<1> DEFINE old == assets[a]
           total == scaledTotalSupply[a]
           r == ConfigureAsset(old, emission, total, now)
<1>1. /\ assets \in [Assets -> AssetData(Users)]
      /\ \A c \in Assets : SoundAsset(assets[c], Users, now)
      /\ claimed \in [Users -> Nat] /\ usersUnclaimedRewards \in [Users -> Nat]
  BY DEF IInv
<1>2. /\ assets' = [assets EXCEPT ![a] = r]
      /\ scaledBalances' = scaledBalances /\ scaledTotalSupply' = scaledTotalSupply
      /\ usersUnclaimedRewards' = usersUnclaimedRewards
      /\ now' = now /\ claimed' = claimed /\ emitted' = emitted
  BY <1>1 DEF ConfigureAssets, poolVars
<1>3. now \in Nat /\ total \in Nat /\ emission \in Nat /\ SoundAsset(old, Users, now)
  BY AssetTypes, IncentivesControllerAssumption
<1>4. Index(a) = GetAssetIndex(old, total, now)
  BY DEF Index
<1> HIDE DEF total, old
<1>5. /\ SoundAsset(r, Users, now)
      /\ r.index = GetAssetIndex(old, total, now)
      /\ r.lastUpdateTimestamp = now
      /\ r.users = old.users
  BY <1>3, ConfigureAssetSound
<1> HIDE DEF r
<1>6. r \in AssetData(Users)
  BY <1>5 DEF SoundAsset
<1>7. /\ assets'[a] = r /\ \A c \in Assets \ {a} : assets'[c] = assets[c]
      /\ assets' \in [Assets -> AssetData(Users)]
  BY <1>1, <1>2, <1>6
<1>8. \A c \in Assets : SoundAsset(assets'[c], Users, now)
  BY <1>1, <1>5, <1>7
<1>9. IInv'
  BY <1>2, <1>7, <1>8 DEF IInv
<1>10. ASSUME NEW user PROVE Settles(user, {}, {a})
  <2>1. GainOver({}, user) = 0
    BY NoGain
  <2>2. \A u \in Users : claimed'[u] + usersUnclaimedRewards'[u]
          = claimed[u] + usersUnclaimedRewards[u] + Recorded({}, user, u)
    BY <1>1, <1>2, <2>1 DEF Recorded
  <2> QED
    BY <1>2, <1>4, <1>5, <1>7, <2>2 DEF Settles, old
<1> QED
  BY <1>9, <1>10

----------------------------------------------------------------------------
(* The passing of time: what is due on an asset grows by what is emitted,   *)
(* and no index falls.                                                      *)
LEMMA TickStep ==
  ASSUME RewardInv, Tick
  PROVE  /\ RewardInv'
         /\ \A u \in Users : Earned(u) \in Nat /\ Earned(u)' >= Earned(u)
<1> DEFINE second == [a \in Assets |->
                        IF scaledTotalSupply[a] # 0 /\ now < DISTRIBUTION_END
                        THEN assets[a].emissionPerSecond ELSE 0]
           before == [a \in Assets |-> Due(a)]
           after == [a \in Assets |-> Due(a)']
           paid == SCALE * (Sum(claimed) + Sum(usersUnclaimedRewards))
<1>1. IInv /\ paid + Sum(before) <= SCALE * Sum(emitted)
  BY DEF RewardInv
<1>2. /\ now' = now + 1 /\ assets' = assets /\ usersUnclaimedRewards' = usersUnclaimedRewards
      /\ scaledBalances' = scaledBalances /\ scaledTotalSupply' = scaledTotalSupply
      /\ claimed' = claimed
  BY DEF Tick, poolVars
<1>3. /\ claimed \in [Users -> Nat] /\ usersUnclaimedRewards \in [Users -> Nat]
      /\ emitted \in [Assets -> Nat] /\ now \in Nat
      /\ IsFiniteSet(Users) /\ IsFiniteSet(Assets) /\ SCALE \in Nat \ {0}
  BY <1>1, IncentivesControllerAssumption, DistributionManagerAssumption DEF IInv
<1>4. ASSUME NEW a \in Assets PROVE assets[a].emissionPerSecond \in Nat
  BY <1>1, AssetTypes DEF SoundAsset, AssetData
<1>5. second \in [Assets -> Nat]
  BY <1>4
<1>6. emitted' = [a \in Assets |-> emitted[a] + second[a]]
  <2>1. \A a \in Assets : emitted[a] \in Nat
    BY <1>3
  <2> QED
    BY <2>1 DEF Tick
<1>7. IInv'
  <2>1. now' \in Nat /\ emitted' \in [Assets -> Nat]
    <3> HIDE DEF second
    <3> QED
      BY <1>2, <1>3, <1>5, <1>6
  <2>2. \A a \in Assets : SoundAsset(assets[a], Users, now + 1)
    <3> SUFFICES ASSUME NEW a \in Assets PROVE SoundAsset(assets[a], Users, now + 1)
      OBVIOUS
    <3>1. SoundAsset(assets[a], Users, now) /\ now \in Nat
      BY <1>1, AssetTypes
    <3>2. assets[a].lastUpdateTimestamp \in Nat /\ assets[a].lastUpdateTimestamp <= now
      BY <3>1 DEF SoundAsset, AssetData
    <3>3. assets[a].lastUpdateTimestamp <= now + 1
      BY <3>1, <3>2
    <3> QED
      BY <3>1, <3>3 DEF SoundAsset
  <2> QED
    BY <1>1, <1>2, <2>1, <2>2 DEF IInv
<1>8. ASSUME NEW a \in Assets
      PROVE  Due(a) \in Nat /\ Due(a)' = Due(a) + SCALE * second[a]
  <2> DEFINE settled == Sum([u \in Users |-> SettledOn(a, u)])
             since == EmissionSince(assets[a], scaledTotalSupply[a], now)
  <2>1. Due(a) \in Nat
    BY <1>1, PendingWithinDue
  <2>2. since \in Nat /\ SCALE * since \in Nat
        /\ EmissionSince(assets[a], scaledTotalSupply[a], now + 1) = since + second[a]
    <3>1. now \in Nat /\ scaledTotalSupply[a] \in Nat /\ SoundAsset(assets[a], Users, now)
      BY <1>1, AssetTypes
    <3>2. since \in Nat /\ SCALE * since \in Nat
      BY <3>1, IndexCost
    <3> QED
      BY <3>1, <3>2, EmissionOfASecond
  <2>3. settled \in Nat
    <3> DEFINE f == [u \in Users |-> SettledOn(a, u)]
    <3>1. f \in [Users -> Nat]
      BY <1>1, PendingTypes
    <3> HIDE DEF f
    <3>2. Sum(f) \in Nat
      BY <1>3, <3>1, SumType
    <3> QED
      BY <3>2 DEF f
  <2>4. Due(a) = settled + SCALE * since
    BY DEF Due
  <2>5. Due(a)' = settled + SCALE * (since + second[a])
    <3>1. Due(a)' = Sum([u \in Users |-> SettledOn(a, u)'])
                      + SCALE * EmissionSince(assets'[a], scaledTotalSupply'[a], now')
      BY DEF Due
    <3>2. [u \in Users |-> SettledOn(a, u)'] = [u \in Users |-> SettledOn(a, u)]
      BY <1>2 DEF SettledOn
    <3> HIDE DEF second, since
    <3> QED
      BY <1>2, <2>2, <3>1, <3>2
  <2>6. second[a] \in Nat
    BY <1>4
  <2> HIDE DEF settled, since, second
  <2>7. SCALE * (since + second[a]) = SCALE * since + SCALE * second[a]
    BY <1>3, <2>2, <2>6, MulDist
  <2>8. SCALE * second[a] \in Nat
    BY <1>3, <2>6, MulNat
  <2> QED
    BY <2>1, <2>2, <2>3, <2>4, <2>5, <2>7, <2>8
<1>9. before \in [Assets -> Nat] /\ after = [a \in Assets |-> before[a] + SCALE * second[a]]
  <2> HIDE DEF second
  <2> QED
    BY <1>8
<1>10. (SCALE * (Sum(claimed) + Sum(usersUnclaimedRewards)))' = paid
  BY <1>2
<1>11. Sum([a \in Assets |-> Due(a)])' = Sum(after)
  OBVIOUS
<1>12. paid \in Nat
  <2>1. Sum(claimed) \in Nat /\ Sum(usersUnclaimedRewards) \in Nat
    BY <1>3, SumType
  <2>2. Sum(claimed) + Sum(usersUnclaimedRewards) \in Nat
    BY <2>1
  <2> QED
    BY <1>3, <2>2, MulNat
<1>13. RewardInv'
  <2> HIDE DEF before, after, second, paid
  <2>1. Sum([a \in Assets |-> before[a] + SCALE * second[a]]) = Sum(before) + SCALE * Sum(second)
    BY <1>3, <1>5, <1>9, SumLinear
  <2>2. Sum([a \in Assets |-> emitted[a] + second[a]]) = Sum(emitted) + Sum(second)
    BY <1>3, <1>5, SumAdd
  <2>3. Sum(emitted) \in Nat /\ Sum(second) \in Nat /\ Sum(before) \in Nat
    BY <1>3, <1>5, <1>9, SumType
  <2>4. SCALE * (Sum(emitted) + Sum(second)) = SCALE * Sum(emitted) + SCALE * Sum(second)
    BY <1>3, <2>3, MulDist
  <2>5. SCALE * Sum(emitted) \in Nat /\ SCALE * Sum(second) \in Nat
    BY <1>3, <2>3, MulNat
  <2>6. paid + Sum(after) <= SCALE * Sum(emitted')
    <3>1. Sum(after) = Sum(before) + SCALE * Sum(second)
      BY <1>9, <2>1
    <3>2. Sum(emitted') = Sum(emitted) + Sum(second)
      BY <1>6, <2>2
    <3>3. SCALE * Sum(emitted') = SCALE * Sum(emitted) + SCALE * Sum(second)
      BY <2>4, <3>2
    <3> QED
      BY <1>1, <1>12, <2>3, <2>5, <3>1, <3>3
  <2>7. (SCALE * Sum(emitted))' = SCALE * Sum(emitted')
    OBVIOUS
  <2>8. (SCALE * (Sum(claimed) + Sum(usersUnclaimedRewards)) + Sum([a \in Assets |-> Due(a)])
           <= SCALE * Sum(emitted))'
    BY <1>10, <1>11, <2>6
  <2> QED
    BY <1>7, <2>8 DEF RewardInv
<1>14. ASSUME NEW u \in Users PROVE Earned(u) \in Nat /\ Earned(u)' >= Earned(u)
  <2> DEFINE f == [a \in Assets |-> PendingOn(a, u) \div SCALE]
             g == [a \in Assets |-> PendingOn(a, u)' \div SCALE]
  <2>1. ASSUME NEW a \in Assets
        PROVE  f[a] \in Nat /\ g[a] \in Nat /\ f[a] <= g[a]
    <3> DEFINE i == Index(a)
               j == GetAssetIndex(assets[a], scaledTotalSupply[a], now + 1)
               x == assets[a].users[u]
               b == scaledBalances[a][u]
    <3>1. now \in Nat /\ scaledTotalSupply[a] \in Nat /\ SoundAsset(assets[a], Users, now)
      BY <1>1, AssetTypes
    <3>2. i \in Nat /\ j \in Nat /\ i <= j /\ x \in Nat /\ x <= i /\ b \in Nat
      <4>1. j \in Nat /\ j >= Index(a)
        BY <3>1, LaterIndex DEF Index
      <4> QED
        BY <1>1, <4>1, AssetTypes
    <3>3. PendingOn(a, u) = b * (i - x) /\ PendingOn(a, u)' = b * (j - x)
      BY <1>2 DEF PendingOn, Index
    <3>4. f[a] = PendingOn(a, u) \div SCALE /\ g[a] = PendingOn(a, u)' \div SCALE
      OBVIOUS
    <3> HIDE DEF i, j, x, b, f, g
    <3> DEFINE p == i - x
               q == j - x
    <3>5. p \in Nat /\ q \in Nat /\ p <= q
      BY <3>2
    <3>6. f[a] = (b * p) \div SCALE /\ g[a] = (b * q) \div SCALE
      BY <3>3, <3>4
    <3> HIDE DEF p, q
    <3> DEFINE m == b * p
               n == b * q
    <3>7. m \in Nat /\ n \in Nat /\ m <= n
      BY <3>2, <3>5, MulNat, MulMono
    <3> HIDE DEF m, n
    <3>8. m \div SCALE \in Nat /\ n \div SCALE \in Nat /\ m \div SCALE <= n \div SCALE
      BY <1>3, <3>7, DivMono
    <3> QED
      BY <3>6, <3>8 DEF m, n
  <2>2. f \in [Assets -> Nat] /\ g \in [Assets -> Nat]
    <3>1. f = [a \in Assets |-> f[a]] /\ g = [a \in Assets |-> g[a]]
      OBVIOUS
    <3> HIDE DEF f, g
    <3> QED
      BY <2>1, <3>1
  <2>3. /\ Earned(u) = claimed[u] + usersUnclaimedRewards[u] + Sum(f)
        /\ Earned(u)' = claimed[u] + usersUnclaimedRewards[u] + Sum(g)
    BY <1>2 DEF Earned
  <2>4. claimed[u] \in Nat /\ usersUnclaimedRewards[u] \in Nat
    BY <1>3
  <2> HIDE DEF f, g
  <2>5. Sum(f) <= Sum(g) /\ Sum(f) \in Nat /\ Sum(g) \in Nat
    BY <1>3, <2>1, <2>2, SumMonotone, SumType
  <2> QED
    BY <2>3, <2>4, <2>5
<1> QED
  BY <1>13, <1>14

----------------------------------------------------------------------------
(* One step from a state in which the invariant holds. *)
LEMMA StepKeeps ==
  ASSUME RewardInv, [Next]_vars
  PROVE  /\ RewardInv'
         /\ \A u \in Users : /\ Earned(u)' >= Earned(u)
                             /\ now' = now => Earned(u)' = Earned(u)
<1>1. IInv
  BY DEF RewardInv
<1>2. ASSUME NEW user, NEW W, NEW C, Settles(user, W, C), IInv'
      PROVE  /\ RewardInv'
             /\ \A u \in Users : Earned(u) \in Nat /\ Earned(u)' = Earned(u)
  BY <1>1, <1>2, SettleStep, SettleKeepsEarned
<1>3. ASSUME NEW a \in Assets, NEW user \in Users, NEW newBalance \in Balances,
             HandleAction(a, user, newBalance)
      PROVE  /\ RewardInv'
             /\ \A u \in Users : Earned(u) \in Nat /\ Earned(u)' = Earned(u)
  <2>1. IInv' /\ Settles(user, {a}, {a})
    BY <1>1, <1>3, HandleActionStep
  <2> QED
    BY <1>2, <2>1
<1>4. ASSUME NEW user \in Users, NEW list \in AssetLists, NEW amount \in Amounts,
             NEW to \in Recipients, NEW stake \in BOOLEAN,
             ClaimRewards(user, list, amount, to, stake)
      PROVE  /\ RewardInv'
             /\ \A u \in Users : Earned(u) \in Nat /\ Earned(u)' = Earned(u)
  <2>1. IInv' /\ \E W \in SUBSET Assets : Settles(user, W, W)
    BY <1>1, <1>4, ClaimRewardsStep
  <2> QED
    BY <1>2, <2>1
<1>5. ASSUME NEW a \in Assets, NEW emission \in Emissions, ConfigureAssets(a, emission)
      PROVE  /\ RewardInv'
             /\ \A u \in Users : Earned(u) \in Nat /\ Earned(u)' = Earned(u)
  <2>1. IInv' /\ \A user : Settles(user, {}, {a})
    BY <1>1, <1>5, ConfigureAssetsStep
  <2> QED
    BY <1>2, <2>1
<1>6. CASE Tick
  <2>1. /\ RewardInv'
        /\ \A u \in Users : Earned(u) \in Nat /\ Earned(u)' >= Earned(u)
    BY <1>6, TickStep
  <2>2. now' # now
    BY <1>1, <1>6 DEF Tick, IInv
  <2> QED
    BY <2>1, <2>2
<1>7. CASE UNCHANGED vars
  <2>1. /\ assets' = assets /\ usersUnclaimedRewards' = usersUnclaimedRewards
        /\ scaledBalances' = scaledBalances /\ scaledTotalSupply' = scaledTotalSupply
        /\ now' = now /\ claimed' = claimed /\ emitted' = emitted
    BY <1>7 DEF vars, poolVars
  <2>2. IInv'
    BY <1>1, <2>1 DEF IInv
  <2>3. Settles(0, {}, {})
    <3>1. GainOver({}, 0) = 0
      BY NoGain
    <3>2. \A u \in Users : claimed[u] \in Nat /\ usersUnclaimedRewards[u] \in Nat
      BY <1>1 DEF IInv
    <3> QED
      BY <2>1, <3>1, <3>2 DEF Settles, Recorded
  <2>4. \A u \in Users : Earned(u) \in Nat /\ Earned(u)' = Earned(u)
    BY <1>2, <2>2, <2>3
  <2>5. RewardInv'
    BY <1>2, <2>2, <2>3
  <2> QED
    BY <2>4, <2>5
<1>8. Next => RewardInv' /\ \A u \in Users : /\ Earned(u)' >= Earned(u)
                                             /\ now' = now => Earned(u)' = Earned(u)
  <2>1. CASE \E a \in Assets, user \in Users, newBalance \in Balances :
               HandleAction(a, user, newBalance)
    BY <1>3, <2>1
  <2>2. CASE \E user \in Users, list \in AssetLists, amount \in Amounts, to \in Recipients,
                stake \in BOOLEAN : ClaimRewards(user, list, amount, to, stake)
    BY <1>4, <2>2
  <2>3. CASE \E a \in Assets, emission \in Emissions : ConfigureAssets(a, emission)
    BY <1>5, <2>3
  <2> QED
    BY <1>6, <2>1, <2>2, <2>3 DEF Next
<1> QED
  BY <1>7, <1>8

LEMMA Invariance == Spec => []RewardInv
<1>1. RewardInv /\ [Next]_vars => RewardInv'
  BY StepKeeps
<1> QED
  BY <1>1, InitRewardInv, PTL DEF Spec

(* However deposits, withdrawals, claims over any lists and changes of      *)
(* emission follow each other: what was claimed, is recorded and would be   *)
(* recorded now, over all assets and users, never exceeds what was emitted. *)
THEOREM PoolStaysWithinEmission == Spec => []WithinEmission
BY Invariance, RewardInvWithin, PTL

(* No transaction of anyone changes what a user has earned, and time only   *)
(* adds to it: handleAction, a claim, whole, partial, repeated or staked,   *)
(* and configureAssets.                                                     *)
THEOREM EarningsAreKept == Spec => EarnedIsKept
<1>1. RewardInv /\ [Next]_vars =>
        [\A u \in Users : /\ Earned(u)' >= Earned(u)
                          /\ now' = now => Earned(u)' = Earned(u)]_vars
  BY StepKeeps
<1> QED
  BY <1>1, Invariance, PTL DEF Spec, EarnedIsKept

(* In every reachable state, getRewardsBalance over a list without          *)
(* repetitions is what a claim over that list would give, although the      *)
(* claim updates the records one after the other and the view none.         *)
THEOREM ViewIsRight == Spec => []ViewIsWhatAClaimGives
<1>1. RewardInv => ViewIsWhatAClaimGives
  BY InvView DEF RewardInv
<1> QED
  BY <1>1, Invariance, PTL

============================================================================
