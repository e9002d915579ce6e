--------------------- MODULE GovernancePowerDelegation ---------------------
(***************************************************************************)
(* GovernancePowerDelegationERC20.sol with the storage that                *)
(* GovernancePowerWithSnapshot.sol and the later staked tokens give it:    *)
(* for each type of power, who delegates to whom and the history of every  *)
(* account's power, one snapshot per block in which it changed.            *)
(*                                                                         *)
(* Its _writeSnapshot is, word for word, the one of ERC20WithSnapshot      *)
(* without the event, and is taken from there.  A subtraction that would   *)
(* underflow reverts the transaction, so the operators that move power     *)
(* return the set of states they may end in: one, or none.                 *)
(***************************************************************************)
EXTENDS ERC20WithSnapshot

VOTING_POWER == "VOTING_POWER"
PROPOSITION_POWER == "PROPOSITION_POWER"
DelegationTypes == {VOTING_POWER, PROPOSITION_POWER}

DelegationData(Owners) ==
  [snapshots : [Owners -> Seq(Snapshot)], delegates : [Owners -> Owners \cup {ZERO_ADDRESS}]]

InitDelegationData(Owners) ==
  [snapshots |-> InitSnapshots(Owners), delegates |-> [o \in Owners |-> ZERO_ADDRESS]]

(* _getDelegatee.  Nobody delegates for the zero address. *)
GetDelegatee(delegates, delegator) ==
  IF delegator = ZERO_ADDRESS \/ delegates[delegator] = ZERO_ADDRESS
  THEN delegator ELSE delegates[delegator]

----------------------------------------------------------------------------
(* Mutant: the loop ends one step too early. *)
SearchStopsEarly(history, balance, blockNumber) ==
  LET count == Len(history)
      search[bounds \in (0..count) \X (0..count)] ==
        LET lower  == bounds[1]
            upper  == bounds[2]
            center == upper - (upper - lower) \div 2
        IN  IF upper <= lower + 1 THEN history[lower + 1].value
            ELSE IF history[center + 1].blockNumber < blockNumber
                 THEN search[<<center, upper>>] ELSE search[<<lower, center - 1>>]
  IN  IF count = 0 THEN balance
      ELSE IF history[count].blockNumber <= blockNumber THEN history[count].value
      ELSE IF history[1].blockNumber > blockNumber THEN 0
      ELSE search[<<0, count - 1>>]

(* _searchByBlockNumber, for a block that is not in the future: the code's  *)
(* snapshots[user][i] is history[i + 1].                                    *)
SearchByBlockNumber(history, balance, blockNumber) ==
  LET count == Len(history)
      search[bounds \in (0..count) \X (0..count)] ==
        LET lower    == bounds[1]
            upper    == bounds[2]
            center   == upper - (upper - lower) \div 2
            snapshot == history[center + 1]
        IN  IF upper <= lower THEN history[lower + 1].value
            ELSE IF snapshot.blockNumber = blockNumber THEN snapshot.value
            ELSE IF snapshot.blockNumber < blockNumber THEN search[<<center, upper>>]
            ELSE search[<<lower, center - 1>>]
  IN  IF count = 0 THEN balance
      ELSE IF history[count].blockNumber <= blockNumber THEN history[count].value
      ELSE IF history[1].blockNumber > blockNumber THEN 0
      ELSE search[<<0, count - 1>>]

(* Mutant: the power of an account without history starts from zero. *)
LatestPowerFromZero(history, balance) ==
  IF history = <<>> THEN 0 ELSE history[Len(history)].value

(* `previous` in _moveDelegatesByType: an account without history has the   *)
(* power of its own balance.                                                *)
LatestPower(history, balance) ==
  IF history = <<>> THEN balance ELSE history[Len(history)].value

(* _moveDelegatesByType. *)
MoveDelegates(snapshots, balances, from, to, amount, currentBlock) ==
  LET power(u) == LatestPower(snapshots[u], balances[u])
      debited  == IF from = ZERO_ADDRESS THEN snapshots
                  ELSE WriteSnapshot(snapshots, from, power(from) - amount, currentBlock)
      credited == IF to = ZERO_ADDRESS THEN debited
                  ELSE WriteSnapshot(debited, to, power(to) + amount, currentBlock)
  IN  IF from = to THEN {snapshots}
      ELSE {s \in {credited} : from # ZERO_ADDRESS => power(from) >= amount}

(* Mutant: the delegatee is replaced before the power to move is looked up. *)
DelegateWithoutPrevious(data, balances, delegator, delegatee, currentBlock) ==
  {[snapshots |-> s, delegates |-> [data.delegates EXCEPT ![delegator] = delegatee]] :
     s \in MoveDelegates(data.snapshots, balances, delegator, delegatee,
                         balances[delegator], currentBlock)}

(* _delegateByType, on the data of one type of power. *)
DelegatePower(data, balances, delegator, delegatee, currentBlock) ==
  {[snapshots |-> s, delegates |-> [data.delegates EXCEPT ![delegator] = delegatee]] :
     s \in MoveDelegates(data.snapshots, balances,
                         GetDelegatee(data.delegates, delegator), delegatee,
                         balances[delegator], currentBlock)}

(* The part of the staked tokens' _beforeTokenTransfer that concerns one    *)
(* type of power.                                                           *)
PowerBeforeTransfer(data, balances, from, to, amount, currentBlock) ==
  {[data EXCEPT !.snapshots = s] :
     s \in MoveDelegates(data.snapshots, balances, GetDelegatee(data.delegates, from),
                         GetDelegatee(data.delegates, to), amount, currentBlock)}
============================================================================
