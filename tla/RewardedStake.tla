--------------------------- MODULE RewardedStake ---------------------------
(***************************************************************************)
(* What a staked token promises its holders, without indexes, timestamps   *)
(* or snapshots: a stake per user, the reward each user has earned so far  *)
(* (claimed or not), the emission rate the manager set and the rewards     *)
(* emitted so far.                                                         *)
(*                                                                         *)
(* Rewards are earned only by the passing of time and by those who stake,  *)
(* never beyond what was emitted, and a larger stake never earns less than *)
(* a smaller one (up to the unit that rounding may move from one step to   *)
(* the next).  Depositing, withdrawing, handing over stake, claiming and   *)
(* changing the rate leave what everyone has earned as it is.  The one     *)
(* exception is named: rewards can be forfeited when the manager switches  *)
(* the emission off.                                                       *)
(***************************************************************************)
EXTENDS Naturals, TokenSums

CONSTANT Users

VARIABLES stake, earned, rate, emitted

vars == <<stake, earned, rate, emitted>>

Init ==
  /\ stake = [u \in Users |-> 0]
  /\ earned = [u \in Users |-> 0]
  /\ rate = 0
  /\ emitted = 0

Deposit(u) ==
  /\ stake'[u] > stake[u]
  /\ stake' = [stake EXCEPT ![u] = stake'[u]]
  /\ UNCHANGED <<earned, rate, emitted>>

Withdraw(u) ==
  /\ stake'[u] < stake[u]
  /\ stake' = [stake EXCEPT ![u] = stake'[u]]
  /\ UNCHANGED <<earned, rate, emitted>>

Move(u, v) ==
  /\ \E amount \in 1..stake[u] :
       stake' = [stake EXCEPT ![u] = @ - amount, ![v] = @ + amount]
  /\ UNCHANGED <<earned, rate, emitted>>

Accrue ==
  /\ emitted' = emitted + rate
  /\ \A u \in Users :
       /\ earned'[u] >= earned[u]
       /\ stake[u] = 0 => earned'[u] = earned[u]
  /\ \A u, v \in Users :
       stake[u] >= stake[v] =>
         (earned'[u] - earned[u]) + 1 >= earned'[v] - earned[v]
  /\ Sum(earned') <= emitted'
  /\ UNCHANGED <<stake, rate>>

SetRate ==
  /\ rate' # rate
  /\ UNCHANGED <<stake, earned, emitted>>

SwitchOff ==
  /\ rate # 0
  /\ rate' = 0
  /\ \A u \in Users : earned'[u] <= earned[u]
  /\ UNCHANGED <<stake, emitted>>

Next ==
  \/ \E u \in Users : Deposit(u) \/ Withdraw(u)
  \/ \E u, v \in Users : u # v /\ Move(u, v)
  \/ Accrue
  \/ SetRate
  \/ SwitchOff

Spec == Init /\ [][Next]_vars
============================================================================
