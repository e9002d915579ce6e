---------------------------- MODULE RewardRounds ----------------------------
(***************************************************************************)
(* The second half of exec-stks:tenderly and of the task that does not     *)
(* execute the proposal: holder by holder, in three rounds, the rewards    *)
(* are claimed and the stake is redeemed and staked again, to see whether  *)
(* there are still rewards.  The first holder of one token and the first   *)
(* of the other take turns; a holder may stake both.                       *)
(*                                                                         *)
(* Of the staked tokens there is what such a round meets: stakes, wallets  *)
(* and how many seconds ago a cooldown was asked for.  A cooldown that ran *)
(* out of its window is as good as none, and counted no further.           *)
(***************************************************************************)
EXTENDS Integers, Sequences

CONSTANTS HoldersOf,         \* the list of each staked token
          Top,               \* how many of each list are gone through
          ROUNDS,
          Rethrows,          \* whether an error ends the task
          COOLDOWN_SECONDS,
          UNSTAKE_WINDOW,    \* longer than the transactions of one call take
          GAPS,              \* seconds from a block to the one of the next transaction
          InitialStake,
          Claims             \* what a claim may bring

VARIABLES stake, cooldown, wallet,         \* on the fork
          call                             \* where the task is, and its variables

vars == <<stake, cooldown, wallet, call>>
fork == <<stake, cooldown, wallet>>

StakedTokens == {"stkLay", "stkBpt"}
Underlying == [stkLay |-> "lay", stkBpt |-> "bpt"]
Holders == UNION {{HoldersOf[t][i] : i \in DOMAIN HoldersOf[t]} : t \in StakedTokens}

Expired == COOLDOWN_SECONDS + UNSTAKE_WINDOW + 1

Ready == [at |-> "begin", round |-> 0, y |-> 1, token |-> "stkLay", holder |-> "nobody",
          remaining |-> 0, rewards |-> 0, balanceBefore |-> 0, balanceAfter |-> 0,
          redeemed |-> 0]

Init ==
  /\ stake = [t \in StakedTokens |-> [h \in Holders |->
                IF \E i \in DOMAIN HoldersOf[t] : HoldersOf[t][i] = h THEN InitialStake ELSE 0]]
  /\ cooldown = [t \in StakedTokens |-> [h \in Holders |-> Expired]]
  /\ wallet = [c \in {"lay", "bpt"} |-> [h \in Holders |-> 0]]
  /\ call = Ready

token == call.token
holder == call.holder
coin == Underlying[token]

(* The next call of rewardAndRedeem, in the order of the two loops. *)
NextCall ==
  LET next == [Ready EXCEPT !.round = call.round, !.y = call.y]
  IN CASE token = "stkLay" -> [next EXCEPT !.token = "stkBpt"]
       [] token = "stkBpt" /\ call.y < Top -> [next EXCEPT !.y = @ + 1]
       [] token = "stkBpt" /\ call.y = Top /\ call.round + 1 < ROUNDS ->
            [next EXCEPT !.y = 1, !.round = @ + 1]
       [] OTHER -> [next EXCEPT !.at = "done"]

(* The catch of rewardAndRedeem: one task throws again, the other goes on. *)
Catch == call' = IF Rethrows THEN [call EXCEPT !.at = "thrown"] ELSE NextCall

(* The fork's clock goes on by itself from one transaction to the next.    *)
Later(seconds) ==
  [t \in StakedTokens |-> [h \in Holders |->
     IF cooldown[t][h] + seconds > Expired THEN Expired ELSE cooldown[t][h] + seconds]]

(* A transaction may fail: the node refuses it or the gas does not do.     *)
Fails ==
  /\ call.at \in {"cooldown", "claim", "approve", "redeem", "stake"}
  /\ Catch /\ UNCHANGED fork

(* What comes before the try: whoever is not in the list has no signer. *)
Begin ==
  /\ call.at = "begin"
  /\ call' = IF call.y \in DOMAIN HoldersOf[token]
             THEN [call EXCEPT !.at = "cooldown", !.holder = HoldersOf[token][call.y]]
             ELSE [call EXCEPT !.at = "thrown"]
  /\ UNCHANGED fork

Cooldown ==
  /\ call.at = "cooldown"
  /\ IF stake[token][holder] = 0 THEN Catch /\ UNCHANGED cooldown
     ELSE /\ \E s \in GAPS : cooldown' = [Later(s) EXCEPT ![token][holder] = 0]
          /\ call' = [call EXCEPT !.at = "remaining"]
  /\ UNCHANGED <<stake, wallet>>

RemainingCooldown ==
  /\ call.at = "remaining"
  /\ call' = [call EXCEPT !.at = "claim",
                          !.remaining = COOLDOWN_SECONDS - cooldown[token][holder]]
  /\ UNCHANGED fork

(* What is claimed is what the balance of LAY grows by. *)
ClaimRewards ==
  /\ call.at = "claim"
  /\ \E s \in GAPS : cooldown' = Later(s)
  /\ \E rewards \in Claims :
       /\ wallet' = [wallet EXCEPT !["lay"][holder] = @ + rewards]
       /\ call' = [call EXCEPT !.at = "wait", !.rewards = rewards]
  /\ UNCHANGED stake

(* Mutant: until the cooldown is over, and no longer. *)
IncreaseTimeExactly ==
  /\ call.at = "wait"
  /\ cooldown' = Later(call.remaining)
  /\ call' = [call EXCEPT !.at = "approve", !.balanceBefore = wallet[coin][holder]]
  /\ UNCHANGED <<stake, wallet>>

IncreaseTime ==
  /\ call.at = "wait"
  /\ cooldown' = Later(call.remaining + 1)
  /\ call' = [call EXCEPT !.at = "approve", !.balanceBefore = wallet[coin][holder]]
  /\ UNCHANGED <<stake, wallet>>

Approve ==
  /\ call.at = "approve"
  /\ \E s \in GAPS : cooldown' = Later(s)
  /\ call' = [call EXCEPT !.at = "redeem"]
  /\ UNCHANGED <<stake, wallet>>

WindowIsOpen(age) == age > COOLDOWN_SECONDS /\ age - COOLDOWN_SECONDS <= UNSTAKE_WINDOW

(* The whole stake is redeemed, and the cooldown with it. *)
Redeem(seconds) ==
  /\ call.at = "redeem"
  /\ IF ~WindowIsOpen(Later(seconds)[token][holder]) THEN Catch /\ UNCHANGED fork
     ELSE LET after == wallet[coin][holder] + stake[token][holder]
          IN /\ stake' = [stake EXCEPT ![token][holder] = 0]
             /\ cooldown' = [Later(seconds) EXCEPT ![token][holder] = Expired]
             /\ wallet' = [wallet EXCEPT ![coin][holder] = after]
             /\ call' = [call EXCEPT !.at = "stake", !.balanceAfter = after,
                           !.redeemed = after - call.balanceBefore
                                        - (IF token = "stkLay" THEN call.rewards ELSE 0)]

(* Mutant: what is staked again is what was redeemed, but all is sent. *)
RestakeRedeemed ==
  /\ call.at = "stake"
  /\ stake' = [stake EXCEPT ![token][holder] = @ + call.redeemed]
  /\ wallet' = [wallet EXCEPT ![coin][holder] = @ - call.balanceAfter]
  /\ call' = NextCall
  /\ UNCHANGED cooldown

(* Everything in the wallet is staked, what was there before as well. *)
Restake ==
  /\ call.at = "stake"
  /\ stake' = [stake EXCEPT ![token][holder] = @ + call.balanceAfter]
  /\ wallet' = [wallet EXCEPT ![coin][holder] = @ - call.balanceAfter]
  /\ call' = NextCall
  /\ \E s \in GAPS : cooldown' = Later(s)

Next ==
  \/ Begin \/ Cooldown \/ RemainingCooldown \/ ClaimRewards \/ IncreaseTime
  \/ Approve \/ (\E s \in GAPS : Redeem(s)) \/ Restake \/ Fails

Spec == Init /\ [][Next]_vars

----------------------------------------------------------------------------

TypeOK ==
  /\ \A t \in StakedTokens, h \in Holders : stake[t][h] \in Nat /\ cooldown[t][h] \in 0 .. Expired
  /\ \A c \in {"lay", "bpt"}, h \in Holders : wallet[c][h] \in Nat
  /\ call.round \in 0 .. ROUNDS - 1 /\ call.y \in 1 .. Top

(* The wait that is computed from what the chain said right after the      *)
(* cooldown brings the redemption into the window, however many of GAPS'   *)
(* seconds each transaction takes: no round is lost because it came too    *)
(* early or too late.                                                      *)
RedeemsInWindow == [][
  \A s \in GAPS : Redeem(s) => WindowIsOpen(Later(s)[token][holder])]_vars

(* Whatever calls fail, and wherever: what a holder has staked and what is *)
(* in the wallet is together no less than what the task found.             *)
NothingIsLost ==
  \A t \in StakedTokens : \A i \in DOMAIN HoldersOf[t] :
    LET h == HoldersOf[t][i]
    IN stake[t][h] + wallet[Underlying[t]][h] >= InitialStake

=============================================================================
