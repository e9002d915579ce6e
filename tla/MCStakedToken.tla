--------------------------- MODULE MCStakedToken ---------------------------
(***************************************************************************)
(* Small instances of StakedToken: two stakers and the deployment of the   *)
(* repository, in which the same token is staked and paid as a reward.  No *)
(* hook runs before a transfer.                                            *)
(***************************************************************************)
EXTENDS StakedToken, TLC

CONSTANTS UserTokens, VaultTokens  \* what each user and the vault start with

MCInitialLedger ==
  [t \in Tokens |->
    [a \in Accounts |-> IF a \in Users THEN UserTokens
                        ELSE IF a = REWARDS_VAULT THEN VaultTokens ELSE 0]]

NoHook == "none"

MCBeforeTokenTransfer(h, b, from, to, amount, block) == {h}

(* A bound of the runs about rewards: cooldowns start in the first block. *)
EarlyCooldowns == \A u \in Users : activated[u] \in {0, START}

UserSymmetry == Permutations(Users)
============================================================================
