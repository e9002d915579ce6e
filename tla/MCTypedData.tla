---------------------------- MODULE MCTypedData ----------------------------
EXTENDS TypedData, TLC

(* The second token is the one deploy-CRP stakes the pool's shares in. *)
TokenNames == [stkLay |-> "Staked Lay", stkToken |-> "Starlay stakedToken"]

TokenPlaces == {<<1, "stkLay">>, <<2, "stkLay">>, <<1, "stkToken">>}

UserSymmetry == Permutations(Users)

=============================================================================
