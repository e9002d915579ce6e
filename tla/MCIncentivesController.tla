---------------------- MODULE MCIncentivesController ----------------------
(***************************************************************************)
(* Small instances of IncentivesController: lists that name every asset,   *)
(* and lists that name one of them twice and leave out the other.          *)
(***************************************************************************)
EXTENDS IncentivesController, TLC

MCAssetLists ==
  {<<a, b>> : a, b \in Assets}

ControllerSymmetry == Permutations(Users) \cup Permutations(Assets)
============================================================================
