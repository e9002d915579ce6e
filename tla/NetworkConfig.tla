--------------------------- MODULE NetworkConfig ---------------------------
(***************************************************************************)
(* The configuration of the deployment scripts, by the name of the network *)
(* that hardhat was started for (helpers/constants.ts, hardhat.config.ts). *)
(* Addresses are names: two addresses of the source are the same string    *)
(* here exactly if they are the same there.                                *)
(***************************************************************************)

Networks == {"hardhat", "kovan", "rinkeby", "main", "astar", "shiden", "shibuya",
             "coverage", "tenderly", "ganache"}

NotGiven == ""          \* an optional parameter that the caller left out
ZERO_ADDRESS == "0x0"

(* The parameter if it was given, the configuration otherwise. *)
Default(parameter, configured) == IF parameter = NotGiven THEN configured ELSE parameter

NotFalsyOrZeroAddress(address) == address \notin {NotGiven, ZERO_ADDRESS}

(* A network without a case of its own, "coverage" among them, gets main's. *)
GetParamPerNetwork(table, network) ==
  IF network \in {"hardhat", "kovan", "rinkeby", "main", "astar", "shiden", "shibuya"}
  THEN table[network] ELSE table["main"]

GetTokenPerNetwork(network) == GetParamPerNetwork(
  [coverage |-> ZERO_ADDRESS, hardhat |-> "mockLay", rinkeby |-> ZERO_ADDRESS,
   kovan |-> "mockLay", main |-> "lay", astar |-> "layAstar",
   shiden |-> "layShiden", shibuya |-> "layShibuya"], network)

GetCooldownSecondsPerNetwork(network) == GetParamPerNetwork(
  [coverage |-> "1h", hardhat |-> "1h", rinkeby |-> "1h", kovan |-> "1h",
   main |-> "10d", astar |-> "10d", shiden |-> "1h", shibuya |-> "1h"], network)

GetUnstakeWindowPerNetwork(network) == GetParamPerNetwork(
  [coverage |-> "30m", hardhat |-> "30m", rinkeby |-> "30m", kovan |-> "30m",
   main |-> "2d", astar |-> "2d", shiden |-> "30m", shibuya |-> "30m"], network)

GetAdminPerNetwork(network) == GetParamPerNetwork(
  [coverage |-> ZERO_ADDRESS, hardhat |-> "governance", rinkeby |-> ZERO_ADDRESS,
   kovan |-> "operations", main |-> "governance", astar |-> "emissionManager",
   shiden |-> "deployer", shibuya |-> "operations"], network)

GetDistributionDurationPerNetwork(network) == GetParamPerNetwork(
  [coverage |-> "1d", hardhat |-> "10d", rinkeby |-> "1d", kovan |-> "10d",
   main |-> "150d", astar |-> "150d", shiden |-> "1d", shibuya |-> "1d"], network)

GetIncentivesVaultPerNetwork(network) == GetParamPerNetwork(
  [coverage |-> NotGiven, hardhat |-> "operations", rinkeby |-> ZERO_ADDRESS,
   kovan |-> "operations", main |-> "mainVault", astar |-> "astarVault",
   shiden |-> "operations", shibuya |-> "operations"], network)

(* Whether the network's entry in the configuration has a chainId. *)
HasChainId(network) == network \notin {"ganache", "coverage"}

(* SUPPORTED_ETHERSCAN_NETWORKS *)
SupportedByEtherscan(network) == network \in {"main", "kovan"}

=============================================================================
