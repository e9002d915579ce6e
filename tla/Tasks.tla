------------------------------- MODULE Tasks -------------------------------
(***************************************************************************)
(* The tasks that have nothing to do with each other: the verification of  *)
(* sources, the rehearsals of proposals on a fork of either kind, the      *)
(* rounds of claims and redemptions, and the deployment of the pool.  A    *)
(* behaviour is about one of them, its scenario; the variables of the      *)
(* others stay as they are initially.                                      *)
(***************************************************************************)
EXTENDS EtherscanVerification

CONSTANTS Scenarios,
          Operator,         \* who rehearses proposals or deploys pools, alone
          ETHERSCAN_KEY,
          Forks, RehearsalTasks, MaxRuns, VOTING_DURATION, DELAY, GRACE_PERIOD,
          MINIMUM_QUORUM, PROPOSITION_THRESHOLD, Holdings,          \* of ForkRehearsal
          HoldersOf, Top, ROUNDS, Rethrows,
          COOLDOWN_SECONDS, UNSTAKE_WINDOW, GAPS, InitialStake, Claims,  \* of RewardRounds
          PoolNetwork, Flags, MaxPools, MaxBlocks                   \* of PoolDeployment

(* What the chain guarantees of its numbers; a second and the time that    *)
(* the three transactions after the cooldown take fit into the window in   *)
(* which a stake can be redeemed.                                          *)
ASSUME RoundsAssumption ==
  /\ Top \in Nat \ {0} /\ ROUNDS \in Nat \ {0}
  /\ COOLDOWN_SECONDS \in Nat /\ UNSTAKE_WINDOW \in Nat
  /\ GAPS \subseteq Nat /\ \A gap \in GAPS : 1 + 3 * gap <= UNSTAKE_WINDOW
  /\ InitialStake \in Nat /\ Claims \subseteq Nat

(* The voting takes two blocks or more, the grace period a second; what    *)
(* the whales send, 32 times 100 000 LAY, is enough to propose and to make *)
(* the quorum.                                                             *)
ASSUME ForkAssumption ==
  /\ RehearsalTasks \subseteq {"proposal-stk-extensions", "proposal-stk-lay-extension:tenderly",
                              "proposal-vault-approval:tenderly", "exec-stks:tenderly"}
  /\ MaxRuns \in [Forks -> Nat] /\ GRACE_PERIOD \in Nat \ {0}
  /\ \A executor \in {"LONG_EXECUTOR", "SHORT_EXECUTOR"} :
       /\ VOTING_DURATION[executor] \in Nat \ {0, 1} /\ DELAY[executor] \in Nat
       /\ MINIMUM_QUORUM[executor] \in 0 .. 32 /\ PROPOSITION_THRESHOLD[executor] \in 0 .. 32
  /\ \A whale \in DOMAIN Holdings : Holdings[whale] \in Nat
  /\ Operator \notin {"WHALE", "WHALE_2"}

VARIABLES scenario,
          network, block, time, transfers, deployed, proxies, approved, proposals, runs, started,
          stake, cooldown, wallet, call,
          poolBlock, pools, tokens, others, poolRuns, poolStarted

forkVars == <<network, block, time, transfers, deployed, proxies, approved, proposals, runs, started>>
roundVars == <<stake, cooldown, wallet, call>>
poolVars == <<poolBlock, pools, tokens, others, poolRuns, poolStarted>>
tasksVars == <<scenario, vars, forkVars, roundVars, poolVars>>

Fork == INSTANCE ForkRehearsal WITH Operators <- {Operator}, Tasks <- RehearsalTasks

Rounds == INSTANCE RewardRounds

Pool == INSTANCE PoolDeployment WITH
  Operators <- {Operator}, Network <- PoolNetwork, MaxRuns <- MaxPools,
  block <- poolBlock, runs <- poolRuns, started <- poolStarted

----------------------------------------------------------------------------

(* Only a rehearsal may find a proposal on the main network; the other     *)
(* scenarios need not look at every network that could fork it.            *)
TasksInit ==
  /\ scenario \in Scenarios
  /\ Init /\ Fork!Init /\ Rounds!Init /\ Pool!Init
  /\ scenario # "rehearsals" => proposals = <<>> /\ network = "tenderly"

Verifies == scenario = "verification" /\ Next /\ UNCHANGED <<forkVars, roundVars, poolVars>>

Rehearses == scenario = "rehearsals" /\ Fork!Next /\ UNCHANGED <<vars, roundVars, poolVars>>

Redeems == scenario = "rounds" /\ Rounds!Next /\ UNCHANGED <<vars, forkVars, poolVars>>

DeploysPool == scenario = "pool" /\ Pool!Next /\ UNCHANGED <<vars, forkVars, roundVars>>

TasksNext == (Verifies \/ Rehearses \/ Redeems \/ DeploysPool) /\ UNCHANGED scenario

(* The fairness each module gives its tasks. *)
TasksSpec ==
  /\ TasksInit /\ [][TasksNext]_tasksVars
  /\ \A v \in Verifications : WF_tasksVars(Verifies /\ Step(v) /\ UNCHANGED scenario)
  /\ WF_tasksVars(/\ scenario = "rehearsals" /\ Fork!Continue(Operator)
                  /\ UNCHANGED <<scenario, network, vars, roundVars, poolVars>>)

----------------------------------------------------------------------------
(* The properties of the modules, each of the scenario it is about. *)

(* The variables of every task keep their types; balances and stakes stay  *)
(* natural numbers, whatever fails.                                        *)
TasksTypeOK == TypeOK /\ Fork!TypeOK /\ Rounds!TypeOK /\ Pool!TypeOK

(* verifyContract ends, however Etherscan answers: retries run out. *)
EveryVerificationEnds == scenario = "verification" => VerificationEnds

(* A rehearsal that ends well has executed the proposal it made itself. *)
FinishedMeansExecuted == Fork!FinishedMeansExecuted

(* No vote, queue or execution comes too early or too late for governance. *)
RehearsalsKeepTheSchedule == Fork!RehearsalsKeepTheSchedule

(* A rehearsal ends, also where blocks are mined one by one up to a target. *)
EveryRehearsalEnds == scenario = "rehearsals" => Fork!EveryRehearsalEnds

(* No error that is swallowed costs a holder any of the stake. *)
NothingIsLost == Rounds!NothingIsLost

(* Redemptions are sent within their window. *)
RedeemsInWindow == Rounds!RedeemsInWindow

(* A run never takes the pool of an earlier run for its own. *)
FindsItsOwnPool == Pool!FindsItsOwnPool

(* Shares of a pool can be staked only once it is filled and closed. *)
StakedPoolsAreClosed == Pool!StakedPoolsAreClosed
=============================================================================
