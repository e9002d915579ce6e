---------------------------- MODULE MCDeployment ----------------------------
(***************************************************************************)
(* Instances of Deployment for TLC: by whom, how often and with which      *)
(* parameters the tasks are run, in several scenarios that one run goes    *)
(* through.                                                                *)
(***************************************************************************)
EXTENDS Deployment, FiniteSets

CONSTANT Scenarios   \* of those below

VARIABLE scenario    \* the one of this behaviour

Ask(name, parameters) == [task |-> name, params |-> parameters]
Verified == [NoParameters EXCEPT !.verify = TRUE]
Keyless == [Verified EXCEPT !.ETHERSCAN_KEY = FALSE]
ForManager == [NoParameters EXCEPT !.emissionManager = "manager"]
ForAdmin == [NoParameters EXCEPT !.admin = "operations"]

(* What brings a network up, from an empty file or on top of what an       *)
(* earlier attempt left.                                                   *)
RedeployRequests == {Ask("common-deployment", Verified),
                     Ask("deploy-StakedTokenV2Rev4", ForManager)}

(* Two operators bring the network up at once. *)
ConcurrentRequests == {Ask("common-deployment", NoParameters),
                       Ask("deploy-StakedTokenV2Rev4", ForManager),
                       Ask("initialize-StakedTokenV2Rev4", NoParameters)}

(* An upgrade by hand on top of it, in any order. *)
UpgradeRequests == {Ask("common-deployment", NoParameters),
                    Ask("initialize-StakedLay", ForAdmin),
                    Ask("initialize-StakedTokenV2Rev3", NoParameters),
                    Ask("deploy-StakedTokenV2Rev4", ForManager),
                    Ask("initialize-StakedTokenV2Rev4", NoParameters)}

(* Tasks at once that are independent, some with less than they need. *)
SingleRequests == {Ask("deploy-StakedLay", Keyless), Ask("deploy-StakedLay", Verified),
                   Ask("dev-deployment", NoParameters),
                   Ask("initialize-StakedLay", NoParameters),
                   Ask("deploy-StakedTokenV2Rev3", NoParameters),
                   Ask("deploy-StakedTokenV2Rev4", NoParameters)}

StepwiseRequests == {Ask("deploy-StakedLay", NoParameters),
                     Ask("deploy-StakedTokenV2Rev3", NoParameters),
                     Ask("initialize-StakedTokenV2Rev3", NoParameters)}

RunsOf(operators, signers, requests, runsAtMost) ==
  [operators |-> operators, signers |-> signers, requests |-> requests, runs |-> runsAtMost]

Scenario == [
  again    |-> RunsOf({"alice"}, {"operations"}, RedeployRequests, 3),
  together |-> RunsOf({"alice", "bob"}, {"operations"}, ConcurrentRequests, 2),
  accounts |-> RunsOf({"alice"}, {"operations", "stranger"}, UpgradeRequests, 2),
  upgrades |-> RunsOf({"alice"}, {"operations"}, UpgradeRequests, 3),
  single   |-> RunsOf({"alice", "bob"}, {"operations"}, SingleRequests, 2),
  stepwise |-> RunsOf({"alice"}, {"operations"}, StepwiseRequests, 3)]

AllRequests == UNION {Scenario[s].requests : s \in Scenarios}

(* A run of the scenario is started, or none. *)
InScenario ==
  started' # started =>
    LET only == Scenario[scenario]
    IN started' <= only.runs /\
       \E o \in only.operators : ~Running(o) /\ runs'[o].status = "running"
         /\ runs'[o].request \in only.requests /\ runs'[o].signer \in only.signers

MCInit == Init /\ scenario \in Scenarios

MCNext == Next /\ InScenario /\ UNCHANGED scenario

mcVars == <<vars, scenario>>

(* The fairness of Spec: no scenario restricts what it is about. *)
MCSpec ==
  /\ MCInit /\ [][MCNext]_mcVars
  /\ \A o \in Operators : WF_vars(Advance(o))
  /\ WF_vars(\E a \in DOMAIN contracts : Mine(a))

=============================================================================
