----------------------------- MODULE Deployment -----------------------------
(***************************************************************************)
(* The deployment tasks (tasks/deployments, tasks/migrations): operators   *)
(* run hardhat tasks that send transactions to a chain and keep the        *)
(* addresses of what they deployed in deployed-contracts.json.             *)
(*                                                                         *)
(* A task is the sequence of its steps, one for every await of the code;   *)
(* between two steps the other operator's run goes on, a transaction is    *)
(* mined, or the run is interrupted for good.  What a step reads from the  *)
(* file or from the chain, it reads when it is taken.  The file and the    *)
(* chain outlive a run; its variables do not.                              *)
(*                                                                         *)
(* Addresses of deployed contracts are the order in which their creation   *)
(* was sent.  Configured addresses are names (NetworkConfig).              *)
(***************************************************************************)
EXTENDS NetworkConfig, Integers, Sequences

CONSTANTS Operators,
          Network,        \* that hardhat was started for
          Signers,        \* who may be the first account of the mnemonic
          Requests,       \* the tasks, with their parameters and environment
          MaxRuns         \* bound on how many runs are started

VARIABLES contracts,  \* on the chain, in the order they were sent
          db,         \* deployed-contracts.json, for Network
          runs,       \* the run of each operator
          started     \* how many runs there were

vars == <<contracts, db, runs, started>>

NoAddress == 0
NoCode == "none"

ASSUME SignersAssumption == NoCode \notin Signers

(* Hardhat refuses the name of a task it does not have. *)
ASSUME RequestsAssumption ==
  /\ MaxRuns \in Nat
  /\ \A request \in Requests : request.task \in
       {"deploy-StakedLay", "initialize-StakedLay", "deploy-StakedTokenV2Rev3",
        "initialize-StakedTokenV2Rev3", "deploy-StakedTokenV2Rev4",
        "initialize-StakedTokenV2Rev4", "common-deployment", "dev-deployment"}

(* The kinds of contract the tasks deploy, named as their artifacts are. *)
Proxy == "InitializableAdminUpgradeabilityProxy"
Revision == [StakedLay |-> 1, StakedTokenV2Rev3 |-> 3, StakedTokenV2Rev4 |-> 4]
Implementations == DOMAIN Revision
Keys == Implementations \union {Proxy, "StakedLayImpl"}

(* What the constructors make immutable. *)
Arguments(token, vault, emissionManager) ==
  [STAKED_TOKEN |-> token, REWARD_TOKEN |-> token,
   COOLDOWN_SECONDS |-> GetCooldownSecondsPerNetwork(Network),
   UNSTAKE_WINDOW |-> GetUnstakeWindowPerNetwork(Network),
   REWARDS_VAULT |-> vault, EMISSION_MANAGER |-> emissionManager,
   DURATION |-> GetDistributionDurationPerNetwork(Network)]

NoArguments == Arguments(NotGiven, NotGiven, NotGiven)

----------------------------------------------------------------------------
(* The chain: what a contract is, and what a transaction to it does. *)

Created(kind, args, sender) ==
  [kind |-> kind, status |-> "pending", args |-> args, sender |-> sender,
   implementation |-> NoAddress, admin |-> NoCode, lastInitializedRevision |-> 0]

HasCode(a) == a \in DOMAIN contracts /\ contracts[a].status = "mined"

IsA(a, kind) == HasCode(a) /\ contracts[a].kind = kind

(* Only the constructor of the first implementation insists on its addresses. *)
ConstructorAccepts(kind, args) ==
  kind = "StakedLay" => \A f \in {"STAKED_TOKEN", "REWARDS_VAULT", "EMISSION_MANAGER"} :
                          args[f] # ZERO_ADDRESS

(* Mutant: any initializer, as without VersionedInitializable. *)
InitializerAcceptsAnyRevision(proxy, implementation, initializers) ==
  HasCode(implementation) /\ contracts[implementation].kind \in initializers

(* Mutant: the proxy does not ask whether there is code. *)
InitializerAcceptsNoCode(proxy, implementation, initializers) ==
  /\ implementation \in DOMAIN contracts
  /\ contracts[implementation].kind \in initializers
  /\ Revision[contracts[implementation].kind] > contracts[proxy].lastInitializedRevision

(* The initializer of an implementation, run by the proxy: it must exist   *)
(* with those arguments, and its revision be later than the proxy's.       *)
InitializerAccepts(proxy, implementation, initializers) ==
  /\ HasCode(implementation)
  /\ contracts[implementation].kind \in initializers
  /\ Revision[contracts[implementation].kind] > contracts[proxy].lastInitializedRevision

(* initialize(address,address,bytes), with the first implementation's own  *)
(* initialize(address,string,string,uint8) as data.                        *)
InitializeAccepted(proxy, implementation) ==
  /\ IsA(proxy, Proxy)
  /\ contracts[proxy].implementation = NoAddress
  /\ InitializerAccepts(proxy, implementation, {"StakedLay"})

(* upgradeToAndCall(address,bytes), with initialize() as data.  Anybody    *)
(* but the administrator speaks to the implementation instead.             *)
UpgradeAccepted(proxy, implementation, sender) ==
  /\ IsA(proxy, Proxy)
  /\ contracts[proxy].admin = sender
  /\ InitializerAccepts(proxy, implementation, {"StakedTokenV2Rev3", "StakedTokenV2Rev4"})

(* A transaction to an address without code, or handed on by a proxy that  *)
(* has no implementation yet, succeeds and does nothing.                   *)
InitializeIgnored(proxy) == ~HasCode(proxy)
UpgradeIgnored(proxy) ==
  \/ ~HasCode(proxy)
  \/ IsA(proxy, Proxy) /\ contracts[proxy].implementation = NoAddress

SetUpProxy(proxy, implementation, admin) ==
  [contracts EXCEPT ![proxy].implementation = implementation,
                    ![proxy].admin = admin,
                    ![proxy].lastInitializedRevision = Revision[contracts[implementation].kind]]

----------------------------------------------------------------------------
(* The tasks. *)

Check(ok) == IF ok THEN <<>> ELSE <<[op |-> "throw"]>>

CheckVerification(p) ==
  IF p.verify /\ ~(p.ETHERSCAN_KEY /\ SupportedByEtherscan(Network)) THEN <<[op |-> "exit"]>>
                                                                   ELSE <<>>

VerifyContract(verify) == IF verify THEN <<[op |-> "verify"]>> ELSE <<>>

Await == <<[op |-> "await"]>>

RegisterContractInJsonDb(key) == <<[op |-> "register", key |-> key]>>

DeployContract(name, args) ==
  <<[op |-> "deploy", kind |-> name, args |-> args]>> \o RegisterContractInJsonDb(name)

DeployStakedLay(args, verify) ==
  DeployContract("StakedLay", args) \o VerifyContract(verify)

DeployStakedTokenV2Revision3(args, verify) ==
  DeployContract("StakedTokenV2Rev3", args) \o VerifyContract(verify)

DeployStakedTokenV2Revision4(args, verify) ==
  DeployContract("StakedTokenV2Rev4", args) \o VerifyContract(verify)

DeployInitializableAdminUpgradeabilityProxy(verify) ==
  DeployContract(Proxy, NoArguments) \o Await \o VerifyContract(verify)

(* Mutant: the proxy's address is kept under its own name only. *)
DeployStakedLayTaskUnnamed(p) ==
  CheckVerification(p) \o Check(HasChainId(Network))
  \o DeployStakedLay(Arguments(Default(p.tokenAddress, GetTokenPerNetwork(Network)),
                               Default(p.vaultAddress, GetIncentivesVaultPerNetwork(Network)),
                               "emissionManager"), FALSE)
  \o Await \o RegisterContractInJsonDb("StakedLayImpl")
  \o DeployInitializableAdminUpgradeabilityProxy(p.verify)

DeployStakedLayTask(p) ==
  CheckVerification(p) \o Check(HasChainId(Network))
  \o DeployStakedLay(Arguments(Default(p.tokenAddress, GetTokenPerNetwork(Network)),
                               Default(p.vaultAddress, GetIncentivesVaultPerNetwork(Network)),
                               "emissionManager"), FALSE)
  \o Await \o RegisterContractInJsonDb("StakedLayImpl")
  \o DeployInitializableAdminUpgradeabilityProxy(p.verify)
  \o RegisterContractInJsonDb("StakedLay")

InitializeStakedLayTask(admin) ==
  Check(admin # NotGiven) \o Check(HasChainId(Network))
  \o <<[op |-> "get implementation", key |-> "StakedLayImpl"], [op |-> "get proxy"],
       [op |-> "initialize", admin |-> admin]>>

DeployStakedTokenV2Rev3Task(p) ==
  LET token == Default(p.tokenAddress, GetTokenPerNetwork(Network))
      vault == Default(p.vaultAddress, GetIncentivesVaultPerNetwork(Network))
      em == Default(p.emissionManager, GetAdminPerNetwork(Network))
  IN CheckVerification(p) \o Check(HasChainId(Network))
     \o Check(\A address \in {token, vault, em} : NotFalsyOrZeroAddress(address))
     \o DeployStakedTokenV2Revision3(Arguments(token, vault, em), p.verify)
     \o Await \o RegisterContractInJsonDb("StakedTokenV2Rev3")

(* The emission manager that is checked is the parameter, not the default. *)
DeployStakedTokenV2Rev4Task(p) ==
  LET token == Default(p.tokenAddress, GetTokenPerNetwork(Network))
      vault == Default(p.vaultAddress, GetIncentivesVaultPerNetwork(Network))
      em == Default(p.emissionManager, GetAdminPerNetwork(Network))
  IN CheckVerification(p) \o Check(HasChainId(Network))
     \o Check(\A address \in {token, vault, p.emissionManager} : NotFalsyOrZeroAddress(address))
     \o DeployStakedTokenV2Revision4(Arguments(token, vault, em), p.verify)
     \o Await \o RegisterContractInJsonDb("StakedTokenV2Rev4")

InitializeStakedTokenV2Rev3Task ==
  Check(HasChainId(Network))
  \o <<[op |-> "get implementation", key |-> "StakedTokenV2Rev3"], [op |-> "get proxy"],
       [op |-> "upgrade"]>>

InitializeStakedTokenV2Rev4Task ==
  Check(HasChainId(Network))
  \o <<[op |-> "get implementation", key |-> "StakedTokenV2Rev4"], [op |-> "get proxy"],
       [op |-> "upgrade"]>>

(* What a task is called with, and whether its environment has the key.    *)
NoParameters == [verify |-> FALSE, tokenAddress |-> NotGiven, vaultAddress |-> NotGiven,
                 emissionManager |-> NotGiven, admin |-> NotGiven, ETHERSCAN_KEY |-> TRUE]

CommonDeploymentTask(p) ==
  LET admin == GetAdminPerNetwork(Network)
  IN Check(admin # NotGiven) \o CheckVerification(p)
     \o DeployStakedLayTask(p) \o InitializeStakedLayTask(admin)
     \o DeployStakedTokenV2Rev3Task(NoParameters)
     \o InitializeStakedTokenV2Rev3Task \o InitializeStakedTokenV2Rev4Task

DevDeploymentTask == DeployStakedLayTask(NoParameters)

Script(request) ==
  CASE request.task = "deploy-StakedLay" -> DeployStakedLayTask(request.params)
    [] request.task = "initialize-StakedLay" -> InitializeStakedLayTask(request.params.admin)
    [] request.task = "deploy-StakedTokenV2Rev3" -> DeployStakedTokenV2Rev3Task(request.params)
    [] request.task = "initialize-StakedTokenV2Rev3" -> InitializeStakedTokenV2Rev3Task
    [] request.task = "deploy-StakedTokenV2Rev4" -> DeployStakedTokenV2Rev4Task(request.params)
    [] request.task = "initialize-StakedTokenV2Rev4" -> InitializeStakedTokenV2Rev4Task
    [] request.task = "common-deployment" -> CommonDeploymentTask(request.params)
    [] request.task = "dev-deployment" -> DevDeploymentTask

----------------------------------------------------------------------------
(* The runs. *)

NoRun == [status |-> "none", request |-> [task |-> "none", params |-> NoParameters],
          signer |-> NoCode, script |-> <<>>, disturbed |-> FALSE, alone |-> TRUE,
          instance |-> NoAddress, implementation |-> NoAddress, proxy |-> NoAddress]

Init ==
  /\ contracts = <<>>
  /\ db = [k \in Keys |-> NoAddress]
  /\ runs = [o \in Operators |-> NoRun]
  /\ started = 0

Running(o) == runs[o].status = "running"
Step(o) == Head(runs[o].script)
AtStep(o, op) == Running(o) /\ runs[o].script # <<>> /\ Step(o).op = op

Proceed(o, run) == runs' = [runs EXCEPT ![o] = [run EXCEPT !.script = Tail(@)]]

(* The variables of a run end with it. *)
End(o, status) ==
  runs' = [runs EXCEPT ![o] = [NoRun EXCEPT !.status = status, !.request = runs[o].request,
                                            !.signer = runs[o].signer,
                                            !.disturbed = runs[o].disturbed]]

(* The network "hardhat" is a chain of the process: a run begins on an     *)
(* empty one, with the file of the earlier runs.  alone is history: whether *)
(* no other run went on in the meantime.                                   *)
Start(o, request, signer) ==
  /\ ~Running(o)
  /\ started < MaxRuns
  /\ started' = started + 1
  /\ runs' = [x \in Operators |->
       IF x = o THEN [NoRun EXCEPT !.status = "running", !.request = request,
                                   !.signer = signer, !.script = Script(request),
                                   !.alone = \A other \in Operators : ~Running(other)]
       ELSE [runs[x] EXCEPT !.alone = @ /\ ~Running(x)]]
  /\ contracts' = IF Network = "hardhat" THEN <<>> ELSE contracts
  /\ UNCHANGED db

(* Transactions of one account are mined in the order they were sent. *)
EarlierOnesMined(o) ==
  \A a \in DOMAIN contracts : contracts[a].sender = runs[o].signer
                              => contracts[a].status # "pending"

SendDeployment(o) ==
  /\ AtStep(o, "deploy")
  /\ IF ConstructorAccepts(Step(o).kind, Step(o).args)
     THEN /\ contracts' = Append(contracts, Created(Step(o).kind, Step(o).args, runs[o].signer))
          /\ Proceed(o, [runs[o] EXCEPT !.instance = Len(contracts) + 1])
     ELSE End(o, "thrown") /\ UNCHANGED contracts
  /\ UNCHANGED <<db, started>>

(* A creation is mined, or fails, and the run that waits for it with it. *)
Mine(a) ==
  /\ contracts[a].status = "pending"
  /\ \/ contracts' = [contracts EXCEPT ![a].status = "mined"] /\ UNCHANGED runs
     \/ /\ contracts' = [contracts EXCEPT ![a].status = "failed"]
        /\ runs' = [o \in Operators |-> [runs[o] EXCEPT !.disturbed = @ \/ runs[o].instance = a]]
  /\ UNCHANGED <<db, started>>

(* Mutant: a failed creation is taken for a contract. *)
AwaitDeploymentWhateverComes(o) ==
  /\ AtStep(o, "await")
  /\ contracts[runs[o].instance].status # "pending"
  /\ Proceed(o, runs[o])
  /\ UNCHANGED <<contracts, db, started>>

(* Mutant: waits until the contract is there. *)
AwaitDeploymentForever(o) ==
  /\ AtStep(o, "await")
  /\ HasCode(runs[o].instance)
  /\ Proceed(o, runs[o])
  /\ UNCHANGED <<contracts, db, started>>

AwaitDeployment(o) ==
  /\ AtStep(o, "await")
  /\ contracts[runs[o].instance].status # "pending"
  /\ IF HasCode(runs[o].instance) THEN Proceed(o, runs[o]) ELSE End(o, "thrown")
  /\ UNCHANGED <<contracts, db, started>>

Register(o) ==
  /\ AtStep(o, "register")
  /\ db' = [db EXCEPT ![Step(o).key] = runs[o].instance]
  /\ Proceed(o, runs[o])
  /\ UNCHANGED <<contracts, started>>

(* verifyContract, as EtherscanVerification has it: whatever Etherscan     *)
(* answers, it returns; only a missing key makes it throw.                 *)
Verify(o) ==
  /\ AtStep(o, "verify")
  /\ IF runs[o].request.params.ETHERSCAN_KEY THEN Proceed(o, runs[o]) ELSE End(o, "thrown")
  /\ UNCHANGED <<contracts, db, started>>

GetImplementation(o) ==
  /\ AtStep(o, "get implementation")
  /\ LET address == db[Step(o).key]
     IN IF address = NoAddress THEN End(o, "thrown")
        ELSE Proceed(o, [runs[o] EXCEPT !.implementation = address])
  /\ UNCHANGED <<contracts, db, started>>

GetStakedLayProxy(o) ==
  /\ AtStep(o, "get proxy")
  /\ LET address == db["StakedLay"]
     IN IF address = NoAddress THEN End(o, "thrown")
        ELSE Proceed(o, [runs[o] EXCEPT !.proxy = address])
  /\ UNCHANGED <<contracts, db, started>>

(* Mutant: whoever sends the transaction becomes the administrator. *)
SendInitializeForSender(o) ==
  /\ AtStep(o, "initialize") /\ EarlierOnesMined(o)
  /\ LET proxy == runs[o].proxy
         implementation == runs[o].implementation
     IN \/ /\ InitializeAccepted(proxy, implementation)
           /\ contracts' = SetUpProxy(proxy, implementation, runs[o].signer)
           /\ Proceed(o, runs[o])
        \/ /\ ~InitializeAccepted(proxy, implementation)
           /\ IF InitializeIgnored(proxy) THEN Proceed(o, runs[o]) ELSE End(o, "thrown")
           /\ UNCHANGED contracts
  /\ UNCHANGED <<db, started>>

SendInitialize(o) ==
  /\ AtStep(o, "initialize") /\ EarlierOnesMined(o)
  /\ LET proxy == runs[o].proxy
         implementation == runs[o].implementation
     IN \/ /\ InitializeAccepted(proxy, implementation)
           /\ contracts' = SetUpProxy(proxy, implementation, Step(o).admin)
           /\ Proceed(o, runs[o])
        \/ /\ ~InitializeAccepted(proxy, implementation)
           /\ IF InitializeIgnored(proxy) THEN Proceed(o, runs[o]) ELSE End(o, "thrown")
           /\ UNCHANGED contracts
  /\ UNCHANGED <<db, started>>

SendUpgrade(o) ==
  /\ AtStep(o, "upgrade") /\ EarlierOnesMined(o)
  /\ LET proxy == runs[o].proxy
         implementation == runs[o].implementation
     IN \/ /\ UpgradeAccepted(proxy, implementation, runs[o].signer)
           /\ contracts' = SetUpProxy(proxy, implementation, contracts[proxy].admin)
           /\ Proceed(o, runs[o])
        \/ /\ ~UpgradeAccepted(proxy, implementation, runs[o].signer)
           /\ IF UpgradeIgnored(proxy) THEN Proceed(o, runs[o]) ELSE End(o, "thrown")
           /\ UNCHANGED contracts
  /\ UNCHANGED <<db, started>>

Refuse(o) ==
  /\ AtStep(o, "throw") \/ AtStep(o, "exit")
  /\ End(o, IF Step(o).op = "exit" THEN "exited" ELSE "thrown")
  /\ UNCHANGED <<contracts, db, started>>

Finish(o) ==
  /\ Running(o) /\ runs[o].script = <<>>
  /\ End(o, "done")
  /\ UNCHANGED <<contracts, db, started>>

(* The process is killed, or a request to the node fails and the task      *)
(* throws: nothing is undone.                                              *)
Interrupt(o) ==
  /\ Running(o)
  /\ End(o, "interrupted")
  /\ UNCHANGED <<contracts, db, started>>

Advance(o) ==
  \/ SendDeployment(o) \/ AwaitDeployment(o) \/ Register(o) \/ Verify(o)
  \/ GetImplementation(o) \/ GetStakedLayProxy(o)
  \/ SendInitialize(o) \/ SendUpgrade(o) \/ Refuse(o) \/ Finish(o)

Next ==
  \/ \E o \in Operators :
       \/ \E request \in Requests, signer \in Signers : Start(o, request, signer)
       \/ Advance(o) \/ Interrupt(o)
  \/ \E a \in DOMAIN contracts : Mine(a)

(* A process goes on until it ends, and the chain mines what it was sent.  *)
(* Nobody has to start or to interrupt a run.                              *)
Spec ==
  /\ Init /\ [][Next]_vars
  /\ \A o \in Operators : WF_vars(Advance(o))
  /\ WF_vars(\E a \in DOMAIN contracts : Mine(a))

----------------------------------------------------------------------------
(* Properties. *)

(* Whom a task names as an administrator: the network's, or the one that   *)
(* its operator gave it.                                                   *)
Administrators ==
  {GetAdminPerNetwork(Network)} \union {request.params.admin : request \in Requests}

(* What was sent has an address.  Those of a chain that died with its      *)
(* process mean nothing.                                                   *)
IsAddress(a) == a \in Nat /\ (Network # "hardhat" => a <= Len(contracts))

(* The variables keep their types.  A proxy has no administrator until it  *)
(* is set up, and then one of those the tasks name: not whoever happened   *)
(* to send the transaction.  The file names only what was sent to the      *)
(* chain.                                                                  *)
TypeOK ==
  /\ \A a \in DOMAIN contracts :
       /\ contracts[a].kind \in Implementations \union {Proxy}
       /\ contracts[a].status \in {"pending", "mined", "failed"}
       /\ contracts[a].sender \in Signers
       /\ contracts[a].admin \in IF contracts[a].implementation = NoAddress
                                 THEN {NoCode} ELSE Administrators
       /\ contracts[a].implementation \in {NoAddress} \union DOMAIN contracts
       /\ contracts[a].lastInitializedRevision \in {0} \union {Revision[k] : k \in Implementations}
  /\ \A k \in Keys : IsAddress(db[k])
  /\ \A o \in Operators :
       /\ runs[o].status \in {"none", "running", "done", "thrown", "exited", "interrupted"}
       /\ IsAddress(runs[o].instance)
  /\ started \in 0 .. MaxRuns

(* Every proxy that has been set up runs code that is on the chain, and    *)
(* the code is of the very revision the proxy was last initialised for -   *)
(* whatever interrupted, failed and concurrent runs left in the file that  *)
(* the addresses were read from.                                           *)
RunsWhatItWasInitialisedFor ==
  \A a \in DOMAIN contracts :
    contracts[a].implementation # NoAddress =>
      /\ IsA(a, Proxy)
      /\ HasCode(contracts[a].implementation)
      /\ contracts[contracts[a].implementation].kind \in Implementations
      /\ contracts[a].lastInitializedRevision
           = Revision[contracts[contracts[a].implementation].kind]

(* A proxy as its holders know it, of those that are on the chain.         *)
ProxiesOf(chain) ==
  [a \in {x \in DOMAIN chain : chain[x].kind = Proxy /\ chain[x].status = "mined"} |->
     [code |-> IF chain[a].implementation = NoAddress THEN NoCode
               ELSE chain[chain[a].implementation].kind,
      revision |-> chain[a].lastInitializedRevision,
      admin |-> chain[a].admin]]

Lifecycle == INSTANCE ProxyLifecycle WITH proxies <- ProxiesOf(contracts)

(* What the holders are promised: proxies move forward, for one            *)
(* administrator, in whatever order tasks are run, die and meet.           *)
LifecycleHolds == Lifecycle!Spec

(* A run that ends well leaves the file and the chain as its task says,    *)
(* whatever the runs before it left there: the names refer to contracts of *)
(* their kind that are on the chain, and after common-deployment the proxy *)
(* runs the last implementation.  (For a run that no other run met.)       *)
DoneMeansDeployed == [][
  \A o \in Operators : Finish(o) /\ runs[o].alone =>
    LET task == runs[o].request.task IN
    /\ task \in {"deploy-StakedLay", "dev-deployment", "common-deployment"} =>
         IsA(db["StakedLay"], Proxy) /\ IsA(db["StakedLayImpl"], "StakedLay")
    /\ task \in {"deploy-StakedTokenV2Rev3", "common-deployment"} =>
         IsA(db["StakedTokenV2Rev3"], "StakedTokenV2Rev3")
    /\ task = "deploy-StakedTokenV2Rev4" => IsA(db["StakedTokenV2Rev4"], "StakedTokenV2Rev4")
    /\ task = "common-deployment" =>
         /\ contracts[db["StakedLay"]].implementation = db["StakedTokenV2Rev4"]
         /\ contracts[db["StakedLay"]].admin = GetAdminPerNetwork(Network)]_vars

(* No run leaves behind what makes a later one fail: a common-deployment   *)
(* that nothing disturbed and no other run met, by the administrator, only *)
(* ever throws at its last step, for want of a revision 4 that is on the   *)
(* chain, and by then has set up its proxy.                                *)
RerunRecovers == [][
  \A o \in Operators :
    /\ Running(o) /\ runs'[o].status = "thrown" /\ ~runs[o].disturbed /\ runs[o].alone
    /\ runs[o].request.task = "common-deployment"
    /\ runs[o].signer = GetAdminPerNetwork(Network)
    => /\ ~HasCode(db["StakedTokenV2Rev4"])
       /\ IsA(db["StakedLay"], Proxy)
       /\ contracts[db["StakedLay"]].implementation = db["StakedTokenV2Rev3"]]_vars

(* Every run comes to an end: it never waits for something that does not   *)
(* come.                                                                   *)
EveryRunEnds == \A o \in Operators : Running(o) ~> ~Running(o)

----------------------------------------------------------------------------
(* What the tasks' descriptions and messages say, and the code does not    *)
(* keep to.                                                                *)

(* 'Finished StakedTokenV2Rev3 and Transparent Proxy initialization': the  *)
(* task ends well only if the proxy has been upgraded.                     *)
FinishedMeansUpgraded == [][
  \A o \in Operators :
    Finish(o) /\ (runs[o].request.task = "initialize-StakedTokenV2Rev3") =>
      /\ IsA(runs[o].proxy, Proxy)
      /\ contracts[runs[o].proxy].implementation # NoAddress]_vars

=============================================================================
