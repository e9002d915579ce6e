--------------------------- MODULE ForkRehearsal ---------------------------
(***************************************************************************)
(* The governance tasks (tasks/proposals): proposals to upgrade both       *)
(* staked tokens, or to let them draw on the rewards vault, are made, and  *)
(* rehearsed on a fork of the main network from funding the proposer to    *)
(* the execution.  As in Deployment, a task is the sequence of its steps   *)
(* and may be interrupted at each; the fork keeps what it did.             *)
(*                                                                         *)
(* The governance contracts are not part of the repository: they are what  *)
(* contracts/interfaces/IStarlayGovernanceV2.sol says the tasks may count  *)
(* on.  A transaction is mined in a block of its own, at once.             *)
(***************************************************************************)
EXTENDS Integers, Sequences

CONSTANTS Operators,
          Forks,           \* what may fork the chain: "tenderly" and "hardhat"
          ETHERSCAN_KEY,      \* whether the environment has one
          Tasks,              \* that may be asked for
          MaxRuns,            \* bound on how many runs are started, on each network
          VOTING_DURATION,    \* in blocks, of each executor
          DELAY,              \* in seconds, of each executor
          GRACE_PERIOD,
          MINIMUM_QUORUM, PROPOSITION_THRESHOLD,  \* of each executor
          Holdings            \* of each whale, when the fork is made

VARIABLES network,       \* that forks the chain
          block, time,   \* the latest
          transfers,     \* of LAY, as they were mined
          deployed,      \* implementations, as they were mined
          proxies,       \* what each staked token runs
          approved,      \* the staked tokens that may draw on the vault
          proposals,     \* as they were created
          runs, started

chain == <<block, time, transfers, deployed, proxies, approved, proposals>>
vars == <<network, block, time, transfers, deployed, proxies, approved, proposals, runs, started>>

StakedTokens == {"stkLay", "stkBpt"}
Executors == {"LONG_EXECUTOR", "SHORT_EXECUTOR"}
Revision == [StakedTokenV2Rev3 |-> 3, StakedTokenBptRev2 |-> 2]
None == 0

----------------------------------------------------------------------------
(* LAY and the governance. *)

InBlock == block + 1   \* of the next transaction

Held(account) == IF account \in DOMAIN Holdings THEN Holdings[account] ELSE 0

Moved(account, transfer) ==
  (IF transfer.to = account THEN transfer.amount ELSE 0)
  - (IF transfer.from = account THEN transfer.amount ELSE 0)

(* What an account holds after the transfers up to a block. *)
PowerAfter(sent, account, b) ==
  LET power[n \in 0 .. Len(sent)] ==
        IF n = 0 THEN Held(account)
        ELSE power[n - 1] + (IF sent[n].block > b THEN 0 ELSE Moved(account, sent[n]))
  IN power[Len(sent)]

(* getPowerAtBlock: what the account held then. *)
PowerAtBlock(account, b) == PowerAfter(transfers, account, b)

Balance(account) == PowerAtBlock(account, block)

CreateAccepted(executor, creator) ==
  PowerAtBlock(creator, block) >= PROPOSITION_THRESHOLD[executor]

Proposal(kind, executor, implementations, creator) ==
  [kind |-> kind, executor |-> executor, implementations |-> implementations,
   creator |-> creator, startBlock |-> InBlock, endBlock |-> InBlock + VOTING_DURATION[executor],
   forVotes |-> 0, voters |-> {}, executionTime |-> None, executed |-> FALSE]

(* Not in the block of the proposal: votes could be borrowed. *)
VoteAccepted(id, voter) ==
  /\ id \in DOMAIN proposals
  /\ InBlock > proposals[id].startBlock /\ InBlock <= proposals[id].endBlock
  /\ voter \notin proposals[id].voters

QueueAccepted(id) ==
  /\ id \in DOMAIN proposals /\ InBlock > proposals[id].endBlock
  /\ proposals[id].forVotes >= MINIMUM_QUORUM[proposals[id].executor]
  /\ proposals[id].executionTime = None

(* upgradeToAndCall of each proxy, in one transaction: every initializer   *)
(* must find an earlier revision.                                          *)
UpgradesAccepted(implementations) ==
  \A t \in DOMAIN implementations :
    deployed[implementations[t]].revision > proxies[t].revision

ExecuteAccepted(id) ==
  /\ id \in DOMAIN proposals /\ proposals[id].executionTime # None
  /\ ~proposals[id].executed
  /\ time >= proposals[id].executionTime
  /\ time <= proposals[id].executionTime + GRACE_PERIOD
  /\ proposals[id].kind = "extension" => UpgradesAccepted(proposals[id].implementations)

----------------------------------------------------------------------------
(* The tasks. *)

Transact == <<[op |-> "transact"]>>

(* advanceBlockTo((await latestBlock()) + blocks).  The ten blocks of the  *)
(* tasks are two here, and ten seconds more are one.                       *)
AdvanceBlockTo(blocks) ==
  <<[op |-> "target", blocks |-> blocks], [op |-> "current block"], [op |-> "advance"]>>

(* Deployment and verification of one implementation. *)
DeployStakedLayRev3 == <<[op |-> "deploy", token |-> "stkLay", kind |-> "StakedTokenV2Rev3"],
                         [op |-> "verify"]>>
DeployStakedBptRev2 == <<[op |-> "deploy", token |-> "stkBpt", kind |-> "StakedTokenBptRev2"],
                         [op |-> "verify"]>>

ProposeExtension == <<[op |-> "create", kind |-> "extension", executor |-> "LONG_EXECUTOR"]>>
ProposeVaultApproval == <<[op |-> "create", kind |-> "approval", executor |-> "SHORT_EXECUTOR"]>>

ProposalStkExtensions == DeployStakedLayRev3 \o DeployStakedBptRev2 \o ProposeExtension
ProposalVaultApproval == ProposeVaultApproval

(* What a whale sends to the proposer, in 100 000 LAY. *)
FundProposer == <<[op |-> "transfer", from |-> "WHALE", amount |-> 20],
                  [op |-> "transfer", from |-> "WHALE_2", amount |-> 12]>>

(* Mutant: one block is forgotten. *)
VoteQueueExecuteTooEarly(duration, delay) ==
  <<[op |-> "vote", by |-> "proposer"]>> \o AdvanceBlockTo(duration - 1)
  \o <<[op |-> "queue"], [op |-> "increaseTime", seconds |-> delay + 1], [op |-> "execute"]>>

(* How long the voting and the delay last is written into the tasks. *)
VoteQueueExecute(duration, delay) ==
  <<[op |-> "vote", by |-> "proposer"]>> \o AdvanceBlockTo(duration + 1)
  \o <<[op |-> "queue"], [op |-> "increaseTime", seconds |-> delay + 1], [op |-> "execute"]>>

ProposalStkLayExtensionTenderly ==
  Transact \o Transact \o FundProposer \o AdvanceBlockTo(2)
  \o <<[op |-> "count"]>> \o ProposalStkExtensions \o AdvanceBlockTo(1)
  \o VoteQueueExecute(VOTING_DURATION["LONG_EXECUTOR"], DELAY["LONG_EXECUTOR"])

ProposalVaultApprovalTenderly ==
  Transact \o Transact \o FundProposer \o AdvanceBlockTo(2)
  \o <<[op |-> "count"]>> \o ProposalVaultApproval \o AdvanceBlockTo(1)
  \o VoteQueueExecute(VOTING_DURATION["SHORT_EXECUTOR"], DELAY["SHORT_EXECUTOR"])

(* The whales themselves vote for the proposal that is being voted on on   *)
(* the main network, whose number is written into the task.                *)
ExecStks ==
  Transact \o Transact \o Transact \o AdvanceBlockTo(2)
  \o <<[op |-> "the first"], [op |-> "vote", by |-> "WHALE"], [op |-> "vote", by |-> "WHALE_2"]>>
  \o AdvanceBlockTo(VOTING_DURATION["LONG_EXECUTOR"] + 1)
  \o <<[op |-> "queue"], [op |-> "increaseTime", seconds |-> DELAY["LONG_EXECUTOR"] + 1],
       [op |-> "execute"]>>

Script(task) ==
  CASE task = "proposal-stk-extensions" -> ProposalStkExtensions
    [] task = "proposal-stk-lay-extension:tenderly" -> ProposalStkLayExtensionTenderly
    [] task = "proposal-vault-approval:tenderly" -> ProposalVaultApprovalTenderly
    [] task = "exec-stks:tenderly" -> ExecStks

----------------------------------------------------------------------------
(* The runs. *)

NoRun == [status |-> "none", task |-> "none", script |-> <<>>, target |-> None, pending |-> 0,
          proposalId |-> None, implementations |-> [t \in StakedTokens |-> None]]

(* A proposal to extend may be open to votes where the fork is made. *)
Init ==
  /\ network \in Forks
  /\ block = 2 /\ time = 1
  /\ transfers = <<>>
  /\ proxies = [stkLay |-> [implementation |-> None, revision |-> 2],
                stkBpt |-> [implementation |-> None, revision |-> 1]]
  /\ \/ deployed = <<>> /\ proposals = <<>>
     \/ /\ deployed = <<[kind |-> "StakedTokenV2Rev3", revision |-> 3],
                        [kind |-> "StakedTokenBptRev2", revision |-> 2]>>
        /\ proposals = <<[kind |-> "extension", executor |-> "LONG_EXECUTOR",
                          implementations |-> [stkLay |-> 1, stkBpt |-> 2],
                          creator |-> "somebody", startBlock |-> 1,
                          endBlock |-> 1 + VOTING_DURATION["LONG_EXECUTOR"],
                          forVotes |-> 0, voters |-> {}, executionTime |-> None,
                          executed |-> FALSE]>>
  /\ approved = {}
  /\ runs = [o \in Operators |-> NoRun] /\ started = 0

Running(o) == runs[o].status = "running"
Step(o) == Head(runs[o].script)
AtStep(o, op) == Running(o) /\ runs[o].script # <<>> /\ Step(o).op = op

Proceed(o, run) == runs' = [runs EXCEPT ![o] = [run EXCEPT !.script = Tail(@)]]
End(o, status) == runs' = [runs EXCEPT ![o].status = status]

Voter(o) == IF Step(o).by = "proposer" THEN o ELSE Step(o).by

Start(o, task) ==
  /\ ~Running(o) /\ started < MaxRuns[network]
  /\ started' = started + 1
  /\ runs' = [runs EXCEPT ![o] = [NoRun EXCEPT !.status = "running", !.task = task,
                                               !.script = Script(task)]]
  /\ UNCHANGED chain

(* A transaction that the model knows no effect of. *)
SendTransaction(o) ==
  /\ AtStep(o, "transact")
  /\ block' = InBlock
  /\ Proceed(o, runs[o])
  /\ UNCHANGED <<time, transfers, deployed, proxies, approved, proposals, started>>

(* Mutant: a whale sends what it does not have. *)
TransferUnchecked(o) ==
  /\ AtStep(o, "transfer")
  /\ transfers' = Append(transfers, [from |-> Step(o).from, to |-> o,
                                     amount |-> Step(o).amount, block |-> InBlock])
  /\ block' = InBlock
  /\ Proceed(o, runs[o])
  /\ UNCHANGED <<time, deployed, proxies, approved, proposals, started>>

Transfer(o) ==
  /\ AtStep(o, "transfer")
  /\ IF Balance(Step(o).from) >= Step(o).amount
     THEN /\ transfers' = Append(transfers, [from |-> Step(o).from, to |-> o,
                                             amount |-> Step(o).amount, block |-> InBlock])
          /\ block' = InBlock
          /\ Proceed(o, runs[o])
     ELSE End(o, "thrown") /\ UNCHANGED <<transfers, block>>
  /\ UNCHANGED <<time, deployed, proxies, approved, proposals, started>>

DeployImplementation(o) ==
  /\ AtStep(o, "deploy")
  /\ deployed' = Append(deployed, [kind |-> Step(o).kind, revision |-> Revision[Step(o).kind]])
  /\ block' = InBlock
  /\ Proceed(o, [runs[o] EXCEPT !.implementations[Step(o).token] = Len(deployed) + 1])
  /\ UNCHANGED <<time, transfers, proxies, approved, proposals, started>>

Verify(o) ==
  /\ AtStep(o, "verify")
  /\ IF ETHERSCAN_KEY THEN Proceed(o, runs[o]) ELSE End(o, "thrown")
  /\ UNCHANGED <<chain, started>>

(* Mutant: the number of the last proposal there is. *)
GetProposalsCountLess(o) ==
  /\ AtStep(o, "count")
  /\ Proceed(o, [runs[o] EXCEPT !.proposalId = Len(proposals)])
  /\ UNCHANGED <<chain, started>>

(* The number the next proposal will have, if nobody else makes one.       *)
(* (Here they count from 1.)                                               *)
GetProposalsCount(o) ==
  /\ AtStep(o, "count")
  /\ Proceed(o, [runs[o] EXCEPT !.proposalId = Len(proposals) + 1])
  /\ UNCHANGED <<chain, started>>

HardcodedProposal(o) ==
  /\ AtStep(o, "the first")
  /\ Proceed(o, [runs[o] EXCEPT !.proposalId = 1])
  /\ UNCHANGED <<chain, started>>

Create(o) ==
  /\ AtStep(o, "create")
  /\ IF CreateAccepted(Step(o).executor, o)
     THEN /\ proposals' = Append(proposals, Proposal(Step(o).kind, Step(o).executor,
                                                     runs[o].implementations, o))
          /\ block' = InBlock
          /\ Proceed(o, runs[o])
     ELSE End(o, "thrown") /\ UNCHANGED <<proposals, block>>
  /\ UNCHANGED <<time, transfers, deployed, proxies, approved, started>>

SubmitVote(o) ==
  /\ AtStep(o, "vote")
  /\ LET id == runs[o].proposalId
     IN IF VoteAccepted(id, Voter(o))
        THEN /\ proposals' = [proposals EXCEPT
                                ![id].voters = @ \union {Voter(o)},
                                ![id].forVotes = @ + PowerAtBlock(Voter(o), proposals[id].startBlock)]
             /\ block' = InBlock
             /\ Proceed(o, runs[o])
        ELSE End(o, "thrown") /\ UNCHANGED <<proposals, block>>
  /\ UNCHANGED <<time, transfers, deployed, proxies, approved, started>>

Queue(o) ==
  /\ AtStep(o, "queue")
  /\ LET id == runs[o].proposalId
     IN IF QueueAccepted(id)
        THEN /\ proposals' = [proposals EXCEPT
                                ![id].executionTime = time + DELAY[proposals[id].executor]]
             /\ block' = InBlock
             /\ Proceed(o, runs[o])
        ELSE End(o, "thrown") /\ UNCHANGED <<proposals, block>>
  /\ UNCHANGED <<time, transfers, deployed, proxies, approved, started>>

Execute(o) ==
  /\ AtStep(o, "execute")
  /\ LET id == runs[o].proposalId
     IN IF ExecuteAccepted(id)
        THEN /\ proposals' = [proposals EXCEPT ![id].executed = TRUE]
             /\ block' = InBlock
             /\ IF proposals[id].kind = "extension"
                THEN /\ proxies' = [t \in StakedTokens |->
                          LET i == proposals[id].implementations[t]
                          IN [implementation |-> i, revision |-> deployed[i].revision]]
                     /\ UNCHANGED approved
                ELSE approved' = StakedTokens /\ UNCHANGED proxies
             /\ Proceed(o, runs[o])
        ELSE End(o, "thrown") /\ UNCHANGED <<proposals, block, proxies, approved>>
  /\ UNCHANGED <<time, transfers, deployed, started>>

Target(o) ==
  /\ AtStep(o, "target")
  /\ Proceed(o, [runs[o] EXCEPT !.target = block + Step(o).blocks])
  /\ UNCHANGED <<chain, started>>

(* The block is read again: how many are pending, or whether it has passed *)
(* the target already.                                                     *)
CurrentBlock(o) ==
  /\ AtStep(o, "current block")
  /\ \/ network = "tenderly" /\ Proceed(o, [runs[o] EXCEPT !.pending = runs[o].target - block - 1])
     \/ /\ network # "tenderly"
        /\ IF runs[o].target < block THEN End(o, "thrown") ELSE Proceed(o, runs[o])
  /\ UNCHANGED <<chain, started>>

(* Mutant: the loop ends, but not on the target itself. *)
AdvanceUpTo(o) ==
  /\ AtStep(o, "advance")
  /\ \/ /\ block < runs[o].target
        /\ block' = block + 1
        /\ UNCHANGED runs
     \/ /\ block > runs[o].target
        /\ Proceed(o, runs[o])
        /\ UNCHANGED block
  /\ UNCHANGED <<time, transfers, deployed, proxies, approved, proposals, started>>

(* At once on Tenderly, up to the block before, and a number below zero is *)
(* none to Tenderly; elsewhere block by block, whoever mines them.         *)
Advance(o) ==
  /\ AtStep(o, "advance")
  /\ \/ /\ network = "tenderly"
        /\ IF runs[o].pending < 0 THEN End(o, "thrown") /\ UNCHANGED block
           ELSE block' = block + runs[o].pending /\ Proceed(o, runs[o])
     \/ /\ network # "tenderly" /\ block < runs[o].target
        /\ block' = block + 1
        /\ UNCHANGED runs
     \/ /\ network # "tenderly" /\ block >= runs[o].target
        /\ Proceed(o, runs[o])
        /\ UNCHANGED block
  /\ UNCHANGED <<time, transfers, deployed, proxies, approved, proposals, started>>

IncreaseTime(o) ==
  /\ AtStep(o, "increaseTime")
  /\ time' = time + Step(o).seconds
  /\ block' = IF network = "tenderly" THEN block ELSE block + 1
  /\ Proceed(o, runs[o])
  /\ UNCHANGED <<transfers, deployed, proxies, approved, proposals, started>>

Finish(o) ==
  /\ Running(o) /\ runs[o].script = <<>>
  /\ End(o, "done")
  /\ UNCHANGED <<chain, started>>

Interrupt(o) ==
  /\ Running(o)
  /\ End(o, "interrupted")
  /\ UNCHANGED <<chain, started>>

Continue(o) ==
  \/ SendTransaction(o) \/ Transfer(o) \/ DeployImplementation(o) \/ Verify(o)
  \/ GetProposalsCount(o) \/ HardcodedProposal(o) \/ Create(o)
  \/ SubmitVote(o) \/ Queue(o) \/ Execute(o)
  \/ Target(o) \/ CurrentBlock(o) \/ Advance(o) \/ IncreaseTime(o) \/ Finish(o)

Next ==
  /\ \E o \in Operators : (\E task \in Tasks : Start(o, task)) \/ Continue(o) \/ Interrupt(o)
  /\ UNCHANGED network

(* A process that is not interrupted goes on, and its node answers. *)
Spec == Init /\ [][Next]_vars /\ \A o \in Operators : WF_vars(Continue(o) /\ UNCHANGED network)
----------------------------------------------------------------------------

TypeOK ==
  /\ block \in Nat /\ time \in Nat
  /\ \A i \in DOMAIN transfers : transfers[i].block <= block
  /\ \A account \in Operators \union DOMAIN Holdings : Balance(account) >= 0
  /\ \A t \in StakedTokens : proxies[t].implementation \in {None} \union DOMAIN deployed
  /\ approved \in {{}, StakedTokens}
  /\ \A id \in DOMAIN proposals :
       /\ proposals[id].startBlock <= block
       /\ \A t \in StakedTokens :
            proposals[id].implementations[t] \in {None} \union DOMAIN deployed
  /\ \A o \in Operators :
       /\ runs[o].status \in {"none", "running", "done", "thrown", "interrupted"}
       /\ runs[o].implementations \in [StakedTokens -> {None} \union DOMAIN deployed]
  /\ started \in 0 .. MaxRuns[network]

Rehearses(o, kind) ==
  \/ kind = "extension" /\ runs[o].task = "proposal-stk-lay-extension:tenderly"
  \/ kind = "approval" /\ runs[o].task = "proposal-vault-approval:tenderly"

(* "Proposal executed": a rehearsal that comes to its end has executed the *)
(* very proposal it made, though it learnt its number before it made it,   *)
(* and what it proposed is what the fork then runs - whatever earlier runs *)
(* and the main network left open.  (For one operator of a fork.)          *)
FinishedMeansExecuted == [][
  \A o \in Operators, kind \in {"extension", "approval"} :
    Finish(o) /\ Rehearses(o, kind) =>
      LET proposal == proposals[runs[o].proposalId]
      IN /\ proposal.executed /\ proposal.kind = kind /\ proposal.creator = o
         /\ kind = "approval" => approved = StakedTokens
         /\ kind = "extension" =>
              \A t \in StakedTokens : proxies[t].implementation = runs[o].implementations[t]]_vars

(* Nothing a rehearsal does comes too early, too late or with too few      *)
(* votes: what makes it throw is that the whales' LAY is spent, Etherscan, *)
(* or an upgrade that the fork has had already.  (For one operator.)       *)
RehearsalsKeepTheSchedule == [][
  \A o \in Operators, kind \in {"extension", "approval"} :
    /\ Running(o) /\ Rehearses(o, kind) /\ runs'[o].status = "thrown"
    => \/ AtStep(o, "transfer") \/ AtStep(o, "verify")
       \/ AtStep(o, "execute") /\ kind = "extension" /\ ~UpgradesAccepted(runs[o].implementations)]_vars

(* A rehearsal never waits for a block that does not come. *)
EveryRehearsalEnds == \A o \in Operators : Running(o) ~> ~Running(o)

=============================================================================
