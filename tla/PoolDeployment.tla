--------------------------- MODULE PoolDeployment ---------------------------
(***************************************************************************)
(* The task deploy-CRP (tasks/deployments/deploy-bpt.ts): a pool of LAY    *)
(* and WETH is made by a factory, filled and closed to swaps, and a staked *)
(* token is deployed for its shares.  The address of the pool is learnt    *)
(* from an event of the factory, by a listener that is added after the     *)
(* transaction has been mined, and waited for in a loop.                   *)
(*                                                                         *)
(* Factory, pool and provider are external: what the task counts on.       *)
(***************************************************************************)
EXTENDS NetworkConfig, Integers, Sequences

CONSTANTS Operators, Network, ETHERSCAN_KEY,
          Flags,        \* what --verify may be
          MaxRuns, MaxBlocks   \* bounds on runs and on others' blocks

VARIABLES block, pools, tokens,   \* on the chain; tokens are StakedTokenV3
          others,                 \* how many blocks others mined
          runs, started

chain == <<block, pools, tokens, others>>
vars == <<block, pools, tokens, others, runs, started>>

NoPool == 0
NotPolled == -2    \* _lastBlockNumber of a provider, before it polls

NoRun == [status |-> "none", at |-> "none", verify |-> FALSE, verified |-> FALSE,
          lastBlock |-> NotPolled, newPool |-> NoPool, CRPAddress |-> NoPool]

Init ==
  /\ block = 1 /\ pools = <<>> /\ tokens = <<>> /\ others = 0
  /\ runs = [o \in Operators |-> NoRun] /\ started = 0

Running(o) == runs[o].status = "running"
At(o, step) == Running(o) /\ runs[o].at = step

Becomes(o, run) == runs' = [runs EXCEPT ![o] = run]
Goes(o, step) == Becomes(o, [runs[o] EXCEPT !.at = step])
Ends(o, status) == Becomes(o, [runs[o] EXCEPT !.status = status])

(* The signer is always the fifth account of the mnemonic. *)
Start(o, verify) ==
  /\ ~Running(o) /\ started < MaxRuns
  /\ started' = started + 1
  /\ Becomes(o, [NoRun EXCEPT !.status = "running", !.at = "checks", !.verify = verify])
  /\ UNCHANGED chain

Checks(o) ==
  /\ At(o, "checks")
  /\ IF runs[o].verify /\ ~(ETHERSCAN_KEY /\ SupportedByEtherscan(Network)) THEN Ends(o, "exited")
     ELSE IF ~HasChainId(Network) THEN Ends(o, "thrown")
     ELSE Goes(o, "newCrp")
  /\ UNCHANGED <<chain, started>>

(* Mined when the task goes on, with its event in this block. *)
NewCrp(o) ==
  /\ At(o, "newCrp")
  /\ block' = block + 1
  /\ pools' = Append(pools, [block |-> block + 1, created |-> FALSE, publicSwap |-> FALSE])
  /\ Becomes(o, [runs[o] EXCEPT !.at = "listen", !.newPool = Len(pools) + 1])
  /\ UNCHANGED <<tokens, others, started>>

(* The provider may have polled for the receipt of newCrp, or not at all.  *)
Listen(o) ==
  /\ At(o, "listen")
  /\ \/ Becomes(o, [runs[o] EXCEPT !.at = "poll", !.lastBlock = pools[runs[o].newPool].block])
     \/ Becomes(o, [runs[o] EXCEPT !.at = "poll"])
  /\ UNCHANGED <<chain, started>>

(* Blocks are asked for once: the latest at first, then the new ones.      *)
Events(o) ==
  LET from == IF runs[o].lastBlock = NotPolled THEN block ELSE runs[o].lastBlock + 1
  IN {p \in DOMAIN pools : pools[p].block \in from .. block}

(* Mutant: the first pool ever made is taken for this run's. *)
PollFromTheStart(o) ==
  /\ At(o, "poll") /\ runs[o].CRPAddress = NoPool
  /\ Becomes(o, [runs[o] EXCEPT !.CRPAddress = 1])
  /\ UNCHANGED <<chain, started>>

Poll(o) ==
  /\ At(o, "poll") /\ runs[o].CRPAddress = NoPool
  /\ block # runs[o].lastBlock
  /\ \/ /\ Events(o) = {}
        /\ Becomes(o, [runs[o] EXCEPT !.lastBlock = block])
     \/ \E pool \in Events(o) :
          /\ \A p \in Events(o) : p <= pool
          /\ Becomes(o, [runs[o] EXCEPT !.lastBlock = block, !.CRPAddress = pool])
  /\ UNCHANGED <<chain, started>>

(* The loop ends; both approvals follow. *)
ApproveTokens(o) ==
  /\ At(o, "poll") /\ runs[o].CRPAddress # NoPool
  /\ block' = block + 2
  /\ Goes(o, "createPool")
  /\ UNCHANGED <<pools, tokens, others, started>>

CreatePool(o) ==
  /\ At(o, "createPool")
  /\ LET pool == runs[o].CRPAddress
     IN IF pools[pool].created THEN Ends(o, "thrown") /\ UNCHANGED <<block, pools>>
        ELSE /\ block' = block + 1
             /\ pools' = [pools EXCEPT ![pool].created = TRUE, ![pool].publicSwap = TRUE]
             /\ Goes(o, "setPublicSwap")
  /\ UNCHANGED <<tokens, others, started>>

(* Mutant: the wrong way round. *)
SetPublicSwapTrue(o) ==
  /\ At(o, "setPublicSwap")
  /\ block' = block + 1
  /\ pools' = [pools EXCEPT ![runs[o].CRPAddress].publicSwap = TRUE]
  /\ Goes(o, "deploy")
  /\ UNCHANGED <<tokens, others, started>>

SetPublicSwap(o) ==
  /\ At(o, "setPublicSwap")
  /\ block' = block + 1
  /\ pools' = [pools EXCEPT ![runs[o].CRPAddress].publicSwap = FALSE]
  /\ Goes(o, "deploy")
  /\ UNCHANGED <<tokens, others, started>>

DeployStakedTokenV3(o) ==
  /\ At(o, "deploy")
  /\ block' = block + 1
  /\ tokens' = Append(tokens, [STAKED_TOKEN |-> runs[o].CRPAddress])
  /\ Goes(o, "verify")
  /\ UNCHANGED <<pools, others, started>>

(* The flag is not looked at: deployStakedTokenV3 is told to verify.       *)
Verify(o) ==
  /\ At(o, "verify")
  /\ IF ~ETHERSCAN_KEY THEN Ends(o, "thrown")
     ELSE Becomes(o, [runs[o] EXCEPT !.status = "done", !.verified = SupportedByEtherscan(Network)])
  /\ UNCHANGED <<chain, started>>

Interrupt(o) ==
  /\ Running(o) /\ Ends(o, "interrupted")
  /\ UNCHANGED <<chain, started>>

(* Somebody else's transaction, in a block of its own. *)
OthersMine ==
  /\ others < MaxBlocks
  /\ others' = others + 1 /\ block' = block + 1
  /\ UNCHANGED <<pools, tokens, runs, started>>

Continue(o) ==
  \/ Checks(o) \/ NewCrp(o) \/ Listen(o) \/ Poll(o) \/ ApproveTokens(o)
  \/ CreatePool(o) \/ SetPublicSwap(o) \/ DeployStakedTokenV3(o) \/ Verify(o)

Next ==
  \/ \E o \in Operators : (\E verify \in Flags : Start(o, verify)) \/ Continue(o) \/ Interrupt(o)
  \/ OthersMine

(* Without fairness: a run that has missed its event waits for it for good. *)
Spec == Init /\ [][Next]_vars

----------------------------------------------------------------------------

TypeOK ==
  /\ \A p \in DOMAIN pools : pools[p].block \in 1 .. block
  /\ \A i \in DOMAIN tokens : tokens[i].STAKED_TOKEN \in DOMAIN pools
  /\ \A o \in Operators :
       /\ runs[o].CRPAddress \in {NoPool} \union DOMAIN pools
       /\ runs[o].lastBlock \in {NotPolled} \union 1 .. block

(* The pool whose shares are staked is the one this run made, whatever     *)
(* pools runs that were interrupted left behind.  (One operator at a time: *)
(* runs at once have the same signer, and each hears the other's events.)  *)
FindsItsOwnPool ==
  \A o \in Operators : runs[o].CRPAddress \in {NoPool, runs[o].newPool}

(* Nobody can stake shares of a pool that is still open to swaps, or has   *)
(* not been filled.                                                        *)
StakedPoolsAreClosed ==
  \A i \in DOMAIN tokens :
    pools[tokens[i].STAKED_TOKEN].created /\ ~pools[tokens[i].STAKED_TOKEN].publicSwap

=============================================================================
