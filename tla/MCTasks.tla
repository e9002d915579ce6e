------------------------------ MODULE MCTasks ------------------------------
(* Small instances of the tasks that do not meet, one per scenario. *)
EXTENDS Tasks

(* Two verifications of one contract, and two calls that are refused. *)
Calls == {"first", "again", "elsewhere", "keyless"}
SameContract == [c \in Calls |-> "proxy"]
OneElsewhere == [c \in Calls |-> IF c = "elsewhere" THEN "shiden" ELSE "kovan"]
OneKeyless == [c \in Calls |-> c # "keyless"]

AllTasks == {"proposal-stk-extensions", "proposal-stk-lay-extension:tenderly",
             "proposal-vault-approval:tenderly", "exec-stks:tenderly"}
FewRuns == [tenderly |-> 3, hardhat |-> 2]

(* The voting lasts longer than what a task does before it votes; the      *)
(* whales can pay for two rehearsals.                                      *)
VotingDuration == [LONG_EXECUTOR |-> 12, SHORT_EXECUTOR |-> 7]
Delay == [LONG_EXECUTOR |-> 3, SHORT_EXECUTOR |-> 2]
Quorum == [LONG_EXECUTOR |-> 32, SHORT_EXECUTOR |-> 4]
Threshold == [LONG_EXECUTOR |-> 4, SHORT_EXECUTOR |-> 1]
Whales == [WHALE |-> 40, WHALE_2 |-> 24]

(* Two holders of each token, of whom one stakes both. *)
TwoHolders == [stkLay |-> <<"h1", "h2">>, stkBpt |-> <<"h1", "h3">>]
=============================================================================
