----------------------- MODULE EtherscanVerification -----------------------
(***************************************************************************)
(* The upload of a contract's source to Etherscan that follows a           *)
(* deployment (helpers/etherscan-verification.ts): it is tried again after *)
(* an error, a few times, and in the end with all the sources there are.   *)
(* Several verifications, of the same contract or of others, run at once.  *)
(***************************************************************************)
EXTENDS NetworkConfig, Integers

CONSTANTS Verifications,    \* calls of verifyContract
          ContractOf,       \* what each of them verifies
          NetworkOf,        \* and the network hardhat was started for
          KeyOf,            \* whether there was an ETHERSCAN_KEY in the environment
          Times             \* how often it is tried

ASSUME TimesAssumption == Times \in Nat \ {0}

VARIABLES verifications,    \* the state of each call
          verified          \* the contracts whose source Etherscan has

vars == <<verifications, verified>>

Contracts == {ContractOf[v] : v \in Verifications}

(* What a 'verify' may fail with, by what runTaskWithRetry looks for.  The *)
(* fatal ones: another bytecode, none yet at that address, the constructor *)
(* or the limit of the day.                                                *)
Errors == {"fatal", "unable", "other"}

(* params.relatedSources, deleted when all the sources are to be uploaded, *)
(* is the field sources; unable remembers why, and attempts how often.     *)
NotCalled == [at |-> "not called", times |-> 0, sources |-> "related",
              file |-> "none", attempts |-> 0, unable |-> "never"]

Init ==
  /\ verifications = [v \in Verifications |-> NotCalled]
  /\ verified = {}

Becomes(v, call) == verifications' = [verifications EXCEPT ![v] = call]
Ended(call) == [call EXCEPT !.at = "ended"]
CleanedUp(call) == [call EXCEPT !.file = "deleted"]

(* verifyContract, up to the first delay. *)
VerifyContract(v) ==
  /\ verifications[v].at = "not called"
  /\ \/ /\ ~KeyOf[v]
        /\ Becomes(v, [NotCalled EXCEPT !.at = "thrown"])
     \/ /\ KeyOf[v] /\ ~SupportedByEtherscan(NetworkOf[v])
        /\ Becomes(v, Ended(NotCalled))
     \/ /\ KeyOf[v] /\ SupportedByEtherscan(NetworkOf[v])
        /\ Becomes(v, [NotCalled EXCEPT !.at = "delay", !.times = Times,
                                        !.file = "written"])
  /\ UNCHANGED verified

(* The delay is over, and 'verify' is run; with all the sources if it is   *)
(* the last time.                                                          *)
Attempt(v) ==
  /\ verifications[v].at = "delay" /\ verifications[v].times >= 1
  /\ Becomes(v, [verifications[v] EXCEPT
                   !.at = "verify", !.attempts = @ + 1,
                   !.sources = IF verifications[v].times > 1 THEN @ ELSE "all"])
  /\ UNCHANGED verified

(* Etherscan has the source, or has had it already. *)
Succeed(v) ==
  /\ verifications[v].at = "verify" /\ ContractOf[v] \notin verified
  /\ verified' = verified \union {ContractOf[v]}
  /\ Becomes(v, CleanedUp(Ended(verifications[v])))

AlreadyVerified(v) ==
  /\ verifications[v].at = "verify" /\ ContractOf[v] \in verified
  /\ Becomes(v, Ended(verifications[v]))
  /\ UNCHANGED verified

(* Mutant: the caller's count is passed on, not the one less. *)
FailUncounted(v, error) ==
  /\ verifications[v].at = "verify"
  /\ Becomes(v, IF error = "fatal" THEN Ended(verifications[v])
                ELSE [verifications[v] EXCEPT !.at = "delay", !.sources = "all"])
  /\ UNCHANGED verified

(* Mutant: the file is removed whatever the attempt came to. *)
FailCleansUp(v, error) ==
  /\ verifications[v].at = "verify"
  /\ Becomes(v, IF error = "fatal" THEN CleanedUp(Ended(verifications[v]))
                ELSE CleanedUp([verifications[v] EXCEPT
                        !.at = "delay", !.times = @ - 1,
                        !.sources = IF error = "unable" THEN "all" ELSE @,
                        !.unable = IF error = "unable" THEN "seen" ELSE @]))
  /\ UNCHANGED verified

(* Mutant: what cannot be verified is tried again as it was. *)
FailKeepsSources(v, error) ==
  /\ verifications[v].at = "verify"
  /\ Becomes(v, IF error = "fatal" THEN Ended(verifications[v])
                ELSE [verifications[v] EXCEPT
                        !.at = "delay", !.times = @ - 1,
                        !.unable = IF error = "unable" THEN "seen" ELSE @])
  /\ UNCHANGED verified

Fail(v, error) ==
  /\ verifications[v].at = "verify"
  /\ Becomes(v, IF error = "fatal" THEN Ended(verifications[v])
                ELSE [verifications[v] EXCEPT
                        !.at = "delay", !.times = @ - 1,
                        !.sources = IF error = "unable" THEN "all" ELSE @,
                        !.unable = IF error = "unable" THEN "seen" ELSE @])
  /\ UNCHANGED verified

(* Mutant: neither an attempt nor the end is left at zero. *)
GiveUpBelowZero(v) ==
  /\ verifications[v].at = "delay" /\ verifications[v].times < 0
  /\ Becomes(v, CleanedUp(Ended(verifications[v])))
  /\ UNCHANGED verified

GiveUp(v) ==
  /\ verifications[v].at = "delay" /\ verifications[v].times < 1
  /\ Becomes(v, CleanedUp(Ended(verifications[v])))
  /\ UNCHANGED verified

Step(v) ==
  \/ VerifyContract(v) \/ Attempt(v) \/ GiveUp(v)
  \/ Succeed(v) \/ AlreadyVerified(v) \/ \E error \in Errors : Fail(v, error)

Next == \E v \in Verifications : Step(v)

(* Timers expire, and the task 'verify' returns or throws. *)
Spec == Init /\ [][Next]_vars /\ \A v \in Verifications : WF_vars(Step(v))

----------------------------------------------------------------------------

TypeOK ==
  /\ verifications \in [Verifications ->
       [at : {"not called", "thrown", "delay", "verify", "ended"}, times : 0 .. Times,
        sources : {"related", "all"}, file : {"none", "written", "deleted"},
        attempts : 0 .. Times, unable : {"never", "seen"}]]
  /\ verified \subseteq Contracts

(* 'verify' is run as many times as was asked for and no more: an attempt  *)
(* is counted where it fails, and the answer that ends the retries ends    *)
(* them at any depth of the recursion.                                     *)
RetriesAreCounted ==
  \A v \in Verifications :
    /\ verifications[v].at = "delay" => verifications[v].attempts + verifications[v].times = Times
    /\ verifications[v].at = "verify" => verifications[v].attempts + verifications[v].times = Times + 1
    /\ verifications[v].attempts <= Times

(* Every attempt finds the parameters it was given: the file is removed    *)
(* only when nothing will read it again.                                   *)
ParametersAtHand ==
  \A v \in Verifications :
    verifications[v].at \in {"delay", "verify"} => verifications[v].file = "written"

(* Once Etherscan could not verify the related sources, and the last time  *)
(* in any case, all the sources are uploaded; it never goes back.          *)
UploadsAllInTheEnd ==
  \A v \in Verifications :
    /\ verifications[v].at = "verify"
    /\ verifications[v].unable = "seen" \/ verifications[v].attempts = Times
    => verifications[v].sources = "all"

(* A deployment that waits for its verification goes on. *)
VerificationEnds ==
  \A v \in Verifications : <>(verifications[v].at \in {"ended", "thrown"})

=============================================================================
