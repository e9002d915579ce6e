---------------------------- MODULE Tasks_proofs ----------------------------
(***************************************************************************)
(* Theorems about the tasks that do not meet.  Of the verifications, for   *)
(* any number of calls, at once and of any contracts, and any number of    *)
(* times: each is retried as often as was asked for, with its parameters   *)
(* at hand, and with all the sources in the end.  Of the rounds of         *)
(* redemptions, for any lists of holders, stakes, claims and times: no     *)
(* stake is lost and no window missed.  Of the deployments of the pool,    *)
(* for any number of runs and of blocks between them: the pool is the      *)
(* run's own, and closed when it is staked.  Of the rehearsals of          *)
(* proposals, on a fork of either kind, for any length of voting, delay,   *)
(* quorum and threshold: a rehearsal executes the proposal it made, and is *)
(* never too early, too late or short of votes.                            *)
(***************************************************************************)
EXTENDS Tasks, SequenceTheorems, WellFoundedInduction, TLAPS

(* Each call by itself: the three invariants, and what they rest on        *)
(* between two attempts.                                                   *)
Calls == [at : {"not called", "thrown", "delay", "verify", "ended"}, times : 0 .. Times,
          sources : {"related", "all"}, file : {"none", "written", "deleted"},
          attempts : 0 .. Times, unable : {"never", "seen"}]

Counted(upload) ==
  /\ upload.at = "delay" => upload.attempts + upload.times = Times
  /\ upload.at = "verify" => upload.attempts + upload.times = Times + 1

Escalates(upload) ==
  /\ upload.at \in {"delay", "verify"} =>
       /\ upload.file = "written"
       /\ upload.unable = "seen" => upload.sources = "all"
  /\ upload.at = "verify" /\ upload.times = 1 => upload.sources = "all"

CallOK(upload) == upload \in Calls /\ Counted(upload) /\ Escalates(upload)

IInv ==
  /\ verifications \in [Verifications -> Calls]
  /\ \A v \in Verifications : Counted(verifications[v]) /\ Escalates(verifications[v])
  /\ verified \subseteq Contracts

(* A call that goes from one good state to another disturbs no other one. *)
LEMMA OneCallMoves ==
  ASSUME IInv, NEW v \in Verifications, NEW upload, CallOK(upload), Becomes(v, upload),
         verified' \subseteq Contracts
  PROVE  IInv'
  BY DEF IInv, Becomes, CallOK, Contracts

THEOREM Inductive == TasksSpec => []IInv
<1>1. TasksInit => IInv
  <2> SUFFICES ASSUME Init PROVE IInv
    BY DEF TasksInit
  <2>1. NotCalled \in Calls
    BY TimesAssumption DEF Calls, NotCalled
  <2>2. Counted(NotCalled) /\ Escalates(NotCalled)
    BY DEF Counted, Escalates, NotCalled
  <2> QED BY <2>1, <2>2 DEF Init, IInv, Contracts
<1>2. IInv /\ [TasksNext]_tasksVars => IInv'
  <2> SUFFICES ASSUME IInv, [Next]_vars PROVE IInv'
    BY DEF TasksNext, tasksVars, Verifies, Rehearses, Redeems, DeploysPool
  <2>1. CASE UNCHANGED vars
    BY <2>1 DEF vars, IInv, Contracts
  <2>2. CASE Next
    <3> PICK v \in Verifications : Step(v)
      BY <2>2 DEF Next
    <3> DEFINE upload == verifications[v]
    <3>0. Times \in Nat /\ Times >= 1
      BY TimesAssumption
    <3>1. CallOK(upload) /\ Times \in Nat /\ verified \subseteq Contracts /\ Times >= 1
      BY TimesAssumption DEF IInv, CallOK
    <3>2. CASE VerifyContract(v)
      <4>0. NotCalled \in Calls
        BY <3>0 DEF Calls, NotCalled
      <4> DEFINE refused == [NotCalled EXCEPT !.at = "thrown"]
                 called == [NotCalled EXCEPT !.at = "delay", !.times = Times, !.file = "written"]
      <4>1. CallOK(refused)
        <5>1. refused \in Calls
          BY <3>0, <4>0 DEF Calls
        <5>2. Counted(refused)
          BY <3>0 DEF Counted, NotCalled
        <5>3. Escalates(refused)
          BY <3>0 DEF Calls, Escalates, NotCalled
        <5> QED BY <5>1, <5>2, <5>3 DEF CallOK
      <4>2. CallOK(Ended(NotCalled))
        <5>1. Ended(NotCalled) \in Calls
          BY <3>0, <4>0 DEF Calls, Ended
        <5>2. Counted(Ended(NotCalled))
          BY <3>0 DEF Counted, NotCalled, Ended
        <5>3. Escalates(Ended(NotCalled))
          BY <3>0 DEF Calls, Escalates, NotCalled, Ended
        <5> QED BY <5>1, <5>2, <5>3 DEF CallOK
      <4>3. CallOK(called)
        <5>0. Times \in 0 .. Times
          BY <3>0
        <5>1. called \in Calls
          BY <4>0, <5>0 DEF Calls
        <5>2. Counted(called)
          BY <3>0 DEF Counted, NotCalled
        <5>3. Escalates(called)
          BY <3>0 DEF Calls, Escalates, NotCalled
        <5> QED BY <5>1, <5>2, <5>3 DEF CallOK
      <4> QED BY <3>1, <3>2, <4>1, <4>2, <4>3, OneCallMoves DEF VerifyContract
    <3>3. CASE Attempt(v)
      <4> DEFINE n == upload.attempts + 1
                 s == IF upload.times > 1 THEN upload.sources ELSE "all"
                 next == [upload EXCEPT !.at = "verify", !.attempts = n, !.sources = s]
      <4>0. upload.at = "delay" /\ upload.times >= 1 /\ upload \in Calls
        BY <3>1, <3>3 DEF CallOK, Attempt
      <4>1a. upload.times \in 0 .. Times /\ upload.attempts \in 0 .. Times
        BY <4>0 DEF Calls
      <4>1. n \in 0 .. Times /\ n + upload.times = Times + 1
        BY <3>1, <4>0, <4>1a DEF CallOK, Counted
      <4>1b. /\ s \in {"related", "all"} /\ (upload.times = 1 => s = "all")
             /\ (upload.sources = "all" => s = "all")
        <5>1. upload.sources \in {"related", "all"}
          BY <4>0 DEF Calls
        <5> QED BY <5>1, <4>1a
      <4> HIDE DEF n, s
      <4>2. CallOK(next)
        <5>1. next \in Calls
          BY <3>1, <4>0, <4>1, <4>1b DEF CallOK, Calls
        <5>2. Counted(next)
          BY <3>1, <4>0, <4>1, <4>1b DEF CallOK, Calls, Counted
        <5>3. Escalates(next)
          BY <3>1, <4>0, <4>1, <4>1b DEF CallOK, Calls, Escalates
        <5> QED BY <5>1, <5>2, <5>3 DEF CallOK
      <4>3. Becomes(v, next) /\ UNCHANGED verified
        BY <3>3 DEF Attempt, n, s
      <4> QED BY <3>1, <4>2, <4>3, OneCallMoves
    <3>4. CASE GiveUp(v)
      <4>1. CallOK(CleanedUp(Ended(upload)))
        BY <3>1, <3>4 DEF CallOK, Counted, Escalates, Calls, CleanedUp, Ended
      <4> QED BY <3>1, <3>4, <4>1, OneCallMoves DEF GiveUp
    <3>5. CASE Succeed(v)
      <4>1. CallOK(CleanedUp(Ended(upload)))
        BY <3>1, <3>5 DEF CallOK, Counted, Escalates, Calls, CleanedUp, Ended
      <4>2. verified' \subseteq Contracts
        BY <3>1, <3>5 DEF Succeed, Contracts
      <4> QED BY <3>5, <4>1, <4>2, OneCallMoves DEF Succeed
    <3>6. CASE AlreadyVerified(v)
      <4>1. CallOK(Ended(upload))
        BY <3>1, <3>6 DEF CallOK, Counted, Escalates, Calls, Ended
      <4> QED BY <3>1, <3>6, <4>1, OneCallMoves DEF AlreadyVerified
    <3>7. ASSUME NEW error \in Errors, Fail(v, error) PROVE IInv'
      <4> DEFINE n == upload.times - 1
                 s == IF error = "unable" THEN "all" ELSE upload.sources
                 u == IF error = "unable" THEN "seen" ELSE upload.unable
                 next == [upload EXCEPT !.at = "delay", !.times = n, !.sources = s, !.unable = u]
      <4>0. upload.at = "verify" /\ upload \in Calls
        BY <3>1, <3>7 DEF CallOK, Fail
      <4>1a. upload.times \in 0 .. Times /\ upload.attempts \in 0 .. Times
        BY <4>0 DEF Calls
      <4>1. n \in 0 .. Times /\ upload.attempts + n = Times
        BY <3>1, <4>0, <4>1a DEF CallOK, Counted
      <4>1b. /\ s \in {"related", "all"} /\ u \in {"never", "seen"}
             /\ upload.file = "written" /\ (u = "seen" => s = "all")
        BY <3>1, <4>0 DEF CallOK, Escalates, Calls
      <4>2. CallOK(Ended(upload))
        BY <4>0 DEF CallOK, Counted, Escalates, Calls, Ended
      <4>3. Becomes(v, IF error = "fatal" THEN Ended(upload) ELSE next) /\ UNCHANGED verified
        BY <3>7 DEF Fail
      <4> HIDE DEF n, s, u
      <4>4. CallOK(next)
        <5>1. next \in Calls
          BY <4>0, <4>1, <4>1b DEF CallOK, Calls
        <5>2. Counted(next)
          BY <4>0, <4>1, <4>1b DEF CallOK, Calls, Counted
        <5>3. Escalates(next)
          BY <4>0, <4>1, <4>1b DEF CallOK, Calls, Escalates
        <5> QED BY <5>1, <5>2, <5>3 DEF CallOK
      <4> QED BY <3>1, <4>2, <4>3, <4>4, OneCallMoves
    <3> QED BY <3>2, <3>3, <3>4, <3>5, <3>6, <3>7 DEF Step
  <2> QED BY <2>1, <2>2
<1> QED BY <1>1, <1>2, PTL DEF TasksSpec

(* However a verification fails, it is tried as often as was asked for and *)
(* no more.                                                                *)
THEOREM RetriesCounted == TasksSpec => []RetriesAreCounted
<1>1. IInv => RetriesAreCounted
  <2> SUFFICES ASSUME IInv, NEW v \in Verifications
               PROVE  verifications[v].attempts <= Times /\ Counted(verifications[v])
    BY DEF RetriesAreCounted, Counted
  <2>1. verifications[v].attempts \in 0 .. Times
    BY DEF IInv, Calls
  <2> QED BY <2>1, TimesAssumption DEF IInv
<1> QED BY <1>1, Inductive, PTL

(* No attempt is made after the parameters' file has gone. *)
THEOREM ParametersKept == TasksSpec => []ParametersAtHand
<1>1. IInv => ParametersAtHand
  BY DEF IInv, Escalates, ParametersAtHand
<1> QED BY <1>1, Inductive, PTL

(* The last attempt, and every one after Etherscan could not verify the    *)
(* related sources, uploads all of them.                                   *)
THEOREM AllUploadedInTheEnd == TasksSpec => []UploadsAllInTheEnd
<1>1. IInv => UploadsAllInTheEnd
  <2> SUFFICES ASSUME IInv, NEW v \in Verifications, verifications[v].at = "verify",
                      verifications[v].attempts = Times
               PROVE  verifications[v].times = 1
    BY DEF UploadsAllInTheEnd, IInv, Escalates
  <2>1. verifications[v].attempts \in 0 .. Times /\ verifications[v].times \in 0 .. Times
    BY DEF IInv, Calls
  <2> QED BY <2>1, TimesAssumption DEF IInv, Counted
<1> QED BY <1>1, Inductive, PTL

----------------------------------------------------------------------------
(* The rounds of claims and redemptions. *)

Steps == {"begin", "cooldown", "remaining", "claim", "wait", "approve", "redeem", "stake"}
Calling == Steps \ {"begin"}
Coins == {"lay", "bpt"}

RoundCalls ==
  [at : Steps \union {"thrown", "done"}, round : 0 .. ROUNDS - 1, y : 1 .. Top,
   token : Rounds!StakedTokens, holder : Rounds!Holders \union {"nobody"},
   remaining : Int, rewards : Nat, balanceBefore : Nat, balanceAfter : Nat, redeemed : Int]

Ages == [Rounds!StakedTokens -> [Rounds!Holders -> 0 .. Rounds!Expired]]

RoundTypes ==
  /\ stake \in [Rounds!StakedTokens -> [Rounds!Holders -> Nat]]
  /\ cooldown \in Ages
  /\ wallet \in [Coins -> [Rounds!Holders -> Nat]]
  /\ call \in RoundCalls
  /\ call.at \in Calling => call.holder \in Rounds!Holders

(* What is about to be staked again is all there is in the wallet. *)
RestakesAll == call.at = "stake" => call.balanceAfter = wallet[Rounds!coin][Rounds!holder]

Staked(t, h) == \E i \in DOMAIN HoldersOf[t] : HoldersOf[t][i] = h

StakesKept ==
  \A t \in Rounds!StakedTokens : \A h \in Rounds!Holders :
    Staked(t, h) => stake[t][h] + wallet[Rounds!Underlying[t]][h] >= InitialStake

(* The seconds since the cooldown was asked for, at each step of a call:   *)
(* a gap for every transaction, and for the wait what remained and one.    *)
Age == cooldown[Rounds!token][Rounds!holder]

CooldownTimed ==
  /\ call.at \in {"remaining", "claim"} => Age = 0
  /\ call.at \in {"claim", "wait"} => call.remaining = COOLDOWN_SECONDS
  /\ call.at = "wait" => Age \in GAPS
  /\ call.at = "approve" => \E a \in GAPS : Age = COOLDOWN_SECONDS + 1 + a
  /\ call.at = "redeem" => \E a, b \in GAPS : Age = COOLDOWN_SECONDS + 1 + a + b

RoundsInv == RoundTypes /\ RestakesAll /\ StakesKept /\ CooldownTimed

(* Time passes for all cooldowns alike, and no further than their end. *)
LEMMA TimePasses ==
  ASSUME NEW seconds \in Nat, cooldown \in Ages
  PROVE  /\ Rounds!Later(seconds) \in Ages
         /\ \A t \in Rounds!StakedTokens, h \in Rounds!Holders :
              Rounds!Later(seconds)[t][h] =
                IF cooldown[t][h] + seconds > Rounds!Expired THEN Rounds!Expired
                ELSE cooldown[t][h] + seconds
<1>1. Rounds!Expired \in Nat
  BY RoundsAssumption DEF Rounds!Expired
<1>2. \A t \in Rounds!StakedTokens, h \in Rounds!Holders : cooldown[t][h] \in 0 .. Rounds!Expired
  BY DEF Ages
<1> QED BY <1>1, <1>2 DEF Rounds!Later, Ages

(* A call that is given up, or over, is followed by one that begins, or by *)
(* none.                                                                   *)
LEMMA CallsFollow ==
  ASSUME RoundTypes
  PROVE  /\ Rounds!NextCall \in RoundCalls /\ Rounds!NextCall.at \in {"begin", "done"}
         /\ Rounds!Catch => call' \in RoundCalls /\ call'.at \in {"begin", "thrown", "done"}
<1> DEFINE next == [Rounds!Ready EXCEPT !.round = call.round, !.y = call.y]
<1>1. /\ call \in RoundCalls /\ call.round \in 0 .. ROUNDS - 1 /\ call.y \in 1 .. Top
      /\ Top \in Nat /\ Top >= 1 /\ ROUNDS \in Nat
  BY RoundsAssumption DEF RoundTypes, RoundCalls
<1>2. next \in RoundCalls /\ next.at = "begin" /\ next.y = call.y /\ next.round = call.round
  <2>1. 0 \in 0 .. ROUNDS - 1 /\ 1 \in 1 .. Top
    BY <1>1, RoundsAssumption
  <2>2. "stkLay" \in Rounds!StakedTokens /\ "begin" \in Steps
    BY DEF Rounds!StakedTokens, Steps
  <2>3. Rounds!Ready \in RoundCalls /\ Rounds!Ready.at = "begin"
    BY <2>1, <2>2 DEF RoundCalls, Rounds!Ready
  <2> QED BY <1>1, <2>3 DEF RoundCalls
<1>3. Rounds!NextCall \in RoundCalls /\ Rounds!NextCall.at \in {"begin", "done"}
  <2>1. CASE call.token = "stkLay"
    <3>1. Rounds!NextCall = [next EXCEPT !.token = "stkBpt"]
      BY <2>1 DEF Rounds!NextCall, Rounds!token
    <3> HIDE DEF next
    <3> QED BY <3>1, <1>2 DEF RoundCalls, Rounds!StakedTokens
  <2>2. CASE call.token = "stkBpt" /\ call.y < Top
    <3>1. Rounds!NextCall = [next EXCEPT !.y = next.y + 1]
      BY <1>1, <2>2 DEF Rounds!NextCall, Rounds!token
    <3>2. next.y + 1 \in 1 .. Top
      BY <1>1, <1>2, <2>2
    <3> HIDE DEF next
    <3> QED BY <3>1, <3>2, <1>2 DEF RoundCalls
  <2>3. CASE call.token = "stkBpt" /\ call.y = Top /\ call.round + 1 < ROUNDS
    <3>1. Rounds!NextCall = [next EXCEPT !.y = 1, !.round = next.round + 1]
      BY <2>3, <1>1 DEF Rounds!NextCall, Rounds!token
    <3>2. next.round + 1 \in 0 .. ROUNDS - 1 /\ 1 \in 1 .. Top
      BY <1>1, <1>2, <2>3
    <3> HIDE DEF next
    <3> QED BY <3>1, <3>2, <1>2 DEF RoundCalls
  <2>4. CASE call.token = "stkBpt" /\ call.y = Top /\ ~(call.round + 1 < ROUNDS)
    <3>1. Rounds!NextCall = [next EXCEPT !.at = "done"]
      BY <2>4, <1>1 DEF Rounds!NextCall, Rounds!token
    <3> HIDE DEF next
    <3> QED BY <3>1, <1>2 DEF RoundCalls, Steps
  <2>5. call.token \in {"stkLay", "stkBpt"} /\ (call.y < Top \/ call.y = Top)
    BY <1>1 DEF RoundCalls, Rounds!StakedTokens
  <2> QED BY <2>1, <2>2, <2>3, <2>4, <2>5
<1>4. [call EXCEPT !.at = "thrown"] \in RoundCalls /\ [call EXCEPT !.at = "thrown"].at = "thrown"
  BY <1>1 DEF RoundCalls
<1> QED BY <1>3, <1>4 DEF Rounds!Catch

LEMMA CallsEnd ==
  ASSUME call' \in RoundCalls, call'.at \in {"begin", "thrown", "done"},
         stake' \in [Rounds!StakedTokens -> [Rounds!Holders -> Nat]],
         wallet' \in [Coins -> [Rounds!Holders -> Nat]], cooldown' \in Ages, StakesKept'
  PROVE  RoundsInv'
  BY DEF RoundsInv, RoundTypes, RestakesAll, CooldownTimed, Calling, Steps

(* Where a call is, and whose stake it is about. *)
LEMMA InACall ==
  ASSUME RoundsInv, call.at \in Calling
  PROVE  /\ Rounds!token \in Rounds!StakedTokens /\ Rounds!holder \in Rounds!Holders
         /\ Rounds!coin \in Coins /\ Rounds!coin = Rounds!Underlying[Rounds!token]
         /\ stake[Rounds!token][Rounds!holder] \in Nat
         /\ wallet[Rounds!coin][Rounds!holder] \in Nat
         /\ Age \in 0 .. Rounds!Expired
<1>1. Rounds!token \in Rounds!StakedTokens /\ Rounds!holder \in Rounds!Holders
  BY DEF RoundsInv, RoundTypes, RoundCalls, Rounds!token, Rounds!holder
<1>2. Rounds!coin \in Coins /\ Rounds!coin = Rounds!Underlying[Rounds!token]
  BY <1>1 DEF Rounds!coin, Rounds!Underlying, Rounds!StakedTokens, Coins
<1> QED BY <1>1, <1>2 DEF RoundsInv, RoundTypes, Ages, Age

(* What a step keeps that touches neither stakes nor wallets. *)
LEMMA StakesStay ==
  ASSUME StakesKept, stake' = stake, wallet' = wallet
  PROVE  StakesKept'
  BY DEF StakesKept, Staked

LEMMA FailsKeeps ==
  ASSUME RoundsInv, Rounds!Catch, UNCHANGED Rounds!fork
  PROVE  RoundsInv'
<1>1. UNCHANGED <<stake, cooldown, wallet>>
  BY DEF Rounds!fork
<1>2. call' \in RoundCalls /\ call'.at \in {"begin", "thrown", "done"}
  BY CallsFollow DEF RoundsInv
<1>3. StakesKept'
  BY <1>1, StakesStay DEF RoundsInv
<1> QED BY <1>1, <1>2, <1>3, CallsEnd DEF RoundsInv, RoundTypes

LEMMA BeginKeeps ==
  ASSUME RoundsInv, Rounds!Begin
  PROVE  RoundsInv'
<1>1. call.at = "begin" /\ UNCHANGED <<stake, cooldown, wallet>> /\ call \in RoundCalls
  BY DEF Rounds!Begin, Rounds!fork, RoundsInv, RoundTypes
<1>2. StakesKept'
  BY <1>1, StakesStay DEF RoundsInv
<1>3. CASE call.y \in DOMAIN HoldersOf[Rounds!token]
  <2> DEFINE h == HoldersOf[Rounds!token][call.y]
  <2>1. call' = [call EXCEPT !.at = "cooldown", !.holder = h]
    BY <1>3 DEF Rounds!Begin
  <2>2. h \in Rounds!Holders
    BY <1>1, <1>3 DEF Rounds!Holders, Rounds!token, RoundCalls
  <2> HIDE DEF h
  <2>3. call' \in RoundCalls /\ call'.at = "cooldown" /\ call'.holder = h
    BY <1>1, <2>1, <2>2 DEF RoundCalls, Steps
  <2> QED BY <1>1, <1>2, <2>2, <2>3 DEF RoundsInv, RoundTypes, RestakesAll, CooldownTimed
<1>4. CASE ~(call.y \in DOMAIN HoldersOf[Rounds!token])
  <2>1. call' = [call EXCEPT !.at = "thrown"]
    BY <1>4 DEF Rounds!Begin
  <2>2. call' \in RoundCalls /\ call'.at = "thrown"
    BY <1>1, <2>1 DEF RoundCalls
  <2> QED BY <1>1, <1>2, <2>2, CallsEnd DEF RoundsInv, RoundTypes
<1> QED BY <1>3, <1>4

LEMMA CooldownKeeps ==
  ASSUME RoundsInv, Rounds!Cooldown
  PROVE  RoundsInv'
<1>1. call.at = "cooldown" /\ UNCHANGED <<stake, wallet>> /\ call \in RoundCalls /\ cooldown \in Ages
  BY DEF Rounds!Cooldown, RoundsInv, RoundTypes
<1>2. CASE stake[Rounds!token][Rounds!holder] = 0
  <2>1. Rounds!Catch /\ UNCHANGED Rounds!fork
    BY <1>1, <1>2 DEF Rounds!Cooldown, Rounds!fork
  <2> QED BY <2>1, FailsKeeps
<1>3. CASE stake[Rounds!token][Rounds!holder] # 0
  <2>1. PICK s \in GAPS :
          cooldown' = [Rounds!Later(s) EXCEPT ![Rounds!token][Rounds!holder] = 0]
    BY <1>3 DEF Rounds!Cooldown
  <2>2. call' = [call EXCEPT !.at = "remaining"]
    BY <1>3 DEF Rounds!Cooldown
  <2>3. call' \in RoundCalls /\ call'.at = "remaining"
        /\ call'.token = call.token /\ call'.holder = call.holder
    BY <1>1, <2>2 DEF RoundCalls, Steps
  <2>4. call.at \in Calling
    BY <1>1 DEF Calling, Steps
  <2>5. Rounds!token \in Rounds!StakedTokens /\ Rounds!holder \in Rounds!Holders
    BY <2>4, InACall
  <2>6. Rounds!Later(s) \in Ages /\ 0 \in 0 .. Rounds!Expired
    BY <1>1, TimePasses, RoundsAssumption DEF Rounds!Expired
  <2>7. cooldown' \in Ages /\ cooldown'[Rounds!token][Rounds!holder] = 0
    BY <2>1, <2>5, <2>6 DEF Ages
  <2>8. Age' = 0
    BY <2>3, <2>7 DEF Age, Rounds!token, Rounds!holder
  <2>9. call'.holder \in Rounds!Holders
    BY <2>3, <2>5 DEF Rounds!holder
  <2>10. StakesKept'
    BY <1>1, StakesStay DEF RoundsInv
  <2> QED BY <1>1, <2>3, <2>7, <2>8, <2>9, <2>10
          DEF RoundsInv, RoundTypes, RestakesAll, CooldownTimed
<1> QED BY <1>2, <1>3

LEMMA RemainingKeeps ==
  ASSUME RoundsInv, Rounds!RemainingCooldown
  PROVE  RoundsInv'
<1>1. call.at = "remaining" /\ UNCHANGED <<stake, cooldown, wallet>> /\ call \in RoundCalls
  BY DEF Rounds!RemainingCooldown, Rounds!fork, RoundsInv, RoundTypes
<1>2. Age = 0
  BY <1>1 DEF RoundsInv, CooldownTimed
<1>3. call' = [call EXCEPT !.at = "claim", !.remaining = COOLDOWN_SECONDS]
  <2>1. call' = [call EXCEPT !.at = "claim", !.remaining = COOLDOWN_SECONDS - Age]
    BY DEF Rounds!RemainingCooldown, Age
  <2>2. COOLDOWN_SECONDS - Age = COOLDOWN_SECONDS
    BY <1>2, RoundsAssumption
  <2> QED BY <2>1, <2>2
<1>4. /\ call' \in RoundCalls /\ call'.at = "claim" /\ call'.remaining = COOLDOWN_SECONDS
      /\ call'.token = call.token /\ call'.holder = call.holder
  <2>1. COOLDOWN_SECONDS \in Int
    BY RoundsAssumption
  <2> QED BY <1>1, <1>3, <2>1 DEF RoundCalls, Steps
<1>5. Age' = 0
  BY <1>1, <1>2, <1>4 DEF Age, Rounds!token, Rounds!holder
<1>6. call'.holder \in Rounds!Holders
  BY <1>1, <1>4 DEF RoundsInv, RoundTypes, Calling, Steps
<1>7. StakesKept'
  BY <1>1, StakesStay DEF RoundsInv
<1> QED BY <1>1, <1>4, <1>5, <1>6, <1>7 DEF RoundsInv, RoundTypes, RestakesAll, CooldownTimed

(* The holder's cooldown ages by the seconds that pass, as all others do. *)
LEMMA AgeGrows ==
  ASSUME RoundsInv, call.at \in Calling, NEW seconds \in Nat,
         cooldown' = Rounds!Later(seconds), Age + seconds <= COOLDOWN_SECONDS + UNSTAKE_WINDOW,
         call'.token = call.token, call'.holder = call.holder
  PROVE  cooldown' \in Ages /\ Age' = Age + seconds
<1>1. /\ Rounds!token \in Rounds!StakedTokens /\ Rounds!holder \in Rounds!Holders
      /\ Age \in 0 .. Rounds!Expired
  BY InACall
<1>2. cooldown \in Ages
  BY DEF RoundsInv, RoundTypes
<1>3. Rounds!Expired \in Nat /\ Rounds!Expired >= COOLDOWN_SECONDS + UNSTAKE_WINDOW
  BY RoundsAssumption DEF Rounds!Expired
<1>4. cooldown'[Rounds!token][Rounds!holder] = Age + seconds
  <2>1. Rounds!Later(seconds)[Rounds!token][Rounds!holder] =
          IF Age + seconds > Rounds!Expired THEN Rounds!Expired ELSE Age + seconds
    BY <1>1, <1>2, TimePasses DEF Age
  <2>2. ~(Age + seconds > Rounds!Expired)
    BY <1>1, <1>3, RoundsAssumption
  <2> QED BY <2>1, <2>2
<1>5. Age' = cooldown'[Rounds!token][Rounds!holder]
  BY DEF Age, Rounds!token, Rounds!holder
<1> QED BY <1>2, <1>4, <1>5, TimePasses

LEMMA ClaimKeeps ==
  ASSUME RoundsInv, Rounds!ClaimRewards
  PROVE  RoundsInv'
<1>1. /\ call.at = "claim" /\ stake' = stake /\ call \in RoundCalls /\ call.at \in Calling
      /\ wallet \in [Coins -> [Rounds!Holders -> Nat]]
  BY DEF Rounds!ClaimRewards, RoundsInv, RoundTypes, Calling, Steps
<1>2. PICK s \in GAPS : cooldown' = Rounds!Later(s)
  BY DEF Rounds!ClaimRewards
<1>3. PICK rewards \in Claims :
        /\ wallet' = [wallet EXCEPT !["lay"][Rounds!holder] = @ + rewards]
        /\ call' = [call EXCEPT !.at = "wait", !.rewards = rewards]
  BY DEF Rounds!ClaimRewards
<1>4. rewards \in Nat
  BY RoundsAssumption
<1>5. /\ call' \in RoundCalls /\ call'.at = "wait" /\ call'.remaining = call.remaining
      /\ call'.token = call.token /\ call'.holder = call.holder
  BY <1>1, <1>3, <1>4 DEF RoundCalls, Steps
<1>6. Age = 0 /\ call.remaining = COOLDOWN_SECONDS
  BY <1>1 DEF RoundsInv, CooldownTimed
<1>7. cooldown' \in Ages /\ Age' = Age + s
  <2>1. Age + s <= COOLDOWN_SECONDS + UNSTAKE_WINDOW /\ s \in Nat
    BY <1>6, RoundsAssumption
  <2> QED BY <1>1, <1>2, <1>5, <2>1, AgeGrows
<1>8. Rounds!holder \in Rounds!Holders
  BY <1>1, InACall
<1>9. /\ wallet' \in [Coins -> [Rounds!Holders -> Nat]]
      /\ \A c \in Coins, h \in Rounds!Holders : wallet'[c][h] >= wallet[c][h]
  BY <1>1, <1>3, <1>4, <1>8 DEF Coins
<1>10. StakesKept'
  <2> SUFFICES ASSUME NEW t \in Rounds!StakedTokens, NEW h \in Rounds!Holders, Staked(t, h)
               PROVE  stake[t][h] + wallet'[Rounds!Underlying[t]][h] >= InitialStake
    BY <1>1 DEF StakesKept, Staked
  <2>1. Rounds!Underlying[t] \in Coins
    BY DEF Coins, Rounds!Underlying, Rounds!StakedTokens
  <2>2. stake[t][h] + wallet[Rounds!Underlying[t]][h] >= InitialStake /\ stake[t][h] \in Nat
    BY DEF RoundsInv, StakesKept, RoundTypes
  <2> QED BY <1>1, <1>9, <2>1, <2>2, RoundsAssumption
<1>11. Age' \in GAPS
  BY <1>6, <1>7, RoundsAssumption
<1>12. call'.holder \in Rounds!Holders
  BY <1>5, <1>8 DEF Rounds!holder
<1> QED BY <1>1, <1>5, <1>6, <1>7, <1>9, <1>10, <1>11, <1>12
        DEF RoundsInv, RoundTypes, RestakesAll, CooldownTimed

LEMMA IncreaseTimeKeeps ==
  ASSUME RoundsInv, Rounds!IncreaseTime
  PROVE  RoundsInv'
<1>1. /\ call.at = "wait" /\ UNCHANGED <<stake, wallet>> /\ call \in RoundCalls
      /\ call.at \in Calling
  BY DEF Rounds!IncreaseTime, RoundsInv, RoundTypes, Calling, Steps
<1>2. call.remaining = COOLDOWN_SECONDS /\ Age \in GAPS
  BY <1>1 DEF RoundsInv, CooldownTimed
<1>3. cooldown' = Rounds!Later(COOLDOWN_SECONDS + 1)
  BY <1>2 DEF Rounds!IncreaseTime
<1>4. /\ call' \in RoundCalls /\ call'.at = "approve"
      /\ call'.token = call.token /\ call'.holder = call.holder
  <2>1. call' = [call EXCEPT !.at = "approve",
                             !.balanceBefore = wallet[Rounds!coin][Rounds!holder]]
    BY DEF Rounds!IncreaseTime
  <2>2. wallet[Rounds!coin][Rounds!holder] \in Nat
    BY <1>1, InACall
  <2> QED BY <1>1, <2>1, <2>2 DEF RoundCalls, Steps
<1>5. cooldown' \in Ages /\ Age' = Age + (COOLDOWN_SECONDS + 1)
  <2>1. /\ COOLDOWN_SECONDS + 1 \in Nat
        /\ Age + (COOLDOWN_SECONDS + 1) <= COOLDOWN_SECONDS + UNSTAKE_WINDOW
    BY <1>2, RoundsAssumption
  <2> QED BY <1>1, <1>3, <1>4, <2>1, AgeGrows
<1>6. \E a \in GAPS : Age' = COOLDOWN_SECONDS + 1 + a
  BY <1>2, <1>5, RoundsAssumption
<1>7. call'.holder \in Rounds!Holders
  BY <1>1, <1>4, InACall DEF Rounds!holder
<1>8. StakesKept'
  BY <1>1, StakesStay DEF RoundsInv
<1> QED BY <1>1, <1>4, <1>5, <1>6, <1>7, <1>8
        DEF RoundsInv, RoundTypes, RestakesAll, CooldownTimed

LEMMA ApproveKeeps ==
  ASSUME RoundsInv, Rounds!Approve
  PROVE  RoundsInv'
<1>1. /\ call.at = "approve" /\ UNCHANGED <<stake, wallet>> /\ call \in RoundCalls
      /\ call.at \in Calling /\ call' = [call EXCEPT !.at = "redeem"]
  BY DEF Rounds!Approve, RoundsInv, RoundTypes, Calling, Steps
<1>2. PICK s \in GAPS : cooldown' = Rounds!Later(s)
  BY DEF Rounds!Approve
<1>3. PICK a \in GAPS : Age = COOLDOWN_SECONDS + 1 + a
  BY <1>1 DEF RoundsInv, CooldownTimed
<1>4. /\ call' \in RoundCalls /\ call'.at = "redeem"
      /\ call'.token = call.token /\ call'.holder = call.holder
  BY <1>1 DEF RoundCalls, Steps
<1>5. cooldown' \in Ages /\ Age' = Age + s
  <2>1. s \in Nat /\ Age + s <= COOLDOWN_SECONDS + UNSTAKE_WINDOW
    BY <1>3, RoundsAssumption
  <2> QED BY <1>1, <1>2, <1>4, <2>1, AgeGrows
<1>6. \E b \in GAPS : Age' = COOLDOWN_SECONDS + 1 + a + b
  BY <1>3, <1>5, RoundsAssumption
<1>7. call'.holder \in Rounds!Holders
  BY <1>1, <1>4, InACall DEF Rounds!holder
<1>8. StakesKept'
  BY <1>1, StakesStay DEF RoundsInv
<1> QED BY <1>1, <1>4, <1>5, <1>6, <1>7, <1>8
        DEF RoundsInv, RoundTypes, RestakesAll, CooldownTimed

(* Whenever the redemption is sent, its window is open. *)
LEMMA InTheWindow ==
  ASSUME RoundsInv, call.at = "redeem", NEW s \in GAPS
  PROVE  Rounds!WindowIsOpen(Rounds!Later(s)[Rounds!token][Rounds!holder])
<1>1. call.at \in Calling /\ cooldown \in Ages
  BY DEF Calling, Steps, RoundsInv, RoundTypes
<1>2. PICK a \in GAPS, b \in GAPS : Age = COOLDOWN_SECONDS + 1 + a + b
  BY DEF RoundsInv, CooldownTimed
<1>3. Rounds!token \in Rounds!StakedTokens /\ Rounds!holder \in Rounds!Holders
  BY <1>1, InACall
<1>4. Rounds!Later(s)[Rounds!token][Rounds!holder] =
        IF Age + s > Rounds!Expired THEN Rounds!Expired ELSE Age + s
  <2>1. s \in Nat
    BY RoundsAssumption
  <2> QED BY <1>1, <1>3, <2>1, TimePasses DEF Age
<1>5. ~(Age + s > Rounds!Expired)
  BY <1>2, RoundsAssumption DEF Rounds!Expired
<1>6. Rounds!Later(s)[Rounds!token][Rounds!holder] = Age + s
  BY <1>4, <1>5
<1> QED BY <1>2, <1>6, RoundsAssumption DEF Rounds!WindowIsOpen

LEMMA RedeemKeeps ==
  ASSUME RoundsInv, NEW s \in GAPS, Rounds!Redeem(s)
  PROVE  RoundsInv'
<1>1. call.at = "redeem" /\ call.at \in Calling
  BY DEF Rounds!Redeem, Calling, Steps
<1>2. /\ stake \in [Rounds!StakedTokens -> [Rounds!Holders -> Nat]] /\ cooldown \in Ages
      /\ wallet \in [Coins -> [Rounds!Holders -> Nat]] /\ call \in RoundCalls
  BY DEF RoundsInv, RoundTypes
<1>3. Rounds!WindowIsOpen(Rounds!Later(s)[Rounds!token][Rounds!holder])
  BY <1>1, InTheWindow
<1> DEFINE t0 == Rounds!token
           h0 == Rounds!holder
           c0 == Rounds!coin
           after == wallet[c0][h0] + stake[t0][h0]
           redeemed == after - call.balanceBefore - (IF t0 = "stkLay" THEN call.rewards ELSE 0)
<1>4. /\ stake' = [stake EXCEPT ![t0][h0] = 0]
      /\ cooldown' = [Rounds!Later(s) EXCEPT ![t0][h0] = Rounds!Expired]
      /\ wallet' = [wallet EXCEPT ![c0][h0] = after]
      /\ call' = [call EXCEPT !.at = "stake", !.balanceAfter = after, !.redeemed = redeemed]
  BY <1>3 DEF Rounds!Redeem
<1>5. /\ t0 \in Rounds!StakedTokens /\ h0 \in Rounds!Holders /\ c0 \in Coins
      /\ c0 = Rounds!Underlying[t0] /\ stake[t0][h0] \in Nat /\ wallet[c0][h0] \in Nat
  BY <1>1, InACall
<1>6. after \in Nat /\ redeemed \in Int
  <2>1. call.balanceBefore \in Nat /\ call.rewards \in Nat
    BY <1>2 DEF RoundCalls
  <2> QED BY <1>5, <2>1
<1>7. after = wallet[c0][h0] + stake[t0][h0]
  OBVIOUS
<1> HIDE DEF after, redeemed
<1>8. /\ call' \in RoundCalls /\ call'.at = "stake" /\ call'.balanceAfter = after
      /\ call'.token = call.token /\ call'.holder = call.holder
  BY <1>2, <1>4, <1>6 DEF RoundCalls, Steps
<1>9. Rounds!token' = t0 /\ Rounds!holder' = h0
  BY <1>8 DEF Rounds!token, Rounds!holder
<1>10. Rounds!coin' = c0
  BY <1>9 DEF Rounds!coin, Rounds!Underlying
<1>11. cooldown' \in Ages
  <2>1. Rounds!Later(s) \in Ages /\ Rounds!Expired \in 0 .. Rounds!Expired
    BY <1>2, TimePasses, RoundsAssumption DEF Rounds!Expired
  <2> QED BY <1>4, <1>5, <2>1 DEF Ages
<1> HIDE DEF t0, h0, c0
<1>12. /\ stake' \in [Rounds!StakedTokens -> [Rounds!Holders -> Nat]]
       /\ \A t \in Rounds!StakedTokens, h \in Rounds!Holders :
            stake'[t][h] = IF t = t0 /\ h = h0 THEN 0 ELSE stake[t][h]
  BY <1>2, <1>4, <1>5
<1>13. /\ wallet' \in [Coins -> [Rounds!Holders -> Nat]]
       /\ \A c \in Coins, h \in Rounds!Holders :
            wallet'[c][h] = IF c = c0 /\ h = h0 THEN after ELSE wallet[c][h]
  BY <1>2, <1>4, <1>5, <1>6
<1>14. RestakesAll'
  <2>1. wallet'[c0][h0] = after
    BY <1>5, <1>13
  <2> QED BY <1>8, <1>9, <1>10, <2>1 DEF RestakesAll
<1>15. StakesKept'
  <2> SUFFICES ASSUME NEW t \in Rounds!StakedTokens, NEW h \in Rounds!Holders, Staked(t, h)
               PROVE  stake'[t][h] + wallet'[Rounds!Underlying[t]][h] >= InitialStake
    BY DEF StakesKept, Staked
  <2> DEFINE c == Rounds!Underlying[t]
  <2>1. c \in Coins /\ (c = c0 <=> t = t0)
    BY <1>5 DEF Coins, Rounds!Underlying, Rounds!StakedTokens
  <2>2. stake[t][h] + wallet[c][h] >= InitialStake
    BY DEF RoundsInv, StakesKept
  <2>3. stake[t][h] \in Nat /\ wallet[c][h] \in Nat
    BY <1>2, <2>1
  <2> HIDE DEF c
  <2>4. CASE t = t0 /\ h = h0
    <3>1. stake'[t][h] = 0 /\ wallet'[c][h] = after
      BY <1>12, <1>13, <2>1, <2>4
    <3>2. after = wallet[c][h] + stake[t][h]
      BY <1>7, <2>1, <2>4
    <3> QED BY <2>2, <2>3, <3>1, <3>2 DEF c
  <2>5. CASE ~(t = t0 /\ h = h0)
    <3>1. stake'[t][h] = stake[t][h] /\ wallet'[c][h] = wallet[c][h]
      BY <1>12, <1>13, <2>1, <2>5
    <3> QED BY <2>2, <3>1 DEF c
  <2> QED BY <2>4, <2>5
<1>16. call'.holder \in Rounds!Holders
  BY <1>5, <1>8 DEF h0, Rounds!holder
<1> QED BY <1>8, <1>11, <1>12, <1>13, <1>14, <1>15, <1>16 DEF RoundsInv, RoundTypes, CooldownTimed

LEMMA RestakeKeeps ==
  ASSUME RoundsInv, Rounds!Restake
  PROVE  RoundsInv'
<1>1. call.at = "stake" /\ call.at \in Calling /\ call' = Rounds!NextCall
  BY DEF Rounds!Restake, Calling, Steps
<1>2. /\ stake \in [Rounds!StakedTokens -> [Rounds!Holders -> Nat]] /\ cooldown \in Ages
      /\ wallet \in [Coins -> [Rounds!Holders -> Nat]]
  BY DEF RoundsInv, RoundTypes
<1> DEFINE t0 == Rounds!token
           h0 == Rounds!holder
           c0 == Rounds!coin
           all == wallet[c0][h0]
<1>3. call.balanceAfter = all
  BY <1>1 DEF RoundsInv, RestakesAll
<1>4. /\ stake' = [stake EXCEPT ![t0][h0] = stake[t0][h0] + all]
      /\ wallet' = [wallet EXCEPT ![c0][h0] = all - all]
  BY <1>3 DEF Rounds!Restake
<1>5. /\ t0 \in Rounds!StakedTokens /\ h0 \in Rounds!Holders /\ c0 \in Coins
      /\ c0 = Rounds!Underlying[t0] /\ stake[t0][h0] \in Nat /\ all \in Nat
  BY <1>1, InACall
<1>6. all - all = 0 /\ stake[t0][h0] + all \in Nat
  BY <1>5
<1> HIDE DEF t0, h0, c0
<1>7. /\ stake' \in [Rounds!StakedTokens -> [Rounds!Holders -> Nat]]
      /\ \A t \in Rounds!StakedTokens, h \in Rounds!Holders :
           stake'[t][h] = IF t = t0 /\ h = h0 THEN stake[t0][h0] + all ELSE stake[t][h]
  BY <1>2, <1>4, <1>5, <1>6
<1>8. /\ wallet' \in [Coins -> [Rounds!Holders -> Nat]]
      /\ \A c \in Coins, h \in Rounds!Holders :
           wallet'[c][h] = IF c = c0 /\ h = h0 THEN 0 ELSE wallet[c][h]
  BY <1>2, <1>4, <1>5, <1>6
<1>9. cooldown' \in Ages
  <2>1. PICK s \in GAPS : cooldown' = Rounds!Later(s)
    BY DEF Rounds!Restake
  <2>2. s \in Nat
    BY RoundsAssumption
  <2> QED BY <1>2, <2>1, <2>2, TimePasses
<1>10. StakesKept'
  <2> SUFFICES ASSUME NEW t \in Rounds!StakedTokens, NEW h \in Rounds!Holders, Staked(t, h)
               PROVE  stake'[t][h] + wallet'[Rounds!Underlying[t]][h] >= InitialStake
    BY DEF StakesKept, Staked
  <2> DEFINE c == Rounds!Underlying[t]
  <2>1. c \in Coins /\ (c = c0 <=> t = t0)
    BY <1>5 DEF Coins, Rounds!Underlying, Rounds!StakedTokens
  <2>2. stake[t][h] + wallet[c][h] >= InitialStake
    BY DEF RoundsInv, StakesKept
  <2>3. stake[t][h] \in Nat /\ wallet[c][h] \in Nat
    BY <1>2, <2>1
  <2> HIDE DEF c
  <2>4. CASE t = t0 /\ h = h0
    <3>1. stake'[t][h] = stake[t][h] + wallet[c][h] /\ wallet'[c][h] = 0
      BY <1>7, <1>8, <2>1, <2>4
    <3> QED BY <2>2, <2>3, <3>1 DEF c
  <2>5. CASE ~(t = t0 /\ h = h0)
    <3>1. stake'[t][h] = stake[t][h] /\ wallet'[c][h] = wallet[c][h]
      BY <1>7, <1>8, <2>1, <2>5
    <3> QED BY <2>2, <3>1 DEF c
  <2> QED BY <2>4, <2>5
<1>11. call' \in RoundCalls /\ call'.at \in {"begin", "done"}
  BY <1>1, CallsFollow DEF RoundsInv
<1> QED BY <1>7, <1>8, <1>9, <1>10, <1>11, CallsEnd

LEMMA RoundsStep == RoundsInv /\ Rounds!Next => RoundsInv'
<1> SUFFICES ASSUME RoundsInv, Rounds!Next PROVE RoundsInv'
  OBVIOUS
<1>1. CASE Rounds!Fails
  BY <1>1, FailsKeeps DEF Rounds!Fails
<1>2. CASE \E s \in GAPS : Rounds!Redeem(s)
  BY <1>2, RedeemKeeps
<1> QED BY <1>1, <1>2, BeginKeeps, CooldownKeeps, RemainingKeeps, ClaimKeeps, IncreaseTimeKeeps,
           ApproveKeeps, RestakeKeeps DEF Rounds!Next

LEMMA RoundsBegin == Rounds!Init => RoundsInv
<1> SUFFICES ASSUME Rounds!Init PROVE RoundsInv
  OBVIOUS
<1>1. Rounds!Expired \in 0 .. Rounds!Expired /\ InitialStake \in Nat
  BY RoundsAssumption DEF Rounds!Expired
<1>2. cooldown \in Ages /\ wallet \in [Coins -> [Rounds!Holders -> Nat]]
  BY <1>1 DEF Rounds!Init, Ages, Coins
<1>3. /\ stake \in [Rounds!StakedTokens -> [Rounds!Holders -> Nat]]
      /\ \A t \in Rounds!StakedTokens, h \in Rounds!Holders :
           Staked(t, h) => stake[t][h] = InitialStake
  BY <1>1 DEF Rounds!Init, Staked
<1>4. \A c \in Coins, h \in Rounds!Holders : wallet[c][h] = 0
  BY DEF Rounds!Init, Coins
<1>5. StakesKept
  <2>1. \A t \in Rounds!StakedTokens : Rounds!Underlying[t] \in Coins
    BY DEF Coins, Rounds!Underlying, Rounds!StakedTokens
  <2> QED BY <1>1, <1>3, <1>4, <2>1 DEF StakesKept
<1>6. call \in RoundCalls /\ call.at = "begin"
  <2>1. 0 \in 0 .. ROUNDS - 1 /\ 1 \in 1 .. Top
    BY RoundsAssumption
  <2>2. "stkLay" \in Rounds!StakedTokens /\ "begin" \in Steps
    BY DEF Rounds!StakedTokens, Steps
  <2> QED BY <2>1, <2>2 DEF RoundCalls, Rounds!Ready, Rounds!Init
<1> QED BY <1>2, <1>3, <1>5, <1>6
        DEF RoundsInv, RoundTypes, RestakesAll, CooldownTimed, Calling, Steps

THEOREM RoundsInductive == TasksSpec => []RoundsInv
<1>1. TasksInit => RoundsInv
  BY RoundsBegin DEF TasksInit
<1>2. RoundsInv /\ [TasksNext]_tasksVars => RoundsInv'
  <2> SUFFICES ASSUME RoundsInv, [TasksNext]_tasksVars PROVE RoundsInv'
    OBVIOUS
  <2>1. CASE Redeems
    BY <2>1, RoundsStep DEF Redeems
  <2>2. CASE UNCHANGED roundVars
    BY <2>2 DEF roundVars, RoundsInv, RoundTypes, RestakesAll, StakesKept, Staked, CooldownTimed,
                Age, Rounds!token, Rounds!holder, Rounds!coin
  <2> QED BY <2>1, <2>2 DEF TasksNext, tasksVars, Verifies, Rehearses, DeploysPool
<1> QED BY <1>1, <1>2, PTL DEF TasksSpec

(* Whatever transactions of a round fail, and wherever the error is        *)
(* swallowed, no holder's stake and wallet are together less than what the *)
(* task found: what a redemption paid out is what is staked again.         *)
THEOREM StakesReturn == TasksSpec => []NothingIsLost
<1>1. RoundsInv => NothingIsLost
  <2> SUFFICES ASSUME RoundsInv, NEW t \in Rounds!StakedTokens, NEW i \in DOMAIN HoldersOf[t]
               PROVE  stake[t][HoldersOf[t][i]] + wallet[Rounds!Underlying[t]][HoldersOf[t][i]]
                        >= InitialStake
    BY DEF NothingIsLost, Rounds!NothingIsLost
  <2>1. HoldersOf[t][i] \in Rounds!Holders /\ Staked(t, HoldersOf[t][i])
    BY DEF Rounds!Holders, Staked
  <2> QED BY <2>1 DEF RoundsInv, StakesKept
<1> QED BY <1>1, RoundsInductive, PTL

(* The redemption is sent after the cooldown and within its window, for    *)
(* every cooldown and every window, and however the seconds fall between   *)
(* the transactions - as long as a second and the gaps before three of     *)
(* them fit into the window, which is the assumption on GAPS.              *)
THEOREM NoRoundIsLate == TasksSpec => RedeemsInWindow
<1>1. RoundsInv => [\A s \in GAPS : Rounds!Redeem(s) =>
          Rounds!WindowIsOpen(Rounds!Later(s)[Rounds!token][Rounds!holder])]_(Rounds!vars)
  BY InTheWindow DEF Rounds!Redeem
<1> QED BY <1>1, RoundsInductive, PTL DEF RedeemsInWindow, Rounds!RedeemsInWindow

----------------------------------------------------------------------------
(* The deployment of the pool. *)

Before == {"checks", "newCrp"}                \* before the run's own pool is made
Waiting == {"listen", "poll"}                  \* for the event that names it
After == {"createPool", "setPublicSwap", "deploy", "verify"}

PoolRuns ==
  [status : {"none", "running", "exited", "thrown", "done", "interrupted"},
   at : {"none"} \union Before \union Waiting \union After,
   verify : Flags \union {FALSE}, verified : BOOLEAN, lastBlock : {Pool!NotPolled} \union Nat,
   newPool : Nat, CRPAddress : Nat]

MadePools == [block : Nat, created : BOOLEAN, publicSwap : BOOLEAN]

PoolRun == poolRuns[Operator]
PoolRunning == PoolRun.status = "running"

Closed(pool) ==
  pool \in DOMAIN pools /\ pools[pool].created /\ ~pools[pool].publicSwap

PoolTypes ==
  /\ poolBlock \in Nat
  /\ pools \in Seq(MadePools)
  /\ tokens \in Seq([STAKED_TOKEN : Nat])
  /\ poolRuns \in [{Operator} -> PoolRuns]

(* Pools are made in blocks of their own, the latest last. *)
PoolsInOrder ==
  /\ \A p \in DOMAIN pools : 1 <= pools[p].block /\ pools[p].block <= poolBlock
  /\ \A p, q \in DOMAIN pools : p < q => pools[p].block < pools[q].block

(* A run that waits has made the latest pool, and its provider has asked   *)
(* for no block yet or for none before the one of that pool.               *)
OwnPool ==
  /\ PoolRun.newPool <= Len(pools)
  /\ PoolRun.CRPAddress \in {Pool!NoPool, PoolRun.newPool}
  /\ PoolRun.lastBlock = Pool!NotPolled \/ PoolRun.lastBlock \in 1 .. poolBlock
  /\ PoolRunning /\ PoolRun.at \in Before =>
       PoolRun.CRPAddress = Pool!NoPool /\ PoolRun.lastBlock = Pool!NotPolled
  /\ PoolRunning /\ PoolRun.at \in Waiting =>
       /\ PoolRun.newPool = Len(pools) /\ Len(pools) >= 1
       /\ \/ PoolRun.lastBlock = Pool!NotPolled
          \/ PoolRun.lastBlock >= pools[Len(pools)].block
  /\ PoolRunning /\ PoolRun.at \in After => PoolRun.CRPAddress # Pool!NoPool

PoolsClosed ==
  /\ PoolRunning /\ PoolRun.at = "setPublicSwap" => pools[PoolRun.CRPAddress].created
  /\ PoolRunning /\ PoolRun.at = "deploy" => Closed(PoolRun.CRPAddress)
  /\ \A i \in DOMAIN tokens : Closed(tokens[i].STAKED_TOKEN)

PoolInv == PoolTypes /\ PoolsInOrder /\ OwnPool /\ PoolsClosed

(* What the run's provider delivers can only be the run's own pool. *)
LEMMA HearsItsOwn ==
  ASSUME PoolInv, PoolRunning, PoolRun.at = "poll", NEW p \in Pool!Events(Operator)
  PROVE  p = PoolRun.newPool /\ p # Pool!NoPool
<1> DEFINE last == PoolRun.lastBlock
           from == IF last = Pool!NotPolled THEN poolBlock ELSE last + 1
<1>1. p \in DOMAIN pools /\ pools[p].block \in from .. poolBlock
  BY DEF Pool!Events, PoolRun
<1>2. /\ PoolRun.newPool = Len(pools) /\ Len(pools) >= 1
      /\ last = Pool!NotPolled \/ last >= pools[Len(pools)].block
  BY DEF PoolInv, OwnPool, Waiting
<1>3. /\ pools \in Seq(MadePools) /\ poolBlock \in Nat /\ last \in {Pool!NotPolled} \union Nat
  BY DEF PoolInv, PoolTypes, PoolRuns, PoolRun
<1>4. /\ Len(pools) \in DOMAIN pools /\ p \in 1 .. Len(pools) /\ Len(pools) \in Nat
      /\ pools[p].block \in Nat /\ pools[Len(pools)].block \in Nat
  <2>1. Len(pools) \in DOMAIN pools /\ p \in 1 .. Len(pools) /\ Len(pools) \in Nat
    BY <1>1, <1>2, <1>3
  <2>2. pools[p] \in MadePools /\ pools[Len(pools)] \in MadePools
    BY <1>1, <1>3, <2>1, ElementOfSeq
  <2> QED BY <2>1, <2>2 DEF MadePools
<1>5. /\ pools[Len(pools)].block <= poolBlock
      /\ p < Len(pools) => pools[p].block < pools[Len(pools)].block
  BY <1>1, <1>4 DEF PoolInv, PoolsInOrder
<1>6. CASE last = Pool!NotPolled
  <2>1. pools[p].block >= poolBlock
    BY <1>1, <1>3, <1>4, <1>6
  <2> QED BY <1>2, <1>3, <1>4, <1>5, <2>1 DEF Pool!NoPool
<1>7. CASE last # Pool!NotPolled
  <2>1. last \in Nat /\ last >= pools[Len(pools)].block
    BY <1>2, <1>3, <1>7
  <2>2. pools[p].block >= last + 1
    BY <1>1, <1>3, <1>4, <1>7, <2>1
  <2> QED BY <1>2, <1>4, <1>5, <2>1, <2>2
<1> QED BY <1>6, <1>7

(* What a run becomes, and what is then true of it. *)
LEMMA PoolRunBecomes ==
  ASSUME PoolInv, NEW run \in PoolRuns, Pool!Becomes(Operator, run)
  PROVE  poolRuns' \in [{Operator} -> PoolRuns] /\ PoolRun' = run
  BY DEF PoolInv, PoolTypes, Pool!Becomes, PoolRun

(* The chain stays, and the run with its pool. *)
LEMMA ChainStays ==
  ASSUME PoolInv, NEW run \in PoolRuns, Pool!Becomes(Operator, run), UNCHANGED Pool!chain,
         OwnPool', PoolsClosed'
  PROVE  PoolInv'
<1>1. UNCHANGED <<poolBlock, pools, tokens, others>>
  BY DEF Pool!chain
<1>2. poolRuns' \in [{Operator} -> PoolRuns]
  BY PoolRunBecomes
<1> QED BY <1>1, <1>2 DEF PoolInv, PoolTypes, PoolsInOrder

LEMMA StartKeeps ==
  ASSUME PoolInv, NEW verify \in Flags, Pool!Start(Operator, verify)
  PROVE  PoolInv'
<1> DEFINE run == [Pool!NoRun EXCEPT !.status = "running", !.at = "checks", !.verify = verify]
<1>1. Pool!NoRun \in PoolRuns
  BY DEF Pool!NoRun, PoolRuns, Pool!NoPool
<1>2. /\ run \in PoolRuns /\ run.at = "checks" /\ run.newPool = Pool!NoPool
      /\ run.CRPAddress = Pool!NoPool /\ run.lastBlock = Pool!NotPolled
  BY <1>1 DEF Pool!NoRun, PoolRuns, Before
<1>3. Pool!Becomes(Operator, run) /\ UNCHANGED Pool!chain
  BY DEF Pool!Start
<1> HIDE DEF run
<1>4. PoolRun' = run
  BY <1>2, <1>3, PoolRunBecomes
<1>5. UNCHANGED <<poolBlock, pools, tokens>> /\ Len(pools) >= 0
  BY <1>3 DEF Pool!chain, PoolInv, PoolTypes
<1>6. OwnPool'
  BY <1>2, <1>4, <1>5 DEF OwnPool, Waiting, After, Pool!NoPool
<1>7. PoolsClosed'
  BY <1>2, <1>4, <1>5 DEF PoolInv, PoolsClosed, Closed
<1> QED BY <1>2, <1>3, <1>6, <1>7, ChainStays

(* A run that ends leaves what it learnt, and nothing rests on it. *)
LEMMA RunEnds ==
  ASSUME PoolInv, UNCHANGED Pool!chain,
         NEW run \in PoolRuns, Pool!Becomes(Operator, run), run.status # "running",
         run.newPool = PoolRun.newPool, run.CRPAddress = PoolRun.CRPAddress,
         run.lastBlock = PoolRun.lastBlock
  PROVE  PoolInv'
<1>1. PoolRun' = run
  BY PoolRunBecomes
<1>2. UNCHANGED <<poolBlock, pools, tokens>>
  BY DEF Pool!chain
<1>3. OwnPool'
  BY <1>1, <1>2 DEF PoolInv, OwnPool, PoolRunning
<1>4. PoolsClosed'
  BY <1>1, <1>2 DEF PoolInv, PoolsClosed, Closed, PoolRunning
<1> QED BY <1>3, <1>4, ChainStays

LEMMA EndsKeeps ==
  ASSUME PoolInv, NEW status \in {"exited", "thrown", "done", "interrupted"},
         Pool!Ends(Operator, status), UNCHANGED Pool!chain
  PROVE  PoolInv'
<1> DEFINE run == [PoolRun EXCEPT !.status = status]
<1>1. PoolRun \in PoolRuns
  BY DEF PoolInv, PoolTypes, PoolRun
<1>2. /\ run \in PoolRuns /\ run.status # "running" /\ run.newPool = PoolRun.newPool
      /\ run.CRPAddress = PoolRun.CRPAddress /\ run.lastBlock = PoolRun.lastBlock
  BY <1>1 DEF PoolRuns
<1>3. Pool!Becomes(Operator, run)
  BY DEF Pool!Ends, PoolRun
<1> HIDE DEF run
<1> QED BY <1>2, <1>3, RunEnds

LEMMA ChecksKeeps ==
  ASSUME PoolInv, Pool!Checks(Operator)
  PROVE  PoolInv'
<1>1. UNCHANGED Pool!chain /\ PoolRun \in PoolRuns /\ PoolRunning /\ PoolRun.at = "checks"
  BY DEF Pool!Checks, Pool!At, Pool!Running, PoolRunning, PoolRun, PoolInv, PoolTypes
<1>2. CASE Pool!Ends(Operator, "exited") \/ Pool!Ends(Operator, "thrown")
  BY <1>1, <1>2, EndsKeeps
<1>3. CASE Pool!Goes(Operator, "newCrp")
  <2> DEFINE run == [PoolRun EXCEPT !.at = "newCrp"]
  <2>1. /\ run \in PoolRuns /\ run.at = "newCrp" /\ run.newPool = PoolRun.newPool
        /\ run.CRPAddress = PoolRun.CRPAddress /\ run.lastBlock = PoolRun.lastBlock
    BY <1>1 DEF PoolRuns, Before
  <2>2. Pool!Becomes(Operator, run)
    BY <1>3 DEF Pool!Goes, PoolRun
  <2> HIDE DEF run
  <2>3. PoolRun' = run
    BY <2>1, <2>2, PoolRunBecomes
  <2>4. UNCHANGED <<poolBlock, pools, tokens>>
    BY <1>1 DEF Pool!chain
  <2>5. OwnPool'
    BY <1>1, <2>1, <2>3, <2>4 DEF PoolInv, OwnPool, Before, Waiting, After
  <2>6. PoolsClosed'
    BY <2>1, <2>3, <2>4 DEF PoolInv, PoolsClosed, Closed
  <2> QED BY <1>1, <2>1, <2>2, <2>5, <2>6, ChainStays
<1> QED BY <1>2, <1>3 DEF Pool!Checks

LEMMA NewCrpKeeps ==
  ASSUME PoolInv, Pool!NewCrp(Operator)
  PROVE  PoolInv'
<1> DEFINE pool == [block |-> poolBlock + 1, created |-> FALSE, publicSwap |-> FALSE]
           run == [PoolRun EXCEPT !.at = "listen", !.newPool = Len(pools) + 1]
<1>1. /\ poolBlock \in Nat /\ pools \in Seq(MadePools) /\ tokens \in Seq([STAKED_TOKEN : Nat])
      /\ PoolRun \in PoolRuns /\ Len(pools) \in Nat
  BY DEF PoolInv, PoolTypes, PoolRun
<1>2. PoolRunning /\ PoolRun.at = "newCrp"
  BY DEF Pool!NewCrp, Pool!At, Pool!Running, PoolRunning, PoolRun
<1>3. /\ poolBlock' = poolBlock + 1 /\ pools' = Append(pools, pool) /\ tokens' = tokens
      /\ Pool!Becomes(Operator, run)
  BY DEF Pool!NewCrp, PoolRun
<1>4. pool \in MadePools /\ pool.block = poolBlock + 1
  BY <1>1 DEF MadePools
<1>5. /\ run \in PoolRuns /\ run.at = "listen" /\ run.newPool = Len(pools) + 1
      /\ run.CRPAddress = PoolRun.CRPAddress /\ run.lastBlock = PoolRun.lastBlock
  <2> DEFINE n == Len(pools) + 1
  <2>1. n \in Nat
    BY <1>1
  <2>2. run = [PoolRun EXCEPT !.at = "listen", !.newPool = n]
    OBVIOUS
  <2> HIDE DEF n, run
  <2>3. /\ run \in PoolRuns /\ run.at = "listen" /\ run.newPool = n
        /\ run.CRPAddress = PoolRun.CRPAddress /\ run.lastBlock = PoolRun.lastBlock
    BY <1>1, <2>1, <2>2 DEF PoolRuns, Waiting
  <2> QED BY <2>3 DEF n
<1> HIDE DEF pool, run
<1>6. /\ pools' \in Seq(MadePools) /\ Len(pools') = Len(pools) + 1
      /\ pools'[Len(pools) + 1] = pool
      /\ \A p \in 1 .. Len(pools) : pools'[p] = pools[p]
  BY <1>1, <1>3, <1>4, AppendProperties
<1>7. PoolRun' = run /\ poolRuns' \in [{Operator} -> PoolRuns]
  BY <1>3, <1>5, PoolRunBecomes
<1>8. PoolTypes'
  BY <1>1, <1>3, <1>6, <1>7 DEF PoolTypes
<1>9. DOMAIN pools = 1 .. Len(pools) /\ DOMAIN pools' = 1 .. Len(pools) + 1
  BY <1>1, <1>6
<1>10. \A p \in DOMAIN pools : pools[p].block \in Nat /\ pools'[p] = pools[p]
  <2>1. \A p \in DOMAIN pools : pools[p] \in MadePools
    BY <1>1, <1>9, ElementOfSeq
  <2> QED BY <1>6, <1>9, <2>1 DEF MadePools
<1>11. PoolsInOrder'
  <2>1. \A p \in DOMAIN pools' : 1 <= pools'[p].block /\ pools'[p].block <= poolBlock'
    <3> SUFFICES ASSUME NEW p \in DOMAIN pools'
                 PROVE  1 <= pools'[p].block /\ pools'[p].block <= poolBlock'
      OBVIOUS
    <3>1. CASE p \in DOMAIN pools
      BY <1>1, <1>3, <1>10, <3>1 DEF PoolInv, PoolsInOrder
    <3>2. CASE p = Len(pools) + 1
      BY <1>1, <1>3, <1>4, <1>6, <3>2
    <3> QED BY <1>1, <1>9, <3>1, <3>2
  <2>2. ASSUME NEW p \in DOMAIN pools', NEW q \in DOMAIN pools', p < q
        PROVE  pools'[p].block < pools'[q].block
    <3>1. p \in DOMAIN pools
      BY <1>1, <1>9, <2>2
    <3>2. CASE q \in DOMAIN pools
      BY <1>10, <2>2, <3>1, <3>2 DEF PoolInv, PoolsInOrder
    <3>3. CASE q = Len(pools) + 1
      <4>1. pools'[p].block <= poolBlock /\ pools'[p].block \in Nat
        BY <1>10, <3>1 DEF PoolInv, PoolsInOrder
      <4> QED BY <1>1, <1>4, <1>6, <3>3, <4>1
    <3> QED BY <1>1, <1>9, <3>2, <3>3
  <2> QED BY <2>1, <2>2 DEF PoolsInOrder
<1>12. OwnPool'
  <2>1. PoolRun.CRPAddress = Pool!NoPool /\ PoolRun.lastBlock = Pool!NotPolled
    BY <1>2 DEF PoolInv, OwnPool, Before
  <2> QED BY <1>1, <1>5, <1>6, <1>7, <2>1 DEF OwnPool, Before, Waiting, After
<1>13. PoolsClosed'
  <2>1. \A p \in DOMAIN pools : p \in DOMAIN pools' /\ pools'[p] = pools[p]
    BY <1>1, <1>9, <1>10
  <2> QED BY <1>3, <1>5, <1>7, <2>1 DEF PoolInv, PoolsClosed, Closed
<1> QED BY <1>8, <1>11, <1>12, <1>13 DEF PoolInv

LEMMA ListenKeeps ==
  ASSUME PoolInv, Pool!Listen(Operator)
  PROVE  PoolInv'
<1>1. PoolRunning /\ PoolRun.at = "listen" /\ UNCHANGED Pool!chain /\ PoolRun \in PoolRuns
  BY DEF Pool!Listen, Pool!At, Pool!Running, PoolRunning, PoolRun, PoolInv, PoolTypes
<1>2. /\ PoolRun.newPool = Len(pools) /\ Len(pools) >= 1
      /\ PoolRun.lastBlock = Pool!NotPolled \/ PoolRun.lastBlock >= pools[Len(pools)].block
  BY <1>1 DEF PoolInv, OwnPool, Waiting
<1> DEFINE made == pools[Len(pools)].block
<1>3. made \in Nat /\ made \in 1 .. poolBlock
  <2>1. pools \in Seq(MadePools) /\ Len(pools) \in DOMAIN pools /\ poolBlock \in Nat
    BY <1>2 DEF PoolInv, PoolTypes
  <2>2. pools[Len(pools)] \in MadePools
    BY <2>1, ElementOfSeq
  <2>3. 1 <= made /\ made <= poolBlock
    BY <2>1 DEF PoolInv, PoolsInOrder
  <2> QED BY <2>1, <2>2, <2>3 DEF MadePools
<1>4. PICK run \in {[PoolRun EXCEPT !.at = "poll", !.lastBlock = made],
                    [PoolRun EXCEPT !.at = "poll"]} : Pool!Becomes(Operator, run)
  BY <1>2 DEF Pool!Listen, PoolRun
<1> HIDE DEF made
<1>5. /\ run \in PoolRuns /\ run.at = "poll" /\ run.newPool = PoolRun.newPool
      /\ run.CRPAddress = PoolRun.CRPAddress
      /\ run.lastBlock = made \/ run.lastBlock = PoolRun.lastBlock
  BY <1>1, <1>3, <1>4 DEF PoolRuns, Waiting
<1>6. PoolRun' = run
  BY <1>4, <1>5, PoolRunBecomes
<1>7. UNCHANGED <<poolBlock, pools, tokens>>
  BY <1>1 DEF Pool!chain
<1>8. OwnPool'
  <2>1. run.lastBlock = Pool!NotPolled \/ run.lastBlock >= made
    BY <1>2, <1>3, <1>5 DEF made
  <2>2. run.lastBlock = Pool!NotPolled \/ run.lastBlock \in 1 .. poolBlock
    BY <1>3, <1>5 DEF PoolInv, OwnPool
  <2>3. made' = made
    BY <1>7 DEF made
  <2>4. pools'[Len(pools')].block = made
    BY <1>7 DEF made
  <2> QED BY <1>2, <1>5, <1>6, <1>7, <2>1, <2>2, <2>4
          DEF PoolInv, OwnPool, Before, Waiting, After
<1>9. PoolsClosed'
  BY <1>5, <1>6, <1>7 DEF PoolInv, PoolsClosed, Closed
<1> QED BY <1>1, <1>4, <1>5, <1>8, <1>9, ChainStays

LEMMA PollKeeps ==
  ASSUME PoolInv, Pool!Poll(Operator)
  PROVE  PoolInv'
<1>1. PoolRunning /\ PoolRun.at = "poll" /\ UNCHANGED Pool!chain /\ PoolRun \in PoolRuns
  BY DEF Pool!Poll, Pool!At, Pool!Running, PoolRunning, PoolRun, PoolInv, PoolTypes
<1>2. PoolRun.newPool = Len(pools) /\ Len(pools) >= 1 /\ PoolRun.CRPAddress = Pool!NoPool
  BY <1>1 DEF PoolInv, OwnPool, Waiting, Pool!Poll, PoolRun
<1>3. /\ pools[Len(pools)].block <= poolBlock /\ poolBlock \in Nat /\ poolBlock >= 1
  <2>1. pools \in Seq(MadePools) /\ Len(pools) \in DOMAIN pools /\ poolBlock \in Nat
    BY <1>2 DEF PoolInv, PoolTypes
  <2>2. pools[Len(pools)] \in MadePools
    BY <2>1, ElementOfSeq
  <2>3. 1 <= pools[Len(pools)].block /\ pools[Len(pools)].block <= poolBlock
    BY <2>1 DEF PoolInv, PoolsInOrder
  <2> QED BY <2>1, <2>2, <2>3 DEF MadePools
<1>4. PICK address \in {Pool!NoPool, PoolRun.newPool} :
        Pool!Becomes(Operator, [PoolRun EXCEPT !.lastBlock = poolBlock, !.CRPAddress = address])
  <2>1. CASE Pool!Becomes(Operator, [poolRuns[Operator] EXCEPT !.lastBlock = poolBlock])
    <3>1. [PoolRun EXCEPT !.lastBlock = poolBlock]
            = [PoolRun EXCEPT !.lastBlock = poolBlock, !.CRPAddress = Pool!NoPool]
      BY <1>1, <1>2 DEF PoolRuns
    <3> QED BY <2>1, <3>1 DEF PoolRun
  <2>2. CASE \E pool \in Pool!Events(Operator) : Pool!Becomes(Operator,
               [poolRuns[Operator] EXCEPT !.lastBlock = poolBlock, !.CRPAddress = pool])
    BY <1>1, <2>2, HearsItsOwn DEF PoolRun
  <2> QED BY <2>1, <2>2 DEF Pool!Poll
<1> DEFINE run == [PoolRun EXCEPT !.lastBlock = poolBlock, !.CRPAddress = address]
<1>5. /\ run \in PoolRuns /\ run.at = "poll" /\ run.newPool = PoolRun.newPool
      /\ run.CRPAddress = address /\ run.lastBlock = poolBlock
  <2>1. PoolRun.newPool \in Nat /\ Pool!NoPool \in Nat
    BY <1>1 DEF PoolRuns, Pool!NoPool
  <2> QED BY <1>1, <1>3, <1>4, <2>1 DEF PoolRuns
<1>6. Pool!Becomes(Operator, run)
  BY <1>4
<1> HIDE DEF run
<1>7. PoolRun' = run
  BY <1>5, <1>6, PoolRunBecomes
<1>8. UNCHANGED <<poolBlock, pools, tokens>>
  BY <1>1 DEF Pool!chain
<1>9. OwnPool'
  BY <1>2, <1>3, <1>4, <1>5, <1>7, <1>8 DEF OwnPool, Before, Waiting, After
<1>10. PoolsClosed'
  BY <1>5, <1>7, <1>8 DEF PoolInv, PoolsClosed, Closed
<1> QED BY <1>1, <1>5, <1>6, <1>9, <1>10, ChainStays

(* Blocks are mined, and no pool is made. *)
LEMMA PoolsStay ==
  ASSUME PoolInv, poolBlock' \in Nat, poolBlock' >= poolBlock, DOMAIN pools' = DOMAIN pools,
         \A p \in DOMAIN pools : pools'[p].block = pools[p].block
  PROVE  PoolsInOrder'
<1>1. poolBlock \in Nat /\ pools \in Seq(MadePools)
  BY DEF PoolInv, PoolTypes
<1>2. \A p \in DOMAIN pools : pools[p].block \in Nat
  <2>1. \A p \in DOMAIN pools : pools[p] \in MadePools
    BY <1>1, ElementOfSeq
  <2> QED BY <2>1 DEF MadePools
<1> QED BY <1>1, <1>2 DEF PoolInv, PoolsInOrder

(* A run that has found its pool goes on, with that pool. *)
LEMMA RunGoesOn ==
  ASSUME PoolInv, NEW step \in After, Pool!Goes(Operator, step), Len(pools') = Len(pools),
         poolBlock' \in Nat, poolBlock' >= poolBlock, PoolRun.CRPAddress # Pool!NoPool
  PROVE  /\ poolRuns' \in [{Operator} -> PoolRuns] /\ OwnPool'
         /\ PoolRun'.at = step /\ PoolRun'.CRPAddress = PoolRun.CRPAddress
<1> DEFINE run == [PoolRun EXCEPT !.at = step]
<1>1. PoolRun \in PoolRuns /\ poolBlock \in Nat
  BY DEF PoolInv, PoolTypes, PoolRun
<1>2. /\ run \in PoolRuns /\ run.at = step /\ run.newPool = PoolRun.newPool
      /\ run.CRPAddress = PoolRun.CRPAddress /\ run.lastBlock = PoolRun.lastBlock
  BY <1>1 DEF PoolRuns
<1>3. Pool!Becomes(Operator, run)
  BY DEF Pool!Goes, PoolRun
<1> HIDE DEF run
<1>4. PoolRun' = run /\ poolRuns' \in [{Operator} -> PoolRuns]
  BY <1>2, <1>3, PoolRunBecomes
<1>5. run.lastBlock = Pool!NotPolled \/ run.lastBlock \in 1 .. poolBlock'
  BY <1>1, <1>2 DEF PoolInv, OwnPool
<1>6. step \notin Before /\ step \notin Waiting
  BY DEF Before, Waiting, After
<1>7. OwnPool'
  BY <1>2, <1>4, <1>5, <1>6 DEF PoolInv, OwnPool
<1> QED BY <1>2, <1>4, <1>7

LEMMA ApproveTokensKeeps ==
  ASSUME PoolInv, Pool!ApproveTokens(Operator)
  PROVE  PoolInv'
<1>1. /\ PoolRun.CRPAddress # Pool!NoPool /\ poolBlock' = poolBlock + 2
      /\ pools' = pools /\ tokens' = tokens /\ Pool!Goes(Operator, "createPool")
  BY DEF Pool!ApproveTokens, PoolRun
<1>2. poolBlock \in Nat /\ poolBlock' \in Nat /\ poolBlock' >= poolBlock
  BY <1>1 DEF PoolInv, PoolTypes
<1>3. /\ poolRuns' \in [{Operator} -> PoolRuns] /\ OwnPool' /\ PoolRun'.at = "createPool"
  BY <1>1, <1>2, RunGoesOn DEF After
<1>4. PoolsInOrder'
  BY <1>1, <1>2, PoolsStay
<1>5. PoolsClosed'
  BY <1>1, <1>3 DEF PoolInv, PoolsClosed, Closed
<1> QED BY <1>1, <1>2, <1>3, <1>4, <1>5 DEF PoolInv, PoolTypes

(* One of the pools is filled, opened or closed. *)
LEMMA PoolChanges ==
  ASSUME PoolInv, NEW pool \in DOMAIN pools, NEW created \in BOOLEAN, NEW publicSwap \in BOOLEAN,
         pools' = [pools EXCEPT ![pool].created = created, ![pool].publicSwap = publicSwap],
         poolBlock' \in Nat, poolBlock' >= poolBlock
  PROVE  /\ pools' \in Seq(MadePools) /\ Len(pools') = Len(pools) /\ DOMAIN pools' = DOMAIN pools
         /\ pools'[pool].created = created /\ pools'[pool].publicSwap = publicSwap
         /\ \A p \in DOMAIN pools : p # pool => pools'[p] = pools[p]
         /\ PoolsInOrder'
<1>1. pools \in Seq(MadePools)
  BY DEF PoolInv, PoolTypes
<1>2. pools[pool] \in MadePools
  BY <1>1, ElementOfSeq
<1> DEFINE it == [[pools[pool] EXCEPT !.created = created] EXCEPT !.publicSwap = publicSwap]
<1>3. it \in MadePools /\ it.created = created /\ it.publicSwap = publicSwap
      /\ it.block = pools[pool].block
  BY <1>2 DEF MadePools
<1>4. pools' = [pools EXCEPT ![pool] = it]
  OBVIOUS
<1> HIDE DEF it
<1>5. /\ pools' \in Seq(MadePools) /\ Len(pools') = Len(pools) /\ DOMAIN pools' = DOMAIN pools
      /\ pools'[pool] = it /\ \A p \in DOMAIN pools : p # pool => pools'[p] = pools[p]
  <2>1. pool \in 1 .. Len(pools) /\ DOMAIN pools = 1 .. Len(pools)
    BY <1>1
  <2>2. /\ pools' \in Seq(MadePools) /\ Len(pools') = Len(pools)
        /\ \A p \in 1 .. Len(pools) : pools'[p] = IF p = pool THEN it ELSE pools[p]
    <3> DEFINE changed == [pools EXCEPT ![pool] = it]
    <3>1. /\ changed \in Seq(MadePools) /\ Len(changed) = Len(pools)
          /\ \A p \in 1 .. Len(pools) : changed[p] = IF p = pool THEN it ELSE pools[p]
      <4>1. pools \in Seq(MadePools) /\ pool \in 1 .. Len(pools) /\ it \in MadePools
        BY <1>1, <1>3, <2>1
      <4> QED BY <4>1, ExceptSeq
    <3> HIDE DEF changed
    <3>2. pools' = changed
      BY <1>4 DEF changed
    <3> QED BY <3>1, <3>2
  <2> QED BY <2>1, <2>2
<1>6. PoolsInOrder'
  <2>1. \A p \in DOMAIN pools : pools'[p].block = pools[p].block
    BY <1>3, <1>5
  <2> QED BY <1>5, <2>1, PoolsStay
<1> QED BY <1>3, <1>5, <1>6

LEMMA AtHand ==
  ASSUME PoolInv, PoolRunning, PoolRun.at \in After
  PROVE  PoolRun.CRPAddress \in DOMAIN pools /\ PoolRun.CRPAddress # Pool!NoPool
<1>1. PoolRun \in PoolRuns /\ pools \in Seq(MadePools)
  BY DEF PoolInv, PoolTypes, PoolRun
<1>2. PoolRun.newPool \in Nat /\ PoolRun.newPool <= Len(pools) /\ PoolRun.newPool # 0
      /\ PoolRun.CRPAddress = PoolRun.newPool
  BY <1>1 DEF PoolInv, OwnPool, PoolRuns, Pool!NoPool
<1> QED BY <1>1, <1>2 DEF Pool!NoPool

LEMMA CreatePoolKeeps ==
  ASSUME PoolInv, Pool!CreatePool(Operator)
  PROVE  PoolInv'
<1> DEFINE pool == PoolRun.CRPAddress
<1>1. PoolRunning /\ PoolRun.at = "createPool" /\ tokens' = tokens
  BY DEF Pool!CreatePool, Pool!At, Pool!Running, PoolRunning, PoolRun
<1>2. pool \in DOMAIN pools /\ pool # Pool!NoPool
  BY <1>1, AtHand DEF After
<1>3. CASE pools[pool].created
  <2>1. Pool!Ends(Operator, "thrown") /\ UNCHANGED Pool!chain
    BY <1>3 DEF Pool!CreatePool, Pool!chain, PoolRun
  <2> QED BY <2>1, EndsKeeps
<1>4. CASE ~pools[pool].created
  <2>1. /\ poolBlock' = poolBlock + 1 /\ Pool!Goes(Operator, "setPublicSwap")
        /\ pools' = [pools EXCEPT ![pool].created = TRUE, ![pool].publicSwap = TRUE]
    BY <1>4 DEF Pool!CreatePool, PoolRun
  <2>2. poolBlock' \in Nat /\ poolBlock' >= poolBlock
    BY <2>1 DEF PoolInv, PoolTypes
  <2> HIDE DEF pool
  <2>3. /\ pools' \in Seq(MadePools) /\ Len(pools') = Len(pools) /\ DOMAIN pools' = DOMAIN pools
        /\ pools'[pool].created = TRUE /\ PoolsInOrder'
        /\ \A p \in DOMAIN pools : p # pool => pools'[p] = pools[p]
    BY <1>2, <2>1, <2>2, PoolChanges
  <2>4. /\ poolRuns' \in [{Operator} -> PoolRuns] /\ OwnPool'
        /\ PoolRun'.at = "setPublicSwap" /\ PoolRun'.CRPAddress = pool
    BY <1>2, <2>1, <2>2, <2>3, RunGoesOn DEF After, pool
  <2>5. PoolsClosed'
    BY <1>1, <1>4, <2>3, <2>4 DEF PoolInv, PoolsClosed, Closed
  <2> QED BY <1>1, <2>2, <2>3, <2>4, <2>5 DEF PoolInv, PoolTypes
<1> QED BY <1>3, <1>4

LEMMA SetPublicSwapKeeps ==
  ASSUME PoolInv, Pool!SetPublicSwap(Operator)
  PROVE  PoolInv'
<1> DEFINE pool == PoolRun.CRPAddress
<1>1. /\ PoolRunning /\ PoolRun.at = "setPublicSwap" /\ tokens' = tokens
      /\ poolBlock' = poolBlock + 1 /\ Pool!Goes(Operator, "deploy")
      /\ pools' = [pools EXCEPT ![pool].publicSwap = FALSE]
  BY DEF Pool!SetPublicSwap, Pool!At, Pool!Running, PoolRunning, PoolRun
<1>2. pool \in DOMAIN pools /\ pool # Pool!NoPool
  BY <1>1, AtHand DEF After
<1>3. pools[pool].created /\ pools[pool] \in MadePools
  <2>1. pools \in Seq(MadePools)
    BY DEF PoolInv, PoolTypes
  <2> QED BY <1>1, <1>2, <2>1, ElementOfSeq DEF PoolInv, PoolsClosed
<1>4. poolBlock' \in Nat /\ poolBlock' >= poolBlock
  BY <1>1 DEF PoolInv, PoolTypes
<1> HIDE DEF pool
<1>5. pools' = [pools EXCEPT ![pool].created = TRUE, ![pool].publicSwap = FALSE]
  <2>1. [pools[pool] EXCEPT !.publicSwap = FALSE]
          = [[pools[pool] EXCEPT !.created = TRUE] EXCEPT !.publicSwap = FALSE]
    BY <1>3 DEF MadePools
  <2> QED BY <1>1, <1>2, <2>1
<1>6. /\ pools' \in Seq(MadePools) /\ Len(pools') = Len(pools) /\ DOMAIN pools' = DOMAIN pools
      /\ pools'[pool].created = TRUE /\ pools'[pool].publicSwap = FALSE /\ PoolsInOrder'
      /\ \A p \in DOMAIN pools : p # pool => pools'[p] = pools[p]
  BY <1>2, <1>4, <1>5, PoolChanges
<1>7. /\ poolRuns' \in [{Operator} -> PoolRuns] /\ OwnPool'
      /\ PoolRun'.at = "deploy" /\ PoolRun'.CRPAddress = pool
  BY <1>1, <1>2, <1>4, <1>6, RunGoesOn DEF After, pool
<1>8. PoolsClosed'
  BY <1>1, <1>2, <1>6, <1>7 DEF PoolInv, PoolsClosed, Closed
<1> QED BY <1>1, <1>4, <1>6, <1>7, <1>8 DEF PoolInv, PoolTypes

LEMMA DeployKeeps ==
  ASSUME PoolInv, Pool!DeployStakedTokenV3(Operator)
  PROVE  PoolInv'
<1> DEFINE token == [STAKED_TOKEN |-> PoolRun.CRPAddress]
<1>1. /\ PoolRunning /\ PoolRun.at = "deploy" /\ pools' = pools /\ poolBlock' = poolBlock + 1
      /\ tokens' = Append(tokens, token) /\ Pool!Goes(Operator, "verify")
  BY DEF Pool!DeployStakedTokenV3, Pool!At, Pool!Running, PoolRunning, PoolRun
<1>2. PoolRun.CRPAddress # Pool!NoPool /\ Closed(PoolRun.CRPAddress)
  BY <1>1, AtHand DEF After, PoolInv, PoolsClosed
<1>3. /\ poolBlock' \in Nat /\ poolBlock' >= poolBlock /\ tokens \in Seq([STAKED_TOKEN : Nat])
      /\ token \in [STAKED_TOKEN : Nat]
  BY <1>1 DEF PoolInv, PoolTypes, PoolRuns, PoolRun
<1> HIDE DEF token
<1>4. /\ tokens' \in Seq([STAKED_TOKEN : Nat])
      /\ DOMAIN tokens' = DOMAIN tokens \union {Len(tokens) + 1}
      /\ tokens'[Len(tokens) + 1] = token /\ \A i \in DOMAIN tokens : tokens'[i] = tokens[i]
  BY <1>1, <1>3, AppendProperties
<1>5. /\ poolRuns' \in [{Operator} -> PoolRuns] /\ OwnPool' /\ PoolRun'.at = "verify"
  BY <1>1, <1>2, <1>3, RunGoesOn DEF After
<1>6. PoolsInOrder'
  BY <1>1, <1>3, PoolsStay
<1>7. PoolsClosed'
  BY <1>1, <1>2, <1>4, <1>5 DEF PoolInv, PoolsClosed, Closed, token
<1> QED BY <1>1, <1>3, <1>4, <1>5, <1>6, <1>7 DEF PoolInv, PoolTypes

LEMMA VerifyKeeps ==
  ASSUME PoolInv, Pool!Verify(Operator)
  PROVE  PoolInv'
<1> DEFINE run == [PoolRun EXCEPT !.status = "done",
                                  !.verified = Pool!SupportedByEtherscan(PoolNetwork)]
<1>1. CASE Pool!Ends(Operator, "thrown") /\ UNCHANGED Pool!chain
  BY <1>1, EndsKeeps
<1>2. CASE Pool!Becomes(Operator, run) /\ UNCHANGED Pool!chain
  <2>1. PoolRun \in PoolRuns
    BY DEF PoolInv, PoolTypes, PoolRun
  <2>2. Pool!SupportedByEtherscan(PoolNetwork) \in BOOLEAN
    BY DEF Pool!SupportedByEtherscan
  <2>3. /\ run \in PoolRuns /\ run.status # "running" /\ run.newPool = PoolRun.newPool
        /\ run.CRPAddress = PoolRun.CRPAddress /\ run.lastBlock = PoolRun.lastBlock
    BY <2>1, <2>2 DEF PoolRuns
  <2> HIDE DEF run
  <2> QED BY <1>2, <2>3, RunEnds
<1> QED BY <1>1, <1>2 DEF Pool!Verify, PoolRun

LEMMA OthersKeep ==
  ASSUME PoolInv, Pool!OthersMine
  PROVE  PoolInv'
<1>1. poolBlock' = poolBlock + 1 /\ UNCHANGED <<pools, tokens, poolRuns>> /\ PoolRun' = PoolRun
  BY DEF Pool!OthersMine, PoolRun
<1>2. poolBlock \in Nat /\ poolBlock' \in Nat /\ poolBlock' >= poolBlock
  BY <1>1 DEF PoolInv, PoolTypes
<1>3. PoolsInOrder'
  BY <1>1, <1>2, PoolsStay
<1>4. OwnPool'
  BY <1>1, <1>2 DEF PoolInv, OwnPool, PoolRunning
<1>5. PoolsClosed'
  BY <1>1 DEF PoolInv, PoolsClosed, Closed, PoolRunning
<1> QED BY <1>1, <1>2, <1>3, <1>4, <1>5 DEF PoolInv, PoolTypes

LEMMA PoolStep == PoolInv /\ Pool!Next => PoolInv'
<1> SUFFICES ASSUME PoolInv, Pool!Next PROVE PoolInv'
  OBVIOUS
<1>1. CASE Pool!OthersMine
  BY <1>1, OthersKeep
<1>2. CASE \E verify \in Flags : Pool!Start(Operator, verify)
  BY <1>2, StartKeeps
<1>3. CASE Pool!Interrupt(Operator)
  <2>1. Pool!Ends(Operator, "interrupted") /\ UNCHANGED Pool!chain
    BY <1>3 DEF Pool!Interrupt
  <2> QED BY <2>1, EndsKeeps
<1>4. CASE Pool!Continue(Operator)
  BY <1>4, ChecksKeeps, NewCrpKeeps, ListenKeeps, PollKeeps, ApproveTokensKeeps, CreatePoolKeeps,
     SetPublicSwapKeeps, DeployKeeps, VerifyKeeps DEF Pool!Continue
<1> QED BY <1>1, <1>2, <1>3, <1>4 DEF Pool!Next

LEMMA PoolBegins == Pool!Init => PoolInv
<1> SUFFICES ASSUME Pool!Init PROVE PoolInv
  OBVIOUS
<1>1. /\ poolBlock = 1 /\ pools = <<>> /\ tokens = <<>> /\ PoolRun = Pool!NoRun
      /\ poolRuns = [o \in {Operator} |-> Pool!NoRun]
  BY DEF Pool!Init, PoolRun
<1>2. Pool!NoRun \in PoolRuns
  BY DEF Pool!NoRun, PoolRuns, Pool!NoPool
<1>3. /\ PoolRun.status = "none" /\ PoolRun.newPool = 0 /\ PoolRun.CRPAddress = Pool!NoPool
      /\ PoolRun.lastBlock = Pool!NotPolled
  BY <1>1 DEF Pool!NoRun, Pool!NoPool
<1>4. PoolTypes /\ PoolsInOrder
  BY <1>1, <1>2 DEF PoolTypes, PoolsInOrder
<1>5. OwnPool
  BY <1>1, <1>3 DEF OwnPool, PoolRunning
<1>6. PoolsClosed
  BY <1>1, <1>3 DEF PoolsClosed, PoolRunning
<1> QED BY <1>4, <1>5, <1>6 DEF PoolInv

THEOREM PoolInductive == TasksSpec => []PoolInv
<1>1. TasksInit => PoolInv
  BY PoolBegins DEF TasksInit
<1>2. PoolInv /\ [TasksNext]_tasksVars => PoolInv'
  <2> SUFFICES ASSUME PoolInv, [TasksNext]_tasksVars PROVE PoolInv'
    OBVIOUS
  <2>1. CASE DeploysPool
    BY <2>1, PoolStep DEF DeploysPool
  <2>2. CASE UNCHANGED poolVars
    BY <2>2 DEF poolVars, PoolInv, PoolTypes, PoolsInOrder, OwnPool, PoolsClosed, Closed,
                PoolRun, PoolRunning
  <2> QED BY <2>1, <2>2 DEF TasksNext, tasksVars, Verifies, Rehearses, Redeems
<1> QED BY <1>1, <1>2, PTL DEF TasksSpec

(* For any number of runs of one operator, each interrupted anywhere, and  *)
(* any blocks of others: the pool a run goes on with is the one it made.   *)
THEOREM TakesItsOwnPool == TasksSpec => []FindsItsOwnPool
<1>1. PoolInv => FindsItsOwnPool
  BY DEF PoolInv, OwnPool, FindsItsOwnPool, Pool!FindsItsOwnPool, PoolRun
<1> QED BY <1>1, PoolInductive, PTL

(* Every token deployed over a pool's shares stakes shares of a pool that  *)
(* has been filled and stays closed to swaps.                              *)
THEOREM ClosedBeforeStaked == TasksSpec => []StakedPoolsAreClosed
<1>1. PoolInv => StakedPoolsAreClosed
  BY DEF PoolInv, PoolsClosed, Closed, StakedPoolsAreClosed, Pool!StakedPoolsAreClosed
<1> QED BY <1>1, PoolInductive, PTL

----------------------------------------------------------------------------
(* The rehearsals: what an account holds is a sum over the transfers, and  *)
(* one transfer more changes it by what that one moves.                    *)

LEMMA LeastNumber ==
  ASSUME NEW T \in SUBSET Nat, T # {}
  PROVE  \E n \in T : \A m \in T : n <= m
<1> DEFINE R == OpToRel(<, Nat)
<1>1. IsWellFoundedOn(R, Nat)
  BY NatLessThanWellFounded
<1>2. \A x \in Nat, y \in Nat : y < x => <<y, x>> \in R
  BY DEF OpToRel
<1> HIDE DEF R
<1>3. PICK n \in T : \A m \in T : ~(<<m, n>> \in R)
  BY <1>1, WFMin
<1>4. n \in Nat /\ \A m \in T : m \in Nat /\ ~(m < n)
  BY <1>2, <1>3
<1> QED BY <1>4

LEMMA Induction ==
  ASSUME NEW S \in SUBSET Nat, 0 \in S, \A n \in S : n + 1 \in S
  PROVE  S = Nat
<1> SUFFICES ASSUME Nat \ S # {} PROVE FALSE
  OBVIOUS
<1>1. PICK n \in Nat \ S : \A m \in Nat \ S : n <= m
  BY LeastNumber
<1>2. n # 0
  OBVIOUS
<1>3. n - 1 \in Nat /\ ~(n <= n - 1) /\ (n - 1) + 1 = n
  BY <1>2
<1>4. n - 1 \in S
  BY <1>1, <1>3
<1> QED BY <1>3, <1>4

Whales == {"WHALE", "WHALE_2"}

Transfers == [from : Whales, to : {Operator}, amount : Nat, block : Nat]

(* What the n-th transfer adds to what an account holds in a block. *)
Gain(sent, account, b, n) == IF sent[n].block > b THEN 0 ELSE Fork!Moved(account, sent[n])

Power(sent, account, b, f) ==
  [n \in 0 .. Len(sent) |-> IF n = 0 THEN Fork!Held(account)
                            ELSE f[n - 1] + Gain(sent, account, b, n)]

Powers(sent, account, b) == CHOOSE f : f = Power(sent, account, b, f)

(* The function as far as the first m transfers. *)
UpTo(sent, account, b, m) ==
  {f \in [0 .. m -> Int] :
     \A n \in 0 .. m : f[n] = IF n = 0 THEN Fork!Held(account)
                              ELSE f[n - 1] + Gain(sent, account, b, n)}

LEMMA HeldIsNatural == ASSUME NEW account PROVE Fork!Held(account) \in Nat
BY ForkAssumption DEF Fork!Held

LEMMA GainIsNumber ==
  ASSUME NEW sent \in Seq(Transfers), NEW account, NEW b \in Nat, NEW n \in 1 .. Len(sent)
  PROVE  Gain(sent, account, b, n) \in Int
<1>1. sent[n] \in Transfers
  BY ElementOfSeq
<1> QED BY <1>1 DEF Gain, Transfers, Fork!Moved

(* The definition by recursion defines a function, of integers. *)
LEMMA PowersAdd ==
  ASSUME NEW sent \in Seq(Transfers), NEW account, NEW b \in Nat
  PROVE  LET f == Powers(sent, account, b)
         IN  f = Power(sent, account, b, f) /\ f \in [0 .. Len(sent) -> Int]
<1> DEFINE S == {m \in Nat : m <= Len(sent) => UpTo(sent, account, b, m) # {}}
<1>0. Len(sent) \in Nat
  OBVIOUS
<1>1. 0 \in S
  <2> DEFINE f == [n \in 0 .. 0 |-> Fork!Held(account)]
  <2>1. f \in UpTo(sent, account, b, 0)
    BY HeldIsNatural DEF UpTo
  <2> QED BY <2>1
<1>2. ASSUME NEW m \in S, m + 1 <= Len(sent) PROVE UpTo(sent, account, b, m + 1) # {}
  <2>0. m \in Nat /\ m <= Len(sent) /\ m + 1 \in 1 .. Len(sent)
    BY <1>0, <1>2
  <2>1. PICK f \in UpTo(sent, account, b, m) : TRUE
    BY <1>2, <2>0
  <2>2. /\ f \in [0 .. m -> Int]
        /\ \A n \in 0 .. m : f[n] = IF n = 0 THEN Fork!Held(account)
                                    ELSE f[n - 1] + Gain(sent, account, b, n)
    BY <2>1 DEF UpTo
  <2>3. Gain(sent, account, b, m + 1) \in Int
    BY <2>0, GainIsNumber
  <2> DEFINE last == f[m] + Gain(sent, account, b, m + 1)
             g == [n \in 0 .. m + 1 |-> IF n = m + 1 THEN last ELSE f[n]]
  <2>4. last \in Int
    BY <2>2, <2>3
  <2>5. g \in [0 .. m + 1 -> Int]
    BY <2>2, <2>4
  <2>6. ASSUME NEW n \in 0 .. m + 1
        PROVE  g[n] = IF n = 0 THEN Fork!Held(account) ELSE g[n - 1] + Gain(sent, account, b, n)
    <3>1. CASE n = m + 1
      BY <3>1
    <3>2. CASE n # m + 1
      <4>1. n \in 0 .. m /\ n - 1 # m + 1 /\ (n # 0 => n - 1 \in 0 .. m)
        BY <3>2
      <4> QED BY <2>2, <4>1
    <3> QED BY <3>1, <3>2
  <2> HIDE DEF g, last
  <2>7. g \in UpTo(sent, account, b, m + 1)
    BY <2>5, <2>6 DEF UpTo
  <2> QED BY <2>7
<1>3. S = Nat
  <2>1. S \in SUBSET Nat
    OBVIOUS
  <2>2. ASSUME NEW m \in S PROVE m + 1 \in S
    BY <1>2
  <2> HIDE DEF S
  <2> QED BY <1>1, <2>1, <2>2, Induction
<1>4. PICK f \in UpTo(sent, account, b, Len(sent)) : TRUE
  BY <1>0, <1>3
<1>5. f = Power(sent, account, b, f)
  BY <1>4 DEF Power, UpTo
<1>6. Powers(sent, account, b) = Power(sent, account, b, Powers(sent, account, b))
  BY <1>5 DEF Powers
<1> DEFINE h == Powers(sent, account, b)
<1>7. /\ DOMAIN h = 0 .. Len(sent)
      /\ \A n \in 0 .. Len(sent) : h[n] = IF n = 0 THEN Fork!Held(account)
                                          ELSE h[n - 1] + Gain(sent, account, b, n)
  BY <1>6 DEF Power
<1> DEFINE T == {m \in Nat : m <= Len(sent) => h[m] \in Int}
<1> HIDE DEF h
<1>8. 0 \in T
  BY <1>0, <1>7, HeldIsNatural
<1>9. ASSUME NEW m \in T PROVE m + 1 \in T
  <2> SUFFICES ASSUME m + 1 <= Len(sent) PROVE h[m + 1] \in Int
    OBVIOUS
  <2>1. h[m] \in Int /\ Gain(sent, account, b, m + 1) \in Int
    BY <1>0, GainIsNumber
  <2>2. h[m + 1] = h[m] + Gain(sent, account, b, m + 1)
    BY <1>0, <1>7
  <2> QED BY <2>1, <2>2
<1>10. T = Nat
  <2> HIDE DEF T
  <2>1. T \in SUBSET Nat
    BY DEF T
  <2> QED BY <1>8, <1>9, <2>1, Induction
<1>11. h \in [0 .. Len(sent) -> Int]
  <2>1. h = [n \in 0 .. Len(sent) |-> h[n]]
    BY <1>6 DEF h, Power
  <2>2. \A n \in 0 .. Len(sent) : h[n] \in Int
    BY <1>0, <1>10
  <2> QED BY <2>1, <2>2
<1> QED BY <1>6, <1>11 DEF h

LEMMA PowerIsLast ==
  ASSUME NEW sent \in Seq(Transfers), NEW account, NEW b \in Nat
  PROVE  /\ Fork!PowerAfter(sent, account, b) = Powers(sent, account, b)[Len(sent)]
         /\ Fork!PowerAfter(sent, account, b) \in Int
<1>1. Fork!PowerAfter(sent, account, b) = Powers(sent, account, b)[Len(sent)]
  BY DEF Fork!PowerAfter, Powers, Power, Gain
<1> QED BY <1>1, PowersAdd

(* One transfer more. *)
LEMMA TransferMoves ==
  ASSUME NEW sent \in Seq(Transfers), NEW transfer \in Transfers, NEW account, NEW b \in Nat
  PROVE  Fork!PowerAfter(Append(sent, transfer), account, b) =
           Fork!PowerAfter(sent, account, b)
           + (IF transfer.block > b THEN 0 ELSE Fork!Moved(account, transfer))
<1> DEFINE more == Append(sent, transfer)
           f == Powers(sent, account, b)
           g == Powers(more, account, b)
           N == Len(sent)
<1>1. /\ more \in Seq(Transfers) /\ Len(more) = N + 1 /\ more[N + 1] = transfer /\ N \in Nat
      /\ \A n \in 1 .. N : more[n] = sent[n]
  BY AppendProperties
<1> HIDE DEF more
<1>2. /\ \A n \in 0 .. N : f[n] = IF n = 0 THEN Fork!Held(account)
                                 ELSE f[n - 1] + Gain(sent, account, b, n)
      /\ f \in [0 .. N -> Int]
  <2>1. f = Power(sent, account, b, f) /\ f \in [0 .. N -> Int]
    BY PowersAdd
  <2> HIDE DEF f
  <2> QED BY <2>1 DEF Power
<1>3. /\ \A n \in 0 .. N + 1 : g[n] = IF n = 0 THEN Fork!Held(account)
                                     ELSE g[n - 1] + Gain(more, account, b, n)
      /\ g \in [0 .. N + 1 -> Int]
  <2>1. g = Power(more, account, b, g) /\ g \in [0 .. N + 1 -> Int]
    BY <1>1, PowersAdd
  <2> HIDE DEF g
  <2> QED BY <1>1, <2>1 DEF Power
<1> HIDE DEF f, g
<1>4. \A n \in 1 .. N : Gain(more, account, b, n) = Gain(sent, account, b, n)
  BY <1>1 DEF Gain
<1> DEFINE S == {n \in Nat : n <= N => g[n] = f[n]}
<1>5. 0 \in S
  BY <1>1, <1>2, <1>3
<1>6. ASSUME NEW n \in S PROVE n + 1 \in S
  BY <1>1, <1>2, <1>3, <1>4
<1>7. S = Nat
  <2> HIDE DEF S
  <2>1. S \in SUBSET Nat
    BY DEF S
  <2> QED BY <1>5, <1>6, <2>1, Induction
<1>8. g[N] = f[N]
  BY <1>1, <1>7
<1>9. g[N + 1] = g[N] + Gain(more, account, b, N + 1)
  BY <1>1, <1>3
<1>10. Gain(more, account, b, N + 1) =
         (IF transfer.block > b THEN 0 ELSE Fork!Moved(account, transfer))
  BY <1>1 DEF Gain
<1>11. Fork!PowerAfter(more, account, b) = g[N + 1]
  BY <1>1, PowerIsLast DEF g
<1>12. Fork!PowerAfter(sent, account, b) = f[N]
  BY PowerIsLast DEF f
<1> QED BY <1>8, <1>9, <1>10, <1>11, <1>12 DEF more

(* After the block of the latest transfer nothing moves. *)
LEMMA PowerSettles ==
  ASSUME NEW sent \in Seq(Transfers), NEW account, NEW b \in Nat, NEW c \in Nat,
         \A n \in 1 .. Len(sent) : sent[n].block <= b /\ sent[n].block <= c
  PROVE  Fork!PowerAfter(sent, account, b) = Fork!PowerAfter(sent, account, c)
<1> DEFINE f == Powers(sent, account, b)
           g == Powers(sent, account, c)
           N == Len(sent)
<1>1. N \in Nat
  OBVIOUS
<1>2. \A n \in 0 .. N : f[n] = IF n = 0 THEN Fork!Held(account)
                                ELSE f[n - 1] + Gain(sent, account, b, n)
  <2>1. f = Power(sent, account, b, f)
    BY PowersAdd
  <2> HIDE DEF f
  <2> QED BY <2>1 DEF Power
<1>3. \A n \in 0 .. N : g[n] = IF n = 0 THEN Fork!Held(account)
                                ELSE g[n - 1] + Gain(sent, account, c, n)
  <2>1. g = Power(sent, account, c, g)
    BY PowersAdd
  <2> HIDE DEF g
  <2> QED BY <2>1 DEF Power
<1> HIDE DEF f, g
<1>4. ASSUME NEW n \in 1 .. N PROVE Gain(sent, account, c, n) = Gain(sent, account, b, n)
  <2>1. sent[n] \in Transfers
    BY ElementOfSeq
  <2>2. sent[n].block \in Nat /\ sent[n].block <= b /\ sent[n].block <= c
    BY <2>1 DEF Transfers
  <2>3. ~(sent[n].block > b) /\ ~(sent[n].block > c)
    BY <2>2
  <2> QED BY <2>3 DEF Gain
<1> DEFINE S == {n \in Nat : n <= N => g[n] = f[n]}
<1>5. 0 \in S
  BY <1>1, <1>2, <1>3
<1>6. ASSUME NEW n \in S PROVE n + 1 \in S
  BY <1>1, <1>2, <1>3, <1>4
<1>7. S = Nat
  <2> HIDE DEF S
  <2>1. S \in SUBSET Nat
    BY DEF S
  <2> QED BY <1>5, <1>6, <2>1, Induction
<1>8. g[N] = f[N]
  BY <1>1, <1>7
<1> QED BY <1>8, PowerIsLast DEF f, g

----------------------------------------------------------------------------
(* The types of a rehearsal. *)

Kinds == {"extension", "approval"}
Voters == Whales \union {Operator}
Accounts == Voters \union DOMAIN Holdings

ScriptSteps ==
  [op : {"transact", "current block", "advance", "verify", "count", "the first", "queue", "execute"}]
  \union [op : {"target"}, blocks : Nat]
  \union [op : {"deploy"}, token : Fork!StakedTokens, kind : DOMAIN Fork!Revision]
  \union [op : {"create"}, kind : Kinds, executor : Fork!Executors]
  \union [op : {"transfer"}, from : Whales, amount : Nat]
  \union [op : {"vote"}, by : Whales \union {"proposer"}]
  \union [op : {"increaseTime"}, seconds : Nat]

Scripts == Seq(ScriptSteps)

Rehearsals ==
  [status : {"none", "running", "done", "thrown", "interrupted"}, task : RehearsalTasks \union {"none"},
   script : Scripts, target : Int, pending : Int, proposalId : Nat,
   implementations : [Fork!StakedTokens -> Nat]]

Deployments == [kind : DOMAIN Fork!Revision, revision : Nat]

Proposals ==
  [kind : Kinds, executor : Fork!Executors, implementations : [Fork!StakedTokens -> Nat],
   creator : {Operator, "somebody"}, startBlock : Nat, endBlock : Nat, forVotes : Int,
   voters : SUBSET Voters, executionTime : Nat, executed : BOOLEAN]

Run == runs[Operator]

ForkTypes ==
  /\ network \in Forks /\ block \in Nat /\ time \in Nat \ {0}
  /\ transfers \in Seq(Transfers) /\ deployed \in Seq(Deployments)
  /\ approved \in {{}, Fork!StakedTokens}
  /\ proposals \in Seq(Proposals)
  /\ runs \in [{Operator} -> Rehearsals]
  /\ started \in 0 .. MaxRuns[network]

(* Nothing is later than the latest block. *)
Mined ==
  /\ \A n \in 1 .. Len(transfers) : transfers[n].block <= block
  /\ \A id \in 1 .. Len(proposals) : proposals[id].startBlock <= block

Covered == \A account \in Accounts : Fork!PowerAtBlock(account, block) >= 0

(* Implementations are named after they have been deployed. *)
OnFork == 0 .. Len(deployed)

ImplementationsDeployed ==
  /\ \A t \in Fork!StakedTokens : proxies[t].implementation \in OnFork
  /\ \A id \in 1 .. Len(proposals), t \in Fork!StakedTokens :
       proposals[id].implementations[t] \in OnFork
  /\ \A t \in Fork!StakedTokens : Run.implementations[t] \in OnFork

ForkInv == ForkTypes /\ Mined /\ Covered /\ ImplementationsDeployed

LEMMA ThreeSteps ==
  ASSUME NEW S, NEW a \in S, NEW b \in S, NEW c \in S
  PROVE  <<a, b, c>> \in Seq(S)
OBVIOUS

LEMMA PlainSteps ==
  ASSUME NEW op \in {"transact", "current block", "advance", "verify", "count", "the first",
                      "queue", "execute"}
  PROVE  [op |-> op] \in ScriptSteps
BY DEF ScriptSteps

LEMMA NumberedSteps ==
  ASSUME NEW n \in Nat
  PROVE  [op |-> "target", blocks |-> n] \in ScriptSteps
         /\ [op |-> "increaseTime", seconds |-> n] \in ScriptSteps
BY DEF ScriptSteps

(* The scripts are what the types say. *)
LEMMA ScriptsTyped == ASSUME NEW task \in RehearsalTasks PROVE Fork!Script(task) \in Scripts
<1> USE DEF Scripts
<1>1. \A s \in Scripts, t \in Scripts : s \o t \in Scripts
  BY ConcatProperties
<1>2. Fork!Transact \in Scripts /\ Fork!FundProposer \in Scripts
  BY DEF ScriptSteps, Fork!Transact, Fork!FundProposer, Whales
<1>6. ASSUME NEW n \in Nat PROVE Fork!AdvanceBlockTo(n) \in Scripts
  <2>1. /\ [op |-> "target", blocks |-> n] \in ScriptSteps
        /\ [op |-> "current block"] \in ScriptSteps /\ [op |-> "advance"] \in ScriptSteps
    BY PlainSteps, NumberedSteps
  <2> QED BY <2>1, ThreeSteps DEF Fork!AdvanceBlockTo
<1>3. Fork!DeployStakedLayRev3 \in Scripts /\ Fork!DeployStakedBptRev2 \in Scripts
  BY DEF ScriptSteps, Fork!DeployStakedLayRev3, Fork!DeployStakedBptRev2, Fork!StakedTokens,
         Fork!Revision
<1>4. Fork!ProposeExtension \in Scripts /\ Fork!ProposeVaultApproval \in Scripts
  BY DEF ScriptSteps, Fork!ProposeExtension, Fork!ProposeVaultApproval, Kinds, Fork!Executors
<1>5. ASSUME NEW duration \in Nat, NEW delay \in Nat
      PROVE  Fork!VoteQueueExecute(duration, delay) \in Scripts
  <2>1. <<[op |-> "vote", by |-> "proposer"]>> \in Scripts
    BY DEF ScriptSteps
  <2>2. /\ [op |-> "queue"] \in ScriptSteps /\ [op |-> "execute"] \in ScriptSteps
        /\ [op |-> "increaseTime", seconds |-> delay + 1] \in ScriptSteps
    <3>1. delay + 1 \in Nat
      OBVIOUS
    <3> QED BY <3>1, PlainSteps, NumberedSteps
  <2>3. <<[op |-> "queue"], [op |-> "increaseTime", seconds |-> delay + 1], [op |-> "execute"]>>
          \in Scripts
    BY <2>2, ThreeSteps
  <2>4. duration + 1 \in Nat
    OBVIOUS
  <2> QED BY <1>1, <1>6, <2>1, <2>3, <2>4 DEF Fork!VoteQueueExecute
<1>7. <<[op |-> "count"]>> \in Scripts /\ <<[op |-> "the first"]>> \in Scripts
  BY DEF ScriptSteps
<1>8. ASSUME NEW executor \in Fork!Executors
      PROVE  VOTING_DURATION[executor] \in Nat /\ DELAY[executor] \in Nat
  BY ForkAssumption DEF Fork!Executors
<1>9. /\ Fork!VoteQueueExecute(VOTING_DURATION["LONG_EXECUTOR"], DELAY["LONG_EXECUTOR"]) \in Scripts
      /\ Fork!VoteQueueExecute(VOTING_DURATION["SHORT_EXECUTOR"], DELAY["SHORT_EXECUTOR"]) \in Scripts
  BY <1>5, <1>8 DEF Fork!Executors
<1>10. Fork!ProposalStkExtensions \in Scripts
  BY <1>1, <1>3, <1>4 DEF Fork!ProposalStkExtensions
<1>11. Fork!ProposalStkLayExtensionTenderly \in Scripts
  BY <1>1, <1>2, <1>6, <1>7, <1>9, <1>10 DEF Fork!ProposalStkLayExtensionTenderly
<1>12. Fork!ProposalVaultApprovalTenderly \in Scripts
  BY <1>1, <1>2, <1>4, <1>6, <1>7, <1>9
     DEF Fork!ProposalVaultApprovalTenderly, Fork!ProposalVaultApproval
<1>13. Fork!ExecStks \in Scripts
  <2>1. DELAY["LONG_EXECUTOR"] \in Nat /\ VOTING_DURATION["LONG_EXECUTOR"] + 1 \in Nat
    BY <1>8 DEF Fork!Executors
  <2>2. <<[op |-> "the first"], [op |-> "vote", by |-> "WHALE"], [op |-> "vote", by |-> "WHALE_2"]>>
          \in Scripts
    <3>1. /\ [op |-> "the first"] \in ScriptSteps /\ [op |-> "vote", by |-> "WHALE"] \in ScriptSteps
          /\ [op |-> "vote", by |-> "WHALE_2"] \in ScriptSteps
      BY DEF ScriptSteps, Whales
    <3> QED BY <3>1, ThreeSteps
  <2>3. <<[op |-> "queue"], [op |-> "increaseTime", seconds |-> DELAY["LONG_EXECUTOR"] + 1],
          [op |-> "execute"]>> \in Scripts
    <3>1. /\ [op |-> "queue"] \in ScriptSteps /\ [op |-> "execute"] \in ScriptSteps
          /\ [op |-> "increaseTime", seconds |-> DELAY["LONG_EXECUTOR"] + 1] \in ScriptSteps
      <4>1. DELAY["LONG_EXECUTOR"] + 1 \in Nat
        BY <2>1
      <4> QED BY <4>1, PlainSteps, NumberedSteps
    <3> QED BY <3>1, ThreeSteps
  <2> HIDE DEF Scripts
  <2> QED BY <1>1, <1>2, <1>6, <2>1, <2>2, <2>3 DEF Fork!ExecStks
<1>14. task \in {"proposal-stk-extensions", "proposal-stk-lay-extension:tenderly",
                 "proposal-vault-approval:tenderly", "exec-stks:tenderly"}
  BY ForkAssumption
<1> HIDE DEF Scripts
<1> QED BY <1>10, <1>11, <1>12, <1>13, <1>14 DEF Fork!Script

LEMMA StepFields ==
  ASSUME NEW step \in ScriptSteps
  PROVE  /\ step.op = "target" => step.blocks \in Nat
         /\ step.op = "increaseTime" => step.seconds \in Nat
         /\ step.op = "deploy" => step.token \in Fork!StakedTokens /\ step.kind \in DOMAIN Fork!Revision
         /\ step.op = "create" => step.kind \in Kinds /\ step.executor \in Fork!Executors
         /\ step.op = "transfer" => step.from \in Whales /\ step.amount \in Nat
         /\ step.op = "vote" => step.by \in Whales \union {"proposer"}
<1>1. CASE step \in [op : {"transact", "current block", "advance", "verify", "count", "the first",
                           "queue", "execute"}]
  BY <1>1
<1>2. CASE step \in [op : {"target"}, blocks : Nat]
  BY <1>2
<1>3. CASE step \in [op : {"deploy"}, token : Fork!StakedTokens, kind : DOMAIN Fork!Revision]
  BY <1>3
<1>4. CASE step \in [op : {"create"}, kind : Kinds, executor : Fork!Executors]
  BY <1>4
<1>5. CASE step \in [op : {"transfer"}, from : Whales, amount : Nat]
  BY <1>5
<1>6. CASE step \in [op : {"vote"}, by : Whales \union {"proposer"}]
  BY <1>6
<1>7. CASE step \in [op : {"increaseTime"}, seconds : Nat]
  BY <1>7
<1> QED BY <1>1, <1>2, <1>3, <1>4, <1>5, <1>6, <1>7 DEF ScriptSteps

(* The step a run is at, and what is left after it. *)
LEMMA AtHead ==
  ASSUME ForkTypes, NEW op, Fork!AtStep(Operator, op)
  PROVE  /\ Run \in Rehearsals /\ Run.status = "running" /\ Run.script # <<>>
         /\ Fork!Step(Operator) \in ScriptSteps /\ Fork!Step(Operator).op = op
         /\ Tail(Run.script) \in Scripts
<1>1. Run \in Rehearsals /\ Run.script # <<>> /\ Run.script \in Seq(ScriptSteps)
  BY DEF ForkTypes, Fork!AtStep, Run, Rehearsals, Scripts
<1>2. Head(Run.script) \in ScriptSteps /\ Tail(Run.script) \in Scripts
  BY <1>1, HeadTailProperties DEF Scripts
<1> QED BY <1>1, <1>2 DEF Fork!AtStep, Fork!Running, Fork!Step, Run

LEMMA RunProceeds ==
  ASSUME ForkTypes, NEW run \in Rehearsals, Tail(run.script) \in Scripts,
         Fork!Proceed(Operator, run)
  PROVE  /\ runs' \in [{Operator} -> Rehearsals]
         /\ Run' = [run EXCEPT !.script = Tail(@)]
         /\ Run'.implementations = run.implementations
<1> DEFINE next == [run EXCEPT !.script = Tail(@)]
<1>1. next \in Rehearsals /\ next.implementations = run.implementations
  BY DEF Rehearsals
<1>2. runs' = [runs EXCEPT ![Operator] = next]
  BY DEF Fork!Proceed
<1> HIDE DEF next
<1>3. runs' \in [{Operator} -> Rehearsals] /\ Run' = next
  BY <1>1, <1>2 DEF ForkTypes, Run
<1> QED BY <1>1, <1>3 DEF next

LEMMA RunStops ==
  ASSUME ForkTypes, NEW status \in {"done", "thrown", "interrupted"}, Fork!End(Operator, status)
  PROVE  /\ runs' \in [{Operator} -> Rehearsals]
         /\ Run' = [Run EXCEPT !.status = status]
         /\ Run'.implementations = Run.implementations
<1> DEFINE next == [Run EXCEPT !.status = status]
<1>1. Run \in Rehearsals
  BY DEF ForkTypes, Run
<1>2. next \in Rehearsals /\ next.implementations = Run.implementations
  BY <1>1 DEF Rehearsals
<1>3. runs' = [runs EXCEPT ![Operator] = next]
  BY DEF Fork!End, Run, ForkTypes
<1> HIDE DEF next
<1>4. runs' \in [{Operator} -> Rehearsals] /\ Run' = next
  BY <1>2, <1>3 DEF ForkTypes, Run
<1> QED BY <1>2, <1>4 DEF next

(* A step that leaves LAY and the implementations alone. *)
Dated(some, b) ==
  /\ some \in Seq(Proposals)
  /\ \A id \in 1 .. Len(some) :
       /\ some[id].startBlock <= b
       /\ \A t \in Fork!StakedTokens : some[id].implementations[t] \in OnFork

LEMMA PowerStays ==
  ASSUME ForkInv, NEW b \in Nat, b >= block, NEW account
  PROVE  Fork!PowerAtBlock(account, b) = Fork!PowerAtBlock(account, block)
<1>1. \A n \in 1 .. Len(transfers) : transfers[n].block <= b /\ transfers[n].block <= block
  <2> TAKE n \in 1 .. Len(transfers)
  <2>1. transfers[n] \in Transfers
    BY ElementOfSeq DEF ForkInv, ForkTypes
  <2>2. transfers[n].block \in Nat /\ transfers[n].block <= block /\ block \in Nat
    BY <2>1 DEF ForkInv, ForkTypes, Mined, Transfers
  <2> QED BY <2>2
<1>2. transfers \in Seq(Transfers) /\ block \in Nat
  BY DEF ForkInv, ForkTypes
<1> QED BY <1>1, <1>2, PowerSettles DEF Fork!PowerAtBlock

LEMMA ForkMoves ==
  ASSUME ForkInv, UNCHANGED <<network, transfers, deployed>>,
         block' \in Nat, block' >= block, time' \in Nat \ {0},
         started' \in 0 .. MaxRuns[network],
         \A t \in Fork!StakedTokens : proxies'[t].implementation \in OnFork,
         approved' \in {{}, Fork!StakedTokens},
         Dated(proposals', block'),
         runs' \in [{Operator} -> Rehearsals],
         \A t \in Fork!StakedTokens : Run'.implementations[t] \in OnFork
  PROVE  ForkInv'
<1>1. ForkTypes'
  BY DEF ForkInv, ForkTypes, Dated
<1>2. Mined'
  <2>1. ASSUME NEW n \in 1 .. Len(transfers) PROVE transfers[n].block <= block'
    <3>1. transfers[n] \in Transfers
      BY ElementOfSeq DEF ForkInv, ForkTypes
    <3>2. transfers[n].block \in Nat /\ transfers[n].block <= block /\ block \in Nat
      BY <3>1 DEF ForkInv, ForkTypes, Mined, Transfers
    <3> QED BY <3>2
  <2> QED BY <2>1 DEF Mined, Dated
<1>3. Covered'
  <2> SUFFICES ASSUME NEW account \in Accounts PROVE Fork!PowerAtBlock(account, block)' >= 0
    BY DEF Covered, Accounts, Voters
  <2>1. Fork!PowerAtBlock(account, block)' = Fork!PowerAtBlock(account, block')
    BY DEF Fork!PowerAtBlock, Fork!PowerAfter, Fork!Held, Fork!Moved
  <2>2. Fork!PowerAtBlock(account, block') = Fork!PowerAtBlock(account, block)
    BY PowerStays
  <2> QED BY <2>1, <2>2 DEF ForkInv, Covered
<1>4. ImplementationsDeployed'
  BY DEF ImplementationsDeployed, Dated, OnFork
<1> QED BY <1>1, <1>2, <1>3, <1>4 DEF ForkInv

(* What holds of the chain that is unchanged. *)
LEMMA ForkNow ==
  ASSUME ForkInv
  PROVE  /\ block \in Nat /\ block >= block /\ time \in Nat \ {0} /\ started \in 0 .. MaxRuns[network]
                /\ \A t \in Fork!StakedTokens : proxies[t].implementation \in OnFork
         /\ approved \in {{}, Fork!StakedTokens}
         /\ \A b \in Nat : b >= block => Dated(proposals, b)
         /\ Run \in Rehearsals
         /\ \A t \in Fork!StakedTokens : Run.implementations[t] \in OnFork
<1>1. ASSUME NEW b \in Nat, b >= block PROVE Dated(proposals, b)
  <2>1. ASSUME NEW id \in 1 .. Len(proposals)
        PROVE  /\ proposals[id].startBlock <= b
               /\ \A t \in Fork!StakedTokens : proposals[id].implementations[t] \in OnFork
    <3>1. proposals[id] \in Proposals
      BY ElementOfSeq DEF ForkInv, ForkTypes
    <3>2. proposals[id].startBlock \in Nat /\ proposals[id].startBlock <= block /\ block \in Nat
      BY <3>1 DEF ForkInv, ForkTypes, Mined, Proposals
    <3>3. \A t \in Fork!StakedTokens : proposals[id].implementations[t] \in OnFork
      BY DEF ForkInv, ImplementationsDeployed
    <3>4. proposals[id].startBlock <= b
      BY <1>1, <3>2
    <3> QED BY <3>3, <3>4
  <2> QED BY <2>1 DEF Dated, ForkInv, ForkTypes
<1>2. Run \in Rehearsals /\ \A t \in Fork!StakedTokens : Run.implementations[t] \in OnFork
  BY DEF ForkInv, ForkTypes, ImplementationsDeployed, Run
<1>3. /\ block \in Nat /\ time \in Nat \ {0} /\ started \in 0 .. MaxRuns[network]
      /\ \A t \in Fork!StakedTokens : proxies[t].implementation \in OnFork
      /\ approved \in {{}, Fork!StakedTokens}
  BY DEF ForkInv, ForkTypes, ImplementationsDeployed
<1>4. block >= block
  BY <1>3
<1> QED BY <1>1, <1>2, <1>3, <1>4

LEMMA ForkStartKeeps ==
  ASSUME ForkInv, NEW task \in RehearsalTasks, Fork!Start(Operator, task), UNCHANGED network
  PROVE  ForkInv'
<1> DEFINE next == [Fork!NoRun EXCEPT !.status = "running", !.task = task, !.script = Fork!Script(task)]
<1>2. Fork!Script(task) \in Scripts
  BY ScriptsTyped
<1>3. /\ next \in Rehearsals /\ \A t \in Fork!StakedTokens : next.implementations[t] = 0
  <2>1. /\ Fork!NoRun \in Rehearsals
        /\ \A t \in Fork!StakedTokens : Fork!NoRun.implementations[t] = 0
    <3>1. <<>> \in Scripts
      BY DEF Scripts
    <3> QED BY <3>1 DEF Rehearsals, Fork!NoRun, Fork!None
  <2> QED BY <1>2, <2>1 DEF Rehearsals
<1>4. runs' = [runs EXCEPT ![Operator] = next]
  BY DEF Fork!Start
<1> HIDE DEF next
<1>5. runs' \in [{Operator} -> Rehearsals] /\ Run' = next
  BY <1>3, <1>4 DEF ForkInv, ForkTypes, Run
<1>6. 0 \in OnFork
  BY DEF OnFork, ForkInv, ForkTypes
<1>7. started' \in 0 .. MaxRuns[network]
  BY ForkAssumption DEF Fork!Start, ForkInv, ForkTypes
<1> QED BY <1>3, <1>5, <1>6, <1>7, ForkMoves, ForkNow DEF Fork!Start, Fork!chain

LEMMA TransactKeeps ==
  ASSUME ForkInv, Fork!SendTransaction(Operator), UNCHANGED network
  PROVE  ForkInv'
<1>1. block' = block + 1 /\ Fork!AtStep(Operator, "transact") /\ Fork!Proceed(Operator, Run)
  BY DEF Fork!SendTransaction, Fork!InBlock, Run
<1>2. block' \in Nat /\ block' >= block
  BY <1>1, ForkNow
<1>3. runs' \in [{Operator} -> Rehearsals] /\ Run'.implementations = Run.implementations
  BY <1>1, AtHead, RunProceeds DEF ForkInv
<1> QED BY <1>2, <1>3, ForkMoves, ForkNow DEF Fork!SendTransaction

LEMMA ForkVerifyKeeps ==
  ASSUME ForkInv, Fork!Verify(Operator), UNCHANGED network
  PROVE  ForkInv'
<1>1. /\ Fork!AtStep(Operator, "verify")
      /\ Fork!Proceed(Operator, Run) \/ Fork!End(Operator, "thrown")
  BY DEF Fork!Verify, Run
<1>2. runs' \in [{Operator} -> Rehearsals] /\ Run'.implementations = Run.implementations
  BY <1>1, AtHead, RunProceeds, RunStops DEF ForkInv
<1> QED BY <1>2, ForkMoves, ForkNow DEF Fork!Verify, Fork!chain

LEMMA CountKeeps ==
  ASSUME ForkInv, Fork!GetProposalsCount(Operator), UNCHANGED network
  PROVE  ForkInv'
<1> DEFINE next == [Run EXCEPT !.proposalId = Len(proposals) + 1]
<1>1. Fork!AtStep(Operator, "count") /\ Fork!Proceed(Operator, next)
  BY DEF Fork!GetProposalsCount, Run
<1>2. Len(proposals) + 1 \in Nat
  BY DEF ForkInv, ForkTypes
<1>3. next \in Rehearsals /\ next.implementations = Run.implementations /\ next.script = Run.script
  BY <1>2, ForkNow DEF Rehearsals
<1> HIDE DEF next
<1>4. runs' \in [{Operator} -> Rehearsals] /\ Run'.implementations = next.implementations
  BY <1>1, <1>3, AtHead, RunProceeds DEF ForkInv
<1> QED BY <1>3, <1>4, ForkMoves, ForkNow DEF Fork!GetProposalsCount, Fork!chain

LEMMA HardcodedKeeps ==
  ASSUME ForkInv, Fork!HardcodedProposal(Operator), UNCHANGED network
  PROVE  ForkInv'
<1> DEFINE next == [Run EXCEPT !.proposalId = 1]
<1>1. Fork!AtStep(Operator, "the first") /\ Fork!Proceed(Operator, next)
  BY DEF Fork!HardcodedProposal, Run
<1>2. next \in Rehearsals /\ next.implementations = Run.implementations /\ next.script = Run.script
  BY ForkNow DEF Rehearsals
<1> HIDE DEF next
<1>3. runs' \in [{Operator} -> Rehearsals] /\ Run'.implementations = next.implementations
  BY <1>1, <1>2, AtHead, RunProceeds DEF ForkInv
<1> QED BY <1>2, <1>3, ForkMoves, ForkNow DEF Fork!HardcodedProposal, Fork!chain

LEMMA TargetKeeps ==
  ASSUME ForkInv, Fork!Target(Operator), UNCHANGED network
  PROVE  ForkInv'
<1> DEFINE target == block + Fork!Step(Operator).blocks
           next == [Run EXCEPT !.target = target]
<1>1. Fork!AtStep(Operator, "target") /\ Fork!Proceed(Operator, next)
  BY DEF Fork!Target, Run
<1>2. target \in Int
  <2>1. Fork!Step(Operator).blocks \in Nat
    BY <1>1, AtHead, StepFields DEF ForkInv
  <2> QED BY <2>1, ForkNow
<1> HIDE DEF target
<1>3. next \in Rehearsals /\ next.implementations = Run.implementations /\ next.script = Run.script
  BY <1>2, ForkNow DEF Rehearsals
<1> HIDE DEF next
<1>4. runs' \in [{Operator} -> Rehearsals] /\ Run'.implementations = next.implementations
  BY <1>1, <1>3, AtHead, RunProceeds DEF ForkInv
<1> QED BY <1>3, <1>4, ForkMoves, ForkNow DEF Fork!Target, Fork!chain

LEMMA CurrentKeeps ==
  ASSUME ForkInv, Fork!CurrentBlock(Operator), UNCHANGED network
  PROVE  ForkInv'
<1> DEFINE pending == Run.target - block - 1
           next == [Run EXCEPT !.pending = pending]
<1>1. /\ Fork!AtStep(Operator, "current block")
      /\ Fork!Proceed(Operator, next) \/ Fork!Proceed(Operator, Run) \/ Fork!End(Operator, "thrown")
  BY DEF Fork!CurrentBlock, Run
<1>2. pending \in Int
  BY ForkNow DEF Rehearsals
<1> HIDE DEF pending
<1>3. next \in Rehearsals /\ next.implementations = Run.implementations /\ next.script = Run.script
  BY <1>2, ForkNow DEF Rehearsals
<1> HIDE DEF next
<1>4. runs' \in [{Operator} -> Rehearsals] /\ Run'.implementations = Run.implementations
  BY <1>1, <1>3, AtHead, RunProceeds, RunStops DEF ForkInv
<1> QED BY <1>4, ForkMoves, ForkNow DEF Fork!CurrentBlock, Fork!chain

LEMMA AdvanceKeeps ==
  ASSUME ForkInv, Fork!Advance(Operator), UNCHANGED network
  PROVE  ForkInv'
<1>1. /\ Fork!AtStep(Operator, "advance")
      /\ Fork!Proceed(Operator, Run) \/ Fork!End(Operator, "thrown") \/ UNCHANGED runs
  BY DEF Fork!Advance, Run
<1>2. block' \in Nat /\ block' >= block
  <2>1. \/ block' = block \/ block' = block + 1
        \/ block' = block + Run.pending /\ ~(Run.pending < 0)
    <3>1. CASE Run.pending < 0
      BY <3>1 DEF Fork!Advance, Run
    <3>2. CASE ~(Run.pending < 0)
      BY <3>2 DEF Fork!Advance, Run
    <3> QED BY <3>1, <3>2
  <2>2. block \in Nat /\ Run.pending \in Int
    BY ForkNow DEF Rehearsals
  <2> QED BY <2>1, <2>2
<1>3. runs' \in [{Operator} -> Rehearsals] /\ Run'.implementations = Run.implementations
  BY <1>1, AtHead, RunProceeds, RunStops DEF ForkInv, ForkTypes, Run
<1> QED BY <1>2, <1>3, ForkMoves, ForkNow DEF Fork!Advance

LEMMA ForkTimeKeeps ==
  ASSUME ForkInv, Fork!IncreaseTime(Operator), UNCHANGED network
  PROVE  ForkInv'
<1>1. Fork!AtStep(Operator, "increaseTime") /\ Fork!Proceed(Operator, Run)
  BY DEF Fork!IncreaseTime, Run
<1>2. block' \in Nat /\ block' >= block
  BY ForkNow DEF Fork!IncreaseTime
<1>3. time' \in Nat \ {0}
  <2>1. Fork!Step(Operator).seconds \in Nat
    BY <1>1, AtHead, StepFields DEF ForkInv
  <2>2. time' = time + Fork!Step(Operator).seconds
    BY DEF Fork!IncreaseTime
  <2> QED BY <2>1, <2>2, ForkNow
<1>4. runs' \in [{Operator} -> Rehearsals] /\ Run'.implementations = Run.implementations
  BY <1>1, AtHead, RunProceeds DEF ForkInv
<1> QED BY <1>2, <1>3, <1>4, ForkMoves, ForkNow DEF Fork!IncreaseTime

LEMMA StopsKeep ==
  ASSUME ForkInv, Fork!Finish(Operator) \/ Fork!Interrupt(Operator), UNCHANGED network
  PROVE  ForkInv'
<1>1. Fork!End(Operator, "done") \/ Fork!End(Operator, "interrupted")
  BY DEF Fork!Finish, Fork!Interrupt
<1>2. runs' \in [{Operator} -> Rehearsals] /\ Run'.implementations = Run.implementations
  BY <1>1, RunStops DEF ForkInv
<1> QED BY <1>2, ForkMoves, ForkNow DEF Fork!Finish, Fork!Interrupt, Fork!chain

LEMMA CreateKeeps ==
  ASSUME ForkInv, Fork!Create(Operator), UNCHANGED network
  PROVE  ForkInv'
<1> DEFINE step == Fork!Step(Operator)
           new == Fork!Proposal(step.kind, step.executor, Run.implementations, Operator)
<1>1. Fork!AtStep(Operator, "create")
  BY DEF Fork!Create
<1>2. CASE Fork!CreateAccepted(step.executor, Operator)
  <2>1. /\ proposals' = Append(proposals, new) /\ block' = block + 1
        /\ Fork!Proceed(Operator, Run)
    BY <1>2 DEF Fork!Create, Fork!InBlock, Run
  <2>2. runs' \in [{Operator} -> Rehearsals] /\ Run'.implementations = Run.implementations
    BY <1>1, <2>1, AtHead, RunProceeds DEF ForkInv
  <2>3. block' \in Nat /\ block' >= block
    BY <2>1, ForkNow
  <2>4. new \in Proposals /\ new.startBlock = block + 1 /\ new.implementations = Run.implementations
    <3>1. step.kind \in Kinds /\ step.executor \in Fork!Executors
      BY <1>1, AtHead, StepFields DEF ForkInv
    <3> DEFINE last == block + 1 + VOTING_DURATION[step.executor]
               first == block + 1
    <3>2. first \in Nat /\ last \in Nat
      BY <3>1, ForkAssumption, ForkNow DEF Fork!Executors
    <3>3. Run.implementations \in [Fork!StakedTokens -> Nat]
      BY ForkNow DEF Rehearsals
    <3>4. new = [kind |-> step.kind, executor |-> step.executor,
                 implementations |-> Run.implementations, creator |-> Operator,
                 startBlock |-> first, endBlock |-> last, forVotes |-> 0, voters |-> {},
                 executionTime |-> 0, executed |-> FALSE]
      BY DEF Fork!Proposal, Fork!InBlock, Fork!None
    <3> HIDE DEF first, last, new, step
    <3>5. new \in Proposals /\ new.startBlock = first
      BY <3>1, <3>2, <3>3, <3>4 DEF Proposals
    <3> QED BY <3>4, <3>5 DEF first
  <2> HIDE DEF new, step
  <2> DEFINE more == Append(proposals, new)
  <2>5. Dated(more, block')
    <3>1. Dated(proposals, block')
      BY <2>3, ForkNow
    <3>2. /\ more \in Seq(Proposals) /\ Len(more) = Len(proposals) + 1
          /\ more[Len(proposals) + 1] = new
          /\ \A id \in 1 .. Len(proposals) : more[id] = proposals[id]
      BY <2>4, AppendProperties DEF ForkInv, ForkTypes
    <3> HIDE DEF more
    <3>3. ASSUME NEW id \in 1 .. Len(more)
          PROVE  /\ more[id].startBlock <= block'
                 /\ \A t \in Fork!StakedTokens : more[id].implementations[t] \in OnFork
      <4>1. Len(proposals) \in Nat
        BY DEF ForkInv, ForkTypes
      <4>2. CASE id = Len(proposals) + 1
        BY <2>1, <2>3, <2>4, <3>2, <4>2, ForkNow
      <4>3. CASE id # Len(proposals) + 1
        <5>1. id \in 1 .. Len(proposals)
          BY <3>2, <4>1, <4>3
        <5> QED BY <3>1, <3>2, <5>1 DEF Dated
      <4> QED BY <4>2, <4>3
    <3> QED BY <3>2, <3>3 DEF Dated
  <2> QED BY <2>1, <2>2, <2>3, <2>5, ForkMoves, ForkNow DEF Fork!Create
<1>3. CASE ~Fork!CreateAccepted(step.executor, Operator)
  <2>1. Fork!End(Operator, "thrown") /\ UNCHANGED <<proposals, block>>
    BY <1>3 DEF Fork!Create
  <2>2. runs' \in [{Operator} -> Rehearsals] /\ Run'.implementations = Run.implementations
    BY <2>1, RunStops DEF ForkInv
  <2> QED BY <2>1, <2>2, ForkMoves, ForkNow DEF Fork!Create
<1> QED BY <1>2, <1>3

(* One proposal changes, and neither when it was made nor what for. *)
LEMMA ProposalChanges ==
  ASSUME ForkInv, NEW b \in Nat, b >= block, NEW id \in 1 .. Len(proposals), NEW changed \in Proposals,
         changed.startBlock = proposals[id].startBlock,
         changed.implementations = proposals[id].implementations
  PROVE  Dated([proposals EXCEPT ![id] = changed], b)
<1> DEFINE next == [proposals EXCEPT ![id] = changed]
<1>1. Dated(proposals, b)
  BY ForkNow
<1>2. proposals \in Seq(Proposals)
  BY DEF ForkInv, ForkTypes
<1>3. /\ next \in Seq(Proposals) /\ Len(next) = Len(proposals) /\ next[id] = changed
      /\ \A j \in 1 .. Len(proposals) : j # id => next[j] = proposals[j]
  BY <1>2, ExceptSeq
<1> HIDE DEF next
<1>4. ASSUME NEW j \in 1 .. Len(next)
      PROVE  /\ next[j].startBlock <= b
             /\ \A t \in Fork!StakedTokens : next[j].implementations[t] \in OnFork
  <2>1. j \in 1 .. Len(proposals)
    BY <1>3
  <2>2. next[j].startBlock = proposals[j].startBlock
    BY <1>3, <2>1
  <2>3. next[j].implementations = proposals[j].implementations
    BY <1>3, <2>1
  <2> QED BY <1>1, <2>1, <2>2, <2>3 DEF Dated
<1>5. Dated(next, b)
  BY <1>3, <1>4 DEF Dated
<1> QED BY <1>5 DEF next

LEMMA VoteKeeps ==
  ASSUME ForkInv, Fork!SubmitVote(Operator), UNCHANGED network
  PROVE  ForkInv'
<1> DEFINE id == Run.proposalId
           who == Fork!Voter(Operator)
           votes == proposals[id].forVotes + Fork!PowerAtBlock(who, proposals[id].startBlock)
           voters == proposals[id].voters \union {who}
           changed == [proposals[id] EXCEPT !.voters = voters, !.forVotes = votes]
<1>1. Fork!AtStep(Operator, "vote")
  BY DEF Fork!SubmitVote
<1>2. CASE Fork!VoteAccepted(id, who)
  <2>1. /\ proposals' = [proposals EXCEPT ![id] = changed] /\ block' = block + 1
        /\ Fork!Proceed(Operator, Run)
    BY <1>2 DEF Fork!SubmitVote, Fork!InBlock, Run
  <2>2. runs' \in [{Operator} -> Rehearsals] /\ Run'.implementations = Run.implementations
    BY <1>1, <2>1, AtHead, RunProceeds DEF ForkInv
  <2>3. block' \in Nat /\ block' >= block
    BY <2>1, ForkNow
  <2>4. /\ proposals \in Seq(Proposals) /\ id \in 1 .. Len(proposals)
    BY <1>2 DEF Fork!VoteAccepted, ForkInv, ForkTypes
  <2>5. proposals[id] \in Proposals
    BY <2>4, ElementOfSeq
  <2>6. who \in Voters
    <3>1. Fork!Step(Operator).by \in Whales \union {"proposer"}
      BY <1>1, AtHead, StepFields DEF ForkInv
    <3> QED BY <3>1 DEF Fork!Voter, Voters
  <2>7. votes \in Int
    <3>1. proposals[id].forVotes \in Int /\ proposals[id].startBlock \in Nat
      BY <2>5 DEF Proposals
    <3>2. Fork!PowerAtBlock(who, proposals[id].startBlock) \in Int
      BY <3>1, PowerIsLast DEF Fork!PowerAtBlock, ForkInv, ForkTypes
    <3> QED BY <3>1, <3>2
  <2>8. voters \in SUBSET Voters
    BY <2>5, <2>6 DEF Proposals
  <2> HIDE DEF votes, voters, who
  <2>9. /\ changed \in Proposals /\ changed.startBlock = proposals[id].startBlock
        /\ changed.implementations = proposals[id].implementations
    BY <2>5, <2>7, <2>8 DEF Proposals
  <2> HIDE DEF changed, id
  <2>10. Dated(proposals', block')
    BY <2>1, <2>3, <2>4, <2>9, ProposalChanges
  <2> QED BY <2>1, <2>2, <2>3, <2>10, ForkMoves, ForkNow DEF Fork!SubmitVote
<1>3. CASE ~Fork!VoteAccepted(id, who)
  <2>1. Fork!End(Operator, "thrown") /\ UNCHANGED <<proposals, block>>
    BY <1>3 DEF Fork!SubmitVote, Run
  <2>2. runs' \in [{Operator} -> Rehearsals] /\ Run'.implementations = Run.implementations
    BY <2>1, RunStops DEF ForkInv
  <2> QED BY <2>1, <2>2, ForkMoves, ForkNow DEF Fork!SubmitVote
<1> QED BY <1>2, <1>3

LEMMA QueueKeeps ==
  ASSUME ForkInv, Fork!Queue(Operator), UNCHANGED network
  PROVE  ForkInv'
<1> DEFINE id == Run.proposalId
           when == time + DELAY[proposals[id].executor]
           changed == [proposals[id] EXCEPT !.executionTime = when]
<1>1. Fork!AtStep(Operator, "queue")
  BY DEF Fork!Queue
<1>2. CASE Fork!QueueAccepted(id)
  <2>1. /\ proposals' = [proposals EXCEPT ![id] = changed] /\ block' = block + 1
        /\ Fork!Proceed(Operator, Run)
    BY <1>2 DEF Fork!Queue, Fork!InBlock, Run
  <2>2. runs' \in [{Operator} -> Rehearsals] /\ Run'.implementations = Run.implementations
    BY <1>1, <2>1, AtHead, RunProceeds DEF ForkInv
  <2>3. block' \in Nat /\ block' >= block
    BY <2>1, ForkNow
  <2>4. /\ proposals \in Seq(Proposals) /\ id \in 1 .. Len(proposals)
    BY <1>2 DEF Fork!QueueAccepted, ForkInv, ForkTypes
  <2>5. proposals[id] \in Proposals
    BY <2>4, ElementOfSeq
  <2>6. when \in Nat
    <3>1. DELAY[proposals[id].executor] \in Nat
      BY <2>5, ForkAssumption DEF Proposals, Fork!Executors
    <3> QED BY <3>1, ForkNow
  <2> HIDE DEF when
  <2>7. /\ changed \in Proposals /\ changed.startBlock = proposals[id].startBlock
        /\ changed.implementations = proposals[id].implementations
    BY <2>5, <2>6 DEF Proposals
  <2> HIDE DEF changed, id
  <2>8. Dated(proposals', block')
    BY <2>1, <2>3, <2>4, <2>7, ProposalChanges
  <2> QED BY <2>1, <2>2, <2>3, <2>8, ForkMoves, ForkNow DEF Fork!Queue
<1>3. CASE ~Fork!QueueAccepted(id)
  <2>1. Fork!End(Operator, "thrown") /\ UNCHANGED <<proposals, block>>
    BY <1>3 DEF Fork!Queue, Run
  <2>2. runs' \in [{Operator} -> Rehearsals] /\ Run'.implementations = Run.implementations
    BY <2>1, RunStops DEF ForkInv
  <2> QED BY <2>1, <2>2, ForkMoves, ForkNow DEF Fork!Queue
<1> QED BY <1>2, <1>3

LEMMA ExecuteKeeps ==
  ASSUME ForkInv, Fork!Execute(Operator), UNCHANGED network
  PROVE  ForkInv'
<1> DEFINE id == Run.proposalId
           changed == [proposals[id] EXCEPT !.executed = TRUE]
<1>1. Fork!AtStep(Operator, "execute")
  BY DEF Fork!Execute
<1>2. CASE Fork!ExecuteAccepted(id)
  <2>1. /\ proposals' = [proposals EXCEPT ![id] = changed] /\ block' = block + 1
        /\ Fork!Proceed(Operator, Run)
    BY <1>2 DEF Fork!Execute, Fork!InBlock, Run
  <2>2. runs' \in [{Operator} -> Rehearsals] /\ Run'.implementations = Run.implementations
    BY <1>1, <2>1, AtHead, RunProceeds DEF ForkInv
  <2>3. block' \in Nat /\ block' >= block
    BY <2>1, ForkNow
  <2>4. /\ proposals \in Seq(Proposals) /\ id \in 1 .. Len(proposals)
    BY <1>2 DEF Fork!ExecuteAccepted, ForkInv, ForkTypes
  <2>5. proposals[id] \in Proposals
    BY <2>4, ElementOfSeq
  <2>6. /\ changed \in Proposals /\ changed.startBlock = proposals[id].startBlock
        /\ changed.implementations = proposals[id].implementations
    BY <2>5 DEF Proposals
  <2>7. /\ approved' \in {{}, Fork!StakedTokens}
        /\ \A t \in Fork!StakedTokens : proxies'[t].implementation \in OnFork
    <3>1. CASE proposals[id].kind = "extension"
      <4>1. /\ UNCHANGED approved
            /\ proxies' = [t \in Fork!StakedTokens |->
                            [implementation |-> proposals[id].implementations[t],
                             revision |-> deployed[proposals[id].implementations[t]].revision]]
        BY <1>2, <3>1 DEF Fork!Execute, Run
      <4>2. \A t \in Fork!StakedTokens : proposals[id].implementations[t] \in OnFork
        BY <2>4 DEF ForkInv, ImplementationsDeployed
      <4> QED BY <4>1, <4>2, ForkNow
    <3>2. CASE proposals[id].kind # "extension"
      BY <1>2, <3>2, ForkNow DEF Fork!Execute, Run
    <3> QED BY <3>1, <3>2
  <2> HIDE DEF changed, id
  <2>8. Dated(proposals', block')
    BY <2>1, <2>3, <2>4, <2>6, ProposalChanges
  <2> QED BY <2>1, <2>2, <2>3, <2>7, <2>8, ForkMoves, ForkNow DEF Fork!Execute
<1>3. CASE ~Fork!ExecuteAccepted(id)
  <2>1. Fork!End(Operator, "thrown") /\ UNCHANGED <<proposals, block, proxies, approved>>
    BY <1>3 DEF Fork!Execute, Run
  <2>2. runs' \in [{Operator} -> Rehearsals] /\ Run'.implementations = Run.implementations
    BY <2>1, RunStops DEF ForkInv
  <2> QED BY <2>1, <2>2, ForkMoves, ForkNow DEF Fork!Execute
<1> QED BY <1>2, <1>3

(* What a whale sends it has, and the proposer has it then. *)
LEMMA TransferKeeps ==
  ASSUME ForkInv, Fork!Transfer(Operator), UNCHANGED network
  PROVE  ForkInv'
<1> DEFINE whale == Fork!Step(Operator).from
           amount == Fork!Step(Operator).amount
           now == block + 1
           transfer == [from |-> whale, to |-> Operator, amount |-> amount, block |-> now]
<1>1. Fork!AtStep(Operator, "transfer")
  BY DEF Fork!Transfer
<1>2. whale \in Whales /\ amount \in Nat
  BY <1>1, AtHead, StepFields DEF ForkInv
<1>3. CASE Fork!Balance(whale) >= amount
  <2>1. /\ transfers' = Append(transfers, transfer) /\ block' = now
        /\ Fork!Proceed(Operator, Run)
        /\ UNCHANGED <<time, deployed, proxies, approved, proposals, started>>
    BY <1>3 DEF Fork!Transfer, Fork!InBlock, Run
  <2>2. runs' \in [{Operator} -> Rehearsals] /\ Run'.implementations = Run.implementations
    BY <1>1, <2>1, AtHead, RunProceeds DEF ForkInv
  <2>3. now \in Nat /\ now >= block /\ block \in Nat
    BY ForkNow
  <2>4. transfer \in Transfers /\ transfer.block = now /\ transfer.from = whale
        /\ transfer.to = Operator /\ transfer.amount = amount
    BY <1>2, <2>3 DEF Transfers
  <2>5. transfers \in Seq(Transfers)
    BY DEF ForkInv, ForkTypes
  <2> HIDE DEF transfer
  <2> DEFINE more == Append(transfers, transfer)
  <2>6. /\ more \in Seq(Transfers) /\ Len(more) = Len(transfers) + 1 /\ Len(transfers) \in Nat
        /\ more[Len(transfers) + 1] = transfer
        /\ \A n \in 1 .. Len(transfers) : more[n] = transfers[n]
    BY <2>4, <2>5, AppendProperties
  <2> HIDE DEF more, now
  <2>7. ForkTypes'
    BY <2>1, <2>2, <2>3, <2>6 DEF ForkInv, ForkTypes, more
  <2>8. Dated(proposals, now)
    BY <2>3, ForkNow
  <2>9. Mined'
    <3>1. ASSUME NEW n \in 1 .. Len(more) PROVE more[n].block <= now
      <4>1. CASE n = Len(transfers) + 1
        BY <2>3, <2>4, <2>6, <4>1
      <4>2. CASE n # Len(transfers) + 1
        <5>1. n \in 1 .. Len(transfers)
          BY <2>6, <4>2
        <5>2. transfers[n] \in Transfers
          BY <2>5, <5>1, ElementOfSeq
        <5>3. transfers[n].block \in Nat /\ transfers[n].block <= block
          BY <5>1, <5>2 DEF ForkInv, Mined, Transfers
        <5> QED BY <2>3, <2>6, <5>1, <5>3
      <4> QED BY <4>1, <4>2
    <3> QED BY <2>1, <2>8, <3>1 DEF Mined, Dated, more
  <2>10. Covered'
    <3> SUFFICES ASSUME NEW account \in Accounts PROVE Fork!PowerAtBlock(account, block)' >= 0
      BY DEF Covered, Accounts, Voters
    <3>1. Fork!PowerAtBlock(account, block)' = Fork!PowerAfter(more, account, now)
      BY <2>1 DEF Fork!PowerAtBlock, Fork!PowerAfter, Fork!Held, Fork!Moved, more
    <3>2. Fork!PowerAfter(more, account, now) =
            Fork!PowerAfter(transfers, account, now) + Fork!Moved(account, transfer)
      <4>1. Fork!PowerAfter(more, account, now) =
              Fork!PowerAfter(transfers, account, now)
              + (IF transfer.block > now THEN 0 ELSE Fork!Moved(account, transfer))
        BY <2>3, <2>4, <2>5, TransferMoves DEF more
      <4>2. ~(transfer.block > now)
        BY <2>3, <2>4
      <4> QED BY <4>1, <4>2
    <3>3. Fork!PowerAfter(transfers, account, now) = Fork!Balance(account)
      BY <2>3, PowerStays DEF Fork!PowerAtBlock, Fork!Balance
    <3>4. Fork!Balance(account) \in Int /\ Fork!Balance(account) >= 0
      BY <2>3, <2>5, PowerIsLast DEF ForkInv, Covered, Fork!PowerAtBlock, Fork!Balance
    <3>5. Fork!Moved(account, transfer) = (IF Operator = account THEN amount ELSE 0)
                                          - (IF whale = account THEN amount ELSE 0)
      BY <2>4 DEF Fork!Moved
    <3>6. whale # Operator
      BY <1>2, ForkAssumption DEF Whales
    <3> HIDE DEF whale, amount
    <3>7. CASE account = whale
      <4>1. Fork!Moved(account, transfer) = 0 - amount /\ Fork!Balance(account) >= amount
        BY <1>3, <3>5, <3>6, <3>7
      <4>2. Fork!Balance(account) + Fork!Moved(account, transfer) >= 0
        BY <1>2, <3>4, <4>1
      <4> QED BY <3>1, <3>2, <3>3, <4>2
    <3>8. CASE account # whale
      <4>1. Fork!Moved(account, transfer) \in Nat
        BY <1>2, <3>5, <3>8
      <4>2. Fork!Balance(account) + Fork!Moved(account, transfer) >= 0
        BY <3>4, <4>1
      <4> QED BY <3>1, <3>2, <3>3, <4>2
    <3> QED BY <3>7, <3>8
  <2>11. ImplementationsDeployed'
    BY <2>1, <2>2 DEF ForkInv, ImplementationsDeployed, OnFork
  <2> QED BY <2>7, <2>9, <2>10, <2>11 DEF ForkInv
<1>4. CASE ~(Fork!Balance(whale) >= amount)
  <2>1. Fork!End(Operator, "thrown") /\ UNCHANGED <<transfers, block>>
    BY <1>4 DEF Fork!Transfer
  <2>2. runs' \in [{Operator} -> Rehearsals] /\ Run'.implementations = Run.implementations
    BY <2>1, RunStops DEF ForkInv
  <2> QED BY <2>1, <2>2, ForkMoves, ForkNow DEF Fork!Transfer
<1> QED BY <1>3, <1>4

LEMMA ForkDeployKeeps ==
  ASSUME ForkInv, Fork!DeployImplementation(Operator), UNCHANGED network
  PROVE  ForkInv'
<1> DEFINE kind == Fork!Step(Operator).kind
           new == [kind |-> kind, revision |-> Fork!Revision[kind]]
           next == [Run EXCEPT !.implementations[Fork!Step(Operator).token] = Len(deployed) + 1]
<1>1. /\ Fork!AtStep(Operator, "deploy") /\ deployed' = Append(deployed, new)
      /\ block' = block + 1 /\ Fork!Proceed(Operator, next)
      /\ UNCHANGED <<time, transfers, proxies, approved, proposals, started>>
  BY DEF Fork!DeployImplementation, Fork!InBlock, Run
<1>2. kind \in DOMAIN Fork!Revision /\ Fork!Step(Operator).token \in Fork!StakedTokens
  BY <1>1, AtHead, StepFields DEF ForkInv
<1>3. new \in Deployments
  BY <1>2 DEF Deployments, Fork!Revision
<1>4. deployed \in Seq(Deployments) /\ Len(deployed) \in Nat
  BY DEF ForkInv, ForkTypes
<1>5. Run \in Rehearsals /\ \A t \in Fork!StakedTokens : Run.implementations[t] \in 0 .. Len(deployed)
  BY ForkNow DEF OnFork
<1> HIDE DEF new
<1>6. deployed' \in Seq(Deployments) /\ Len(deployed') = Len(deployed) + 1
  BY <1>1, <1>3, <1>4, AppendProperties
<1> DEFINE count == Len(deployed) + 1
<1>7. count \in Nat
  BY <1>4
<1>8. /\ next \in Rehearsals /\ next.script = Run.script
      /\ \A t \in Fork!StakedTokens : next.implementations[t] \in 0 .. count
  <2> DEFINE token == Fork!Step(Operator).token
             named == [Run.implementations EXCEPT ![token] = count]
  <2>1. Run.implementations \in [Fork!StakedTokens -> Nat]
    BY <1>5 DEF Rehearsals
  <2>2. next = [Run EXCEPT !.implementations = named]
    OBVIOUS
  <2> HIDE DEF token, next, count
  <2>3. named \in [Fork!StakedTokens -> Nat]
        /\ \A t \in Fork!StakedTokens : named[t] = Run.implementations[t] \/ named[t] = count
    BY <1>2, <1>7, <2>1 DEF token
  <2> HIDE DEF named
  <2>4. next \in Rehearsals /\ next.script = Run.script /\ next.implementations = named
    BY <1>5, <2>2, <2>3 DEF Rehearsals
  <2>5. ASSUME NEW t \in Fork!StakedTokens PROVE named[t] \in 0 .. count
    BY <1>4, <1>5, <1>7, <2>3 DEF count
  <2> QED BY <2>4, <2>5
<1> HIDE DEF next
<1>9. runs' \in [{Operator} -> Rehearsals] /\ Run'.implementations = next.implementations
  BY <1>1, <1>8, AtHead, RunProceeds DEF ForkInv
<1>10. block' \in Nat /\ block' >= block /\ block \in Nat
  BY <1>1, ForkNow
<1>11. ForkTypes'
  BY <1>1, <1>6, <1>9, <1>10 DEF ForkInv, ForkTypes
<1>12. Mined'
  <2>1. ASSUME NEW n \in 1 .. Len(transfers) PROVE transfers[n].block <= block'
    <3>1. transfers[n] \in Transfers
      BY ElementOfSeq DEF ForkInv, ForkTypes
    <3>2. transfers[n].block \in Nat /\ transfers[n].block <= block
      BY <3>1 DEF ForkInv, Mined, Transfers
    <3> QED BY <1>10, <3>2
  <2>2. Dated(proposals, block')
    BY <1>10, ForkNow
  <2> QED BY <1>1, <2>1, <2>2 DEF Mined, Dated
<1>13. Covered'
  <2> SUFFICES ASSUME NEW account \in Accounts PROVE Fork!PowerAtBlock(account, block)' >= 0
    BY DEF Covered, Accounts, Voters
  <2>1. Fork!PowerAtBlock(account, block)' = Fork!PowerAtBlock(account, block')
    BY <1>1 DEF Fork!PowerAtBlock, Fork!PowerAfter, Fork!Held, Fork!Moved
  <2>2. Fork!PowerAtBlock(account, block') = Fork!PowerAtBlock(account, block)
    BY <1>10, PowerStays
  <2> QED BY <2>1, <2>2 DEF ForkInv, Covered
<1>14. ImplementationsDeployed'
  <2>1. \A i \in 0 .. Len(deployed) : i \in 0 .. Len(deployed')
    BY <1>4, <1>6
  <2> QED BY <1>1, <1>6, <1>8, <1>9, <2>1 DEF ForkInv, ImplementationsDeployed, OnFork
<1> QED BY <1>11, <1>12, <1>13, <1>14 DEF ForkInv

LEMMA ForkStep == ForkInv /\ Fork!Next => ForkInv'
<1> SUFFICES ASSUME ForkInv, Fork!Next PROVE ForkInv'
  OBVIOUS
<1>1. UNCHANGED network
  BY DEF Fork!Next
<1>2. CASE \E task \in RehearsalTasks : Fork!Start(Operator, task)
  BY <1>1, <1>2, ForkStartKeeps
<1>3. CASE Fork!Interrupt(Operator)
  BY <1>1, <1>3, StopsKeep
<1>4. CASE Fork!Continue(Operator)
  BY <1>1, <1>4, TransactKeeps, TransferKeeps, ForkDeployKeeps, ForkVerifyKeeps, CountKeeps,
     HardcodedKeeps, CreateKeeps, VoteKeeps, QueueKeeps, ExecuteKeeps, TargetKeeps, CurrentKeeps,
     AdvanceKeeps, ForkTimeKeeps, StopsKeep DEF Fork!Continue
<1> QED BY <1>2, <1>3, <1>4 DEF Fork!Next

LEMMA ForkBegins == Fork!Init => ForkInv
<1> SUFFICES ASSUME Fork!Init PROVE ForkInv
  OBVIOUS
<1>1. /\ network \in Forks /\ block = 2 /\ time = 1 /\ transfers = <<>> /\ started = 0 /\ approved = {}
      /\ \A t \in Fork!StakedTokens : proxies[t].implementation = 0
      /\ runs = [o \in {Operator} |-> Fork!NoRun]
  BY DEF Fork!Init, Fork!StakedTokens, Fork!None
<1>2. /\ Fork!NoRun \in Rehearsals
      /\ \A t \in Fork!StakedTokens : Fork!NoRun.implementations[t] = 0
  <2>1. <<>> \in Scripts
    BY DEF Scripts
  <2> QED BY <2>1 DEF Rehearsals, Fork!NoRun, Fork!None
<1>3. deployed \in Seq(Deployments) /\ Dated(proposals, 1)
  <2>1. CASE deployed = <<>> /\ proposals = <<>>
    <3>1. <<>> \in Seq(Deployments) /\ <<>> \in Seq(Proposals) /\ Len(<<>>) = 0
      OBVIOUS
    <3> QED BY <2>1, <3>1 DEF Dated
  <2> DEFINE last == 1 + VOTING_DURATION["LONG_EXECUTOR"]
             named == [stkLay |-> 1, stkBpt |-> 2]
             open == [kind |-> "extension", executor |-> "LONG_EXECUTOR", implementations |-> named,
                      creator |-> "somebody", startBlock |-> 1, endBlock |-> last, forVotes |-> 0,
                      voters |-> {}, executionTime |-> 0, executed |-> FALSE]
  <2>2. CASE /\ deployed = <<[kind |-> "StakedTokenV2Rev3", revision |-> 3],
                             [kind |-> "StakedTokenBptRev2", revision |-> 2]>>
             /\ proposals = <<open>>
    <3>1. deployed \in Seq(Deployments) /\ Len(deployed) = 2
      <4>1. /\ [kind |-> "StakedTokenV2Rev3", revision |-> 3] \in Deployments
            /\ [kind |-> "StakedTokenBptRev2", revision |-> 2] \in Deployments
        BY DEF Deployments, Fork!Revision
      <4> QED BY <2>2, <4>1
    <3>2. last \in Nat
      <4>1. VOTING_DURATION["LONG_EXECUTOR"] \in Nat
        BY ForkAssumption
      <4> QED BY <4>1
    <3>3. named \in [Fork!StakedTokens -> Nat]
          /\ \A t \in Fork!StakedTokens : named[t] \in 0 .. 2
      BY DEF Fork!StakedTokens
    <3> HIDE DEF last, named
    <3>4. open \in Proposals
      BY <3>2, <3>3 DEF Proposals, Kinds, Fork!Executors
    <3>5. open.startBlock = 1 /\ open.implementations = named
      OBVIOUS
    <3> HIDE DEF open
    <3>6. proposals \in Seq(Proposals) /\ Len(proposals) = 1 /\ proposals[1] = open
      BY <2>2, <3>4
    <3>7. ASSUME NEW id \in 1 .. Len(proposals)
          PROVE  /\ proposals[id].startBlock <= 1
                 /\ \A t \in Fork!StakedTokens : proposals[id].implementations[t] \in OnFork
      <4>1. id = 1
        BY <3>6
      <4> QED BY <3>1, <3>3, <3>5, <3>6, <4>1 DEF OnFork
    <3> QED BY <3>1, <3>6, <3>7 DEF Dated
  <2> QED BY <2>1, <2>2 DEF Fork!Init, Fork!None
<1>4. ForkTypes
  <2>1. 0 \in 0 .. MaxRuns[network]
    BY <1>1, ForkAssumption
  <2>2. transfers \in Seq(Transfers)
    BY <1>1
  <2> QED BY <1>1, <1>2, <1>3, <2>1, <2>2 DEF ForkTypes, Dated
<1>5. Mined
  <2>1. ASSUME NEW id \in 1 .. Len(proposals) PROVE proposals[id].startBlock <= block
    <3>1. proposals[id] \in Proposals
      BY <1>3, ElementOfSeq DEF Dated
    <3>2. proposals[id].startBlock \in Nat /\ proposals[id].startBlock <= 1
      BY <1>3, <3>1 DEF Dated, Proposals
    <3> QED BY <1>1, <3>2
  <2>2. Len(transfers) = 0
    BY <1>1
  <2> QED BY <2>1, <2>2 DEF Mined
<1>6. Covered
  <2> SUFFICES ASSUME NEW account \in Accounts PROVE Fork!PowerAtBlock(account, block) >= 0
    BY DEF Covered
  <2> DEFINE f == Powers(<<>>, account, 2)
  <2>1. <<>> \in Seq(Transfers) /\ Len(<<>>) = 0
    OBVIOUS
  <2>2. f = Power(<<>>, account, 2, f)
    BY <2>1, PowersAdd
  <2>3. Fork!PowerAfter(<<>>, account, 2) = f[0]
    BY <2>1, PowerIsLast
  <2> HIDE DEF f
  <2>4. f[0] = Fork!Held(account)
    BY <2>1, <2>2 DEF Power
  <2> QED BY <1>1, <2>3, <2>4, HeldIsNatural DEF Fork!PowerAtBlock
<1>7. ImplementationsDeployed
  <2>1. 0 \in OnFork
    BY <1>3 DEF OnFork
  <2>2. Run = Fork!NoRun
    BY <1>1 DEF Run
  <2> QED BY <1>1, <1>2, <1>3, <2>1, <2>2 DEF ImplementationsDeployed, Dated
<1> QED BY <1>4, <1>5, <1>6, <1>7 DEF ForkInv

THEOREM ForkInductive == TasksSpec => []ForkInv
<1>1. TasksInit => ForkInv
  BY ForkBegins DEF TasksInit
<1>2. ForkInv /\ [TasksNext]_tasksVars => ForkInv'
  <2> SUFFICES ASSUME ForkInv, [TasksNext]_tasksVars PROVE ForkInv'
    OBVIOUS
  <2>1. CASE Rehearses
    BY <2>1, ForkStep DEF Rehearses
  <2>2. CASE UNCHANGED forkVars
    <3>1. ForkTypes'
      BY <2>2 DEF forkVars, ForkInv, ForkTypes
    <3>2. Mined'
      BY <2>2 DEF forkVars, ForkInv, Mined
    <3>3. Covered'
      <4>1. transfers' = transfers /\ block' = block
        BY <2>2 DEF forkVars
      <4>2. ASSUME NEW account \in Accounts
            PROVE  Fork!PowerAtBlock(account, block)' = Fork!PowerAtBlock(account, block)
        BY <4>1 DEF Fork!PowerAtBlock, Fork!PowerAfter, Fork!Held, Fork!Moved
      <4> QED BY <4>2 DEF ForkInv, Covered, Accounts, Voters
    <3>4. ImplementationsDeployed'
      BY <2>2 DEF forkVars, ForkInv, ImplementationsDeployed, Run, OnFork
    <3> QED BY <3>1, <3>2, <3>3, <3>4 DEF ForkInv
  <2> QED BY <2>1, <2>2 DEF TasksNext, tasksVars, Verifies, Redeems, DeploysPool
<1> QED BY <1>1, <1>2, PTL DEF TasksSpec

(* The variables of every task have their types: in particular nobody's    *)
(* balance falls below zero, nothing is dated later than the latest block, *)
(* and an implementation that a proxy or a proposal names, if it names     *)
(* any, has been deployed.                                                 *)
THEOREM TypeCorrect == TasksSpec => []TasksTypeOK
<1>1. IInv => TypeOK
  BY DEF IInv, Calls, TypeOK
<1>2. ForkInv => Fork!TypeOK
  <2> SUFFICES ASSUME ForkInv PROVE Fork!TypeOK
    OBVIOUS
  <2>1. /\ block \in Nat /\ time \in Nat /\ started \in 0 .. MaxRuns[network]
        /\ approved \in {{}, Fork!StakedTokens}
    BY ForkNow
  <2>2. /\ DOMAIN transfers = 1 .. Len(transfers) /\ DOMAIN proposals = 1 .. Len(proposals)
        /\ DOMAIN deployed = 1 .. Len(deployed) /\ Len(deployed) \in Nat
    BY DEF ForkInv, ForkTypes
  <2>3. OnFork = {0} \union DOMAIN deployed
    BY <2>2 DEF OnFork
  <2>4. \A account \in {Operator} \union DOMAIN Holdings : Fork!Balance(account) >= 0
    BY DEF ForkInv, Covered, Accounts, Voters, Fork!Balance
  <2>5. /\ Run.status \in {"none", "running", "done", "thrown", "interrupted"}
        /\ Run.implementations \in [Fork!StakedTokens -> {0} \union DOMAIN deployed]
    <3>1. Run.implementations \in [Fork!StakedTokens -> Nat]
          /\ \A t \in Fork!StakedTokens : Run.implementations[t] \in OnFork
      BY ForkNow DEF Rehearsals
    <3> QED BY <2>3, <3>1, ForkNow DEF Rehearsals
  <2>6. Mined /\ ImplementationsDeployed
    BY DEF ForkInv
  <2> QED BY <2>1, <2>2, <2>3, <2>4, <2>5, <2>6
          DEF Fork!TypeOK, Fork!None, Mined, ImplementationsDeployed, Run
<1>3. RoundsInv => Rounds!TypeOK
  BY DEF RoundsInv, RoundTypes, RoundCalls, Ages, Coins, Rounds!TypeOK
<1>4. PoolInv => Pool!TypeOK
  <2> SUFFICES ASSUME PoolInv PROVE Pool!TypeOK
    OBVIOUS
  <2>1. PoolRun \in PoolRuns /\ DOMAIN pools = 1 .. Len(pools) /\ Len(pools) \in Nat
    BY DEF PoolInv, PoolTypes, PoolRun
  <2>2. \A p \in DOMAIN pools : pools[p].block \in 1 .. poolBlock
    <3> TAKE p \in DOMAIN pools
    <3>1. pools[p] \in MadePools
      BY DEF PoolInv, PoolTypes
    <3> QED BY <3>1 DEF MadePools, PoolInv, PoolsInOrder, PoolTypes
  <2>3. PoolRun.CRPAddress \in {Pool!NoPool} \union DOMAIN pools
    BY <2>1 DEF PoolInv, OwnPool, PoolRuns, Pool!NoPool
  <2>4. \A i \in DOMAIN tokens : tokens[i].STAKED_TOKEN \in DOMAIN pools
    BY DEF PoolInv, PoolsClosed, Closed
  <2>5. PoolRun.lastBlock \in {Pool!NotPolled} \union 1 .. poolBlock
    BY DEF PoolInv, OwnPool
  <2> QED BY <2>2, <2>3, <2>4, <2>5 DEF Pool!TypeOK, PoolRun
<1> QED BY <1>1, <1>2, <1>3, <1>4, Inductive, ForkInductive, RoundsInductive, PoolInductive,
           PTL DEF TasksTypeOK

----------------------------------------------------------------------------
(* The rehearsals of a whole proposal, by how many steps are done or left.  *)
(* Both kinds are funded in the same first steps and end with the same ten  *)
(* after the proposal is made; the extension deploys in between.            *)

Extension == "proposal-stk-lay-extension:tenderly"
Approval == "proposal-vault-approval:tenderly"

Rehearsing == Run.status = "running" /\ Run.task \in {Extension, Approval}

Extends == Run.task = Extension
Kind == IF Extends THEN "extension" ELSE "approval"
Executor == IF Extends THEN "LONG_EXECUTOR" ELSE "SHORT_EXECUTOR"
Whole == IF Extends THEN 23 ELSE 19
Left == Len(Run.script)
Done == Whole - Left

FromEnd(s, n) == s[Len(s) - n + 1]

OnScript ==
  /\ Left \in 0 .. Whole
  /\ \A n \in 1 .. Left : FromEnd(Run.script, n) = FromEnd(Fork!Script(Run.task), n)

Funded ==
  /\ Done >= 3 => Fork!Balance(Operator) >= 20
  /\ Done >= 4 => Fork!Balance(Operator) >= 32

BeforeProposal ==
  /\ Done = 5 => Run.target = block + 2
  /\ Done = 6 /\ network = "tenderly" => Run.pending >= 0
  /\ Done >= 8 /\ Left >= 11 => Run.proposalId = Len(proposals) + 1

Mine == proposals[Run.proposalId]

OwnProposal ==
  Left <= 10 =>
    /\ Run.proposalId \in 1 .. Len(proposals)
    /\ Mine.kind = Kind /\ Mine.executor = Executor /\ Mine.creator = Operator
    /\ Mine.implementations = Run.implementations
    /\ Mine.endBlock = Mine.startBlock + VOTING_DURATION[Executor]

Votes ==
  /\ Left \in 7 .. 10 => /\ Mine.voters = {} /\ Mine.forVotes = 0
                         /\ Fork!PowerAtBlock(Operator, Mine.startBlock) >= 32
  /\ Left <= 6 => Mine.forVotes >= 32

OnTime ==
  /\ Left \in {9, 10} => block = Mine.startBlock
  /\ Left = 9 => Run.target = block + 1
  /\ Left \in {7, 8} => Mine.startBlock <= block /\ block <= Mine.startBlock + 1
  /\ Left = 8 => /\ Run.target = Mine.startBlock + 1
                 /\ network = "tenderly" => Run.pending = 0
  /\ Left \in {5, 6} => block > Mine.startBlock
  /\ Left = 5 => Run.target = block + VOTING_DURATION[Executor] + 1
  /\ Left = 4 => /\ Run.target >= Mine.endBlock
                 /\ network = "tenderly" => Run.pending >= 0 /\ block + Run.pending >= Mine.endBlock
  /\ Left = 3 => block >= Mine.endBlock

Executes ==
  /\ Left \in 3 .. 10 => Mine.executionTime = 0
  /\ Left \in 1 .. 10 => ~Mine.executed
  /\ Left = 2 => Mine.executionTime = time + DELAY[Executor]
  /\ Left = 1 => Mine.executionTime > 0 /\ time = Mine.executionTime + 1
  /\ Left = 0 =>
       /\ Mine.executed
       /\ Extends => \A t \in Fork!StakedTokens : proxies[t].implementation = Run.implementations[t]
       /\ ~Extends => approved = Fork!StakedTokens

OnCourse == OnScript /\ Funded /\ BeforeProposal /\ OwnProposal /\ Votes /\ OnTime /\ Executes

Course == Rehearsing => OnCourse

Joined(st, s, t) ==
  /\ st \in Scripts /\ Len(st) = Len(s) + Len(t)
  /\ \A n \in 1 .. Len(t) : FromEnd(st, n) = FromEnd(t, n)
  /\ \A n \in 1 .. Len(s) : FromEnd(st, Len(t) + n) = FromEnd(s, n)

LEMMA Join ==
  ASSUME NEW s \in Scripts, NEW t \in Scripts
  PROVE  Joined(s \o t, s, t)
<1> DEFINE st == s \o t
<1>1. /\ st \in Seq(ScriptSteps) /\ Len(st) = Len(s) + Len(t)
      /\ \A i \in 1 .. Len(s) + Len(t) : st[i] = IF i <= Len(s) THEN s[i] ELSE t[i - Len(s)]
  BY ConcatProperties DEF Scripts
<1>2. Len(s) \in Nat /\ Len(t) \in Nat
  BY DEF Scripts
<1> HIDE DEF st
<1>3. ASSUME NEW n \in 1 .. Len(t) PROVE FromEnd(st, n) = FromEnd(t, n)
  <2> DEFINE i == Len(s) + Len(t) - n + 1
  <2>1. i \in 1 .. Len(s) + Len(t) /\ ~(i <= Len(s)) /\ i - Len(s) = Len(t) - n + 1
    BY <1>2
  <2> HIDE DEF i
  <2>2. st[i] = t[Len(t) - n + 1]
    BY <1>1, <2>1
  <2> QED BY <1>1, <2>2 DEF FromEnd, i
<1>4. ASSUME NEW n \in 1 .. Len(s) PROVE FromEnd(st, Len(t) + n) = FromEnd(s, n)
  <2> DEFINE i == Len(s) - n + 1
  <2>1. i \in 1 .. Len(s) + Len(t) /\ i <= Len(s) /\ Len(s) + Len(t) - (Len(t) + n) + 1 = i
    BY <1>2
  <2> HIDE DEF i
  <2>2. st[i] = s[i]
    BY <1>1, <2>1
  <2> QED BY <1>1, <2>1, <2>2 DEF FromEnd, i
<1>5. Joined(st, s, t)
  BY <1>1, <1>3, <1>4 DEF Joined, Scripts
<1> QED BY <1>5 DEF st

LEMMA ThreeFromEnd ==
  ASSUME NEW a, NEW b, NEW c
  PROVE  /\ Len(<<a, b, c>>) = 3
         /\ FromEnd(<<a, b, c>>, 1) = c /\ FromEnd(<<a, b, c>>, 2) = b /\ FromEnd(<<a, b, c>>, 3) = a
BY DEF FromEnd

LEMMA AdvanceSteps ==
  ASSUME NEW n \in Nat
  PROVE  LET s == Fork!AdvanceBlockTo(n)
         IN  /\ s \in Scripts /\ Len(s) = 3
             /\ FromEnd(s, 1).op = "advance" /\ FromEnd(s, 2).op = "current block"
             /\ FromEnd(s, 3).op = "target" /\ FromEnd(s, 3).blocks = n
<1>1. /\ [op |-> "target", blocks |-> n] \in ScriptSteps
      /\ [op |-> "current block"] \in ScriptSteps /\ [op |-> "advance"] \in ScriptSteps
  BY PlainSteps, NumberedSteps
<1>2. Fork!AdvanceBlockTo(n) \in Scripts
  BY <1>1, ThreeSteps DEF Fork!AdvanceBlockTo, Scripts
<1> DEFINE a == [op |-> "target", blocks |-> n]
           b == [op |-> "current block"]
           c == [op |-> "advance"]
           s == Fork!AdvanceBlockTo(n)
<1>3. s = <<a, b, c>>
  BY DEF Fork!AdvanceBlockTo
<1>4. a.op = "target" /\ a.blocks = n /\ b.op = "current block" /\ c.op = "advance"
  OBVIOUS
<1> HIDE DEF a, b, c, s
<1>5. Len(s) = 3 /\ FromEnd(s, 1) = c /\ FromEnd(s, 2) = b /\ FromEnd(s, 3) = a
  BY <1>3, ThreeFromEnd
<1> QED BY <1>2, <1>4, <1>5 DEF s

VoteSteps(s, duration, delay) ==
  /\ s \in Scripts /\ Len(s) = 7
  /\ FromEnd(s, 1).op = "execute"
  /\ FromEnd(s, 2).op = "increaseTime" /\ FromEnd(s, 2).seconds = delay + 1
  /\ FromEnd(s, 3).op = "queue"
  /\ FromEnd(s, 4).op = "advance" /\ FromEnd(s, 5).op = "current block"
  /\ FromEnd(s, 6).op = "target" /\ FromEnd(s, 6).blocks = duration + 1
  /\ FromEnd(s, 7).op = "vote" /\ FromEnd(s, 7).by = "proposer"

LEMMA VoteQueueExecuteSteps ==
  ASSUME NEW duration \in Nat, NEW delay \in Nat
  PROVE  VoteSteps(Fork!VoteQueueExecute(duration, delay), duration, delay)
<1> DEFINE vote == <<[op |-> "vote", by |-> "proposer"]>>
           advance == Fork!AdvanceBlockTo(duration + 1)
           last == <<[op |-> "queue"], [op |-> "increaseTime", seconds |-> delay + 1], [op |-> "execute"]>>
           s == vote \o advance
           t == s \o last
<1>1. /\ vote \in Scripts /\ Len(vote) = 1
      /\ FromEnd(vote, 1).op = "vote" /\ FromEnd(vote, 1).by = "proposer"
  BY DEF Scripts, ScriptSteps, FromEnd
<1>2. /\ advance \in Scripts /\ Len(advance) = 3
      /\ FromEnd(advance, 1).op = "advance" /\ FromEnd(advance, 2).op = "current block"
      /\ FromEnd(advance, 3).op = "target" /\ FromEnd(advance, 3).blocks = duration + 1
  <2>1. duration + 1 \in Nat
    OBVIOUS
  <2> QED BY <2>1, AdvanceSteps
<1>3. last \in Scripts
  <2>1. /\ [op |-> "queue"] \in ScriptSteps /\ [op |-> "execute"] \in ScriptSteps
        /\ [op |-> "increaseTime", seconds |-> delay + 1] \in ScriptSteps
    <3>1. delay + 1 \in Nat
      OBVIOUS
    <3> QED BY <3>1, PlainSteps, NumberedSteps
  <2> QED BY <2>1, ThreeSteps DEF Scripts
<1>4. /\ Len(last) = 3 /\ FromEnd(last, 1).op = "execute"
      /\ FromEnd(last, 2).op = "increaseTime" /\ FromEnd(last, 2).seconds = delay + 1
      /\ FromEnd(last, 3).op = "queue"
  BY ThreeFromEnd
<1> HIDE DEF vote, advance, last
<1>5. /\ s \in Scripts /\ Len(s) = 4
      /\ \A n \in 1 .. 3 : FromEnd(s, n) = FromEnd(advance, n)
      /\ FromEnd(s, 4) = FromEnd(vote, 1)
  <2>1. Joined(s, vote, advance)
    BY <1>1, <1>2, Join
  <2> HIDE DEF s
  <2>2. Len(advance) = 3 /\ Len(vote) = 1
    BY <1>1, <1>2
  <2>3. 3 + 1 = 4 /\ 1 \in 1 .. 1
    OBVIOUS
  <2> QED BY <2>1, <2>2, <2>3 DEF Joined
<1> HIDE DEF s
<1>6. /\ t \in Scripts /\ Len(t) = 7
      /\ \A n \in 1 .. 3 : FromEnd(t, n) = FromEnd(last, n)
      /\ \A n \in 1 .. 4 : FromEnd(t, 3 + n) = FromEnd(s, n)
  <2>1. Joined(t, s, last)
    BY <1>3, <1>5, Join
  <2> HIDE DEF t
  <2> QED BY <1>4, <1>5, <2>1 DEF Joined
<1> HIDE DEF t
<1>7. /\ FromEnd(t, 4) = FromEnd(advance, 1) /\ FromEnd(t, 5) = FromEnd(advance, 2)
      /\ FromEnd(t, 6) = FromEnd(advance, 3) /\ FromEnd(t, 7) = FromEnd(vote, 1)
  <2>1. /\ FromEnd(t, 3 + 1) = FromEnd(s, 1) /\ FromEnd(t, 3 + 2) = FromEnd(s, 2)
        /\ FromEnd(t, 3 + 3) = FromEnd(s, 3) /\ FromEnd(t, 3 + 4) = FromEnd(s, 4)
    BY <1>6
  <2> QED BY <1>5, <2>1
<1>8. FromEnd(t, 1) = FromEnd(last, 1) /\ FromEnd(t, 2) = FromEnd(last, 2) /\ FromEnd(t, 3) = FromEnd(last, 3)
  BY <1>6
<1>9. VoteSteps(t, duration, delay)
  BY <1>1, <1>2, <1>4, <1>6, <1>7, <1>8 DEF VoteSteps
<1>10. t = Fork!VoteQueueExecute(duration, delay)
  BY DEF t, s, vote, advance, last, Fork!VoteQueueExecute
<1> QED BY <1>9, <1>10

(* What both rehearsals do first. *)
Opening == Fork!Transact \o Fork!Transact \o Fork!FundProposer \o Fork!AdvanceBlockTo(2)
           \o <<[op |-> "count"]>>

LEMMA OpeningSteps ==
  /\ Opening \in Scripts /\ Len(Opening) = 8
  /\ FromEnd(Opening, 1).op = "count"
  /\ FromEnd(Opening, 2).op = "advance" /\ FromEnd(Opening, 3).op = "current block"
  /\ FromEnd(Opening, 4).op = "target" /\ FromEnd(Opening, 4).blocks = 2
  /\ FromEnd(Opening, 5).op = "transfer" /\ FromEnd(Opening, 5).amount = 12
  /\ FromEnd(Opening, 6).op = "transfer" /\ FromEnd(Opening, 6).amount = 20
  /\ FromEnd(Opening, 7).op = "transact" /\ FromEnd(Opening, 8).op = "transact"
<1> DEFINE one == Fork!Transact
           two == one \o one
           fund == Fork!FundProposer
           four == two \o fund
           advance == Fork!AdvanceBlockTo(2)
           seven == four \o advance
           count == <<[op |-> "count"]>>
           all == seven \o count
<1>1. one \in Scripts /\ Len(one) = 1 /\ FromEnd(one, 1).op = "transact"
  BY DEF Fork!Transact, Scripts, ScriptSteps, FromEnd
<1>2. /\ fund \in Scripts /\ Len(fund) = 2
      /\ FromEnd(fund, 1).op = "transfer" /\ FromEnd(fund, 1).amount = 12
      /\ FromEnd(fund, 2).op = "transfer" /\ FromEnd(fund, 2).amount = 20
  <2>1. fund \in Scripts
    BY DEF Fork!FundProposer, Scripts, ScriptSteps, Whales
  <2>2. /\ Len(fund) = 2
        /\ fund[2].op = "transfer" /\ fund[2].amount = 12 /\ fund[1].op = "transfer" /\ fund[1].amount = 20
    BY DEF Fork!FundProposer
  <2> HIDE DEF fund
  <2>3. FromEnd(fund, 1) = fund[2] /\ FromEnd(fund, 2) = fund[1]
    BY <2>2 DEF FromEnd
  <2> QED BY <2>1, <2>2, <2>3
<1>3. /\ advance \in Scripts /\ Len(advance) = 3
      /\ FromEnd(advance, 1).op = "advance" /\ FromEnd(advance, 2).op = "current block"
      /\ FromEnd(advance, 3).op = "target" /\ FromEnd(advance, 3).blocks = 2
  BY AdvanceSteps
<1>4. count \in Scripts /\ Len(count) = 1 /\ FromEnd(count, 1).op = "count"
  BY DEF Scripts, ScriptSteps, FromEnd
<1> HIDE DEF one, fund, advance, count
<1>5. /\ two \in Scripts /\ Len(two) = 2
      /\ FromEnd(two, 1) = FromEnd(one, 1) /\ FromEnd(two, 2) = FromEnd(one, 1)
  <2>1. Joined(two, one, one)
    BY <1>1, Join
  <2> HIDE DEF two
  <2>2. Len(one) + 1 = 2 /\ 1 \in 1 .. Len(one)
    BY <1>1
  <2> QED BY <1>1, <2>1, <2>2 DEF Joined
<1> HIDE DEF two
<1>6. /\ four \in Scripts /\ Len(four) = 4
      /\ FromEnd(four, 1) = FromEnd(fund, 1) /\ FromEnd(four, 2) = FromEnd(fund, 2)
      /\ FromEnd(four, 3) = FromEnd(two, 1) /\ FromEnd(four, 4) = FromEnd(two, 2)
  <2>1. Len(fund) + 1 = 3 /\ Len(fund) + 2 = 4 /\ 1 \in 1 .. Len(fund) /\ 2 \in 1 .. Len(fund)
        /\ 1 \in 1 .. Len(two) /\ 2 \in 1 .. Len(two)
    BY <1>2, <1>5
  <2>2. Joined(four, two, fund)
    BY <1>2, <1>5, Join
  <2> HIDE DEF four
  <2> QED BY <1>2, <1>5, <2>1, <2>2 DEF Joined
<1> HIDE DEF four
<1>7. /\ seven \in Scripts /\ Len(seven) = 7
      /\ \A n \in 1 .. 3 : FromEnd(seven, n) = FromEnd(advance, n)
      /\ \A n \in 1 .. 4 : FromEnd(seven, 3 + n) = FromEnd(four, n)
  <2>1. Joined(seven, four, advance)
    BY <1>3, <1>6, Join
  <2> HIDE DEF seven
  <2>2. Len(advance) = 3 /\ Len(four) = 4
    BY <1>3, <1>6
  <2> QED BY <2>1, <2>2 DEF Joined
<1> HIDE DEF seven
<1>8. /\ all \in Scripts /\ Len(all) = 8
      /\ FromEnd(all, 1) = FromEnd(count, 1)
      /\ \A n \in 1 .. 7 : FromEnd(all, 1 + n) = FromEnd(seven, n)
  <2>1. Joined(all, seven, count)
    BY <1>4, <1>7, Join
  <2> HIDE DEF all
  <2> QED BY <1>4, <1>7, <2>1 DEF Joined
<1>9. all = Opening
  BY DEF Opening, one, two, fund, four, advance, seven, count
<1> HIDE DEF all
<1>10. /\ FromEnd(all, 2) = FromEnd(seven, 1) /\ FromEnd(all, 3) = FromEnd(seven, 2)
       /\ FromEnd(all, 4) = FromEnd(seven, 3) /\ FromEnd(all, 5) = FromEnd(seven, 4)
       /\ FromEnd(all, 6) = FromEnd(seven, 5) /\ FromEnd(all, 7) = FromEnd(seven, 6)
       /\ FromEnd(all, 8) = FromEnd(seven, 7)
  <2>1. /\ FromEnd(all, 1 + 1) = FromEnd(seven, 1) /\ FromEnd(all, 1 + 2) = FromEnd(seven, 2)
        /\ FromEnd(all, 1 + 3) = FromEnd(seven, 3) /\ FromEnd(all, 1 + 4) = FromEnd(seven, 4)
        /\ FromEnd(all, 1 + 5) = FromEnd(seven, 5) /\ FromEnd(all, 1 + 6) = FromEnd(seven, 6)
        /\ FromEnd(all, 1 + 7) = FromEnd(seven, 7)
    BY <1>8
  <2> QED BY <2>1
<1>11. /\ FromEnd(seven, 1) = FromEnd(advance, 1) /\ FromEnd(seven, 2) = FromEnd(advance, 2)
       /\ FromEnd(seven, 3) = FromEnd(advance, 3) /\ FromEnd(seven, 4) = FromEnd(four, 1)
       /\ FromEnd(seven, 5) = FromEnd(four, 2) /\ FromEnd(seven, 6) = FromEnd(four, 3)
       /\ FromEnd(seven, 7) = FromEnd(four, 4)
  <2>1. /\ FromEnd(seven, 3 + 1) = FromEnd(four, 1) /\ FromEnd(seven, 3 + 2) = FromEnd(four, 2)
        /\ FromEnd(seven, 3 + 3) = FromEnd(four, 3) /\ FromEnd(seven, 3 + 4) = FromEnd(four, 4)
    BY <1>7
  <2> QED BY <1>7, <2>1
<1> QED BY <1>1, <1>2, <1>3, <1>4, <1>5, <1>6, <1>8, <1>9, <1>10, <1>11

(* The whole of either script. *)
WholeSteps(s, middle, duration, delay) ==
  /\ s \in Scripts /\ Len(s) = Len(middle) + 18
  /\ FromEnd(s, 1).op = "execute"
  /\ FromEnd(s, 2).op = "increaseTime" /\ FromEnd(s, 2).seconds = delay + 1
  /\ FromEnd(s, 3).op = "queue"
  /\ FromEnd(s, 4).op = "advance" /\ FromEnd(s, 5).op = "current block"
  /\ FromEnd(s, 6).op = "target" /\ FromEnd(s, 6).blocks = duration + 1
  /\ FromEnd(s, 7).op = "vote" /\ FromEnd(s, 7).by = "proposer"
  /\ FromEnd(s, 8).op = "advance" /\ FromEnd(s, 9).op = "current block"
  /\ FromEnd(s, 10).op = "target" /\ FromEnd(s, 10).blocks = 1
  /\ \A n \in 1 .. Len(middle) : FromEnd(s, 10 + n) = FromEnd(middle, n)
  /\ \A n \in 1 .. 8 : FromEnd(s, 10 + Len(middle) + n) = FromEnd(Opening, n)

LEMMA WholeScript ==
  ASSUME NEW middle \in Scripts, NEW duration \in Nat, NEW delay \in Nat
  PROVE  WholeSteps(Opening \o middle \o Fork!AdvanceBlockTo(1)
                      \o Fork!VoteQueueExecute(duration, delay), middle, duration, delay)
<1> DEFINE opening == Opening
           advance == Fork!AdvanceBlockTo(1)
           last == Fork!VoteQueueExecute(duration, delay)
           a == opening \o middle
           b == a \o advance
           s == b \o last
<1>1. VoteSteps(last, duration, delay)
  BY VoteQueueExecuteSteps
<1>2. /\ advance \in Scripts /\ Len(advance) = 3
      /\ FromEnd(advance, 1).op = "advance" /\ FromEnd(advance, 2).op = "current block"
      /\ FromEnd(advance, 3).op = "target" /\ FromEnd(advance, 3).blocks = 1
  BY AdvanceSteps
<1>3. last \in Scripts /\ Len(last) = 7
  BY <1>1 DEF VoteSteps
<1>4. opening \in Scripts /\ Len(opening) = 8 /\ Len(middle) \in Nat
  <2>1. Len(middle) \in Nat
    BY DEF Scripts
  <2> QED BY <2>1, OpeningSteps
<1> HIDE DEF opening, advance, last
<1>5. Joined(a, opening, middle)
  BY <1>4, Join
<1>6. a \in Scripts
  BY <1>5 DEF Joined
<1> HIDE DEF a
<1>7. Joined(b, a, advance)
  BY <1>2, <1>6, Join
<1>8. b \in Scripts
  BY <1>7 DEF Joined
<1> HIDE DEF b
<1>9. Joined(s, b, last)
  BY <1>3, <1>8, Join
<1> HIDE DEF s
<1>10. Len(advance) = 3
  BY <1>2
<1>11. Len(a) = 8 + Len(middle) /\ Len(b) = 11 + Len(middle) /\ Len(s) = 18 + Len(middle)
  BY <1>3, <1>4, <1>5, <1>7, <1>9, <1>10 DEF Joined
<1>12. \A n \in 1 .. 7 : FromEnd(s, n) = FromEnd(last, n)
  BY <1>3, <1>9 DEF Joined
<1>13. \A n \in 1 .. 11 + Len(middle) : FromEnd(s, 7 + n) = FromEnd(b, n)
  BY <1>3, <1>9, <1>11 DEF Joined
<1>14. \A n \in 1 .. 3 : FromEnd(b, n) = FromEnd(advance, n)
  BY <1>7, <1>10 DEF Joined
<1>15. \A n \in 1 .. 8 + Len(middle) : FromEnd(b, 3 + n) = FromEnd(a, n)
  BY <1>7, <1>10, <1>11 DEF Joined
<1>16. /\ FromEnd(s, 8) = FromEnd(advance, 1) /\ FromEnd(s, 9) = FromEnd(advance, 2)
       /\ FromEnd(s, 10) = FromEnd(advance, 3)
  <2>1. FromEnd(s, 7 + 1) = FromEnd(b, 1) /\ FromEnd(s, 7 + 2) = FromEnd(b, 2)
        /\ FromEnd(s, 7 + 3) = FromEnd(b, 3)
    BY <1>4, <1>13
  <2> QED BY <1>14, <2>1
<1>17. ASSUME NEW n \in 1 .. 8 + Len(middle) PROVE FromEnd(s, 10 + n) = FromEnd(a, n)
  <2>1. 3 + n \in 1 .. 11 + Len(middle) /\ 7 + (3 + n) = 10 + n
    BY <1>4
  <2>2. FromEnd(s, 7 + (3 + n)) = FromEnd(b, 3 + n)
    BY <1>13, <2>1
  <2> QED BY <1>15, <2>1, <2>2
<1>18. ASSUME NEW n \in 1 .. Len(middle) PROVE FromEnd(s, 10 + n) = FromEnd(middle, n)
  <2>1. n \in 1 .. 8 + Len(middle)
    BY <1>4
  <2>2. FromEnd(a, n) = FromEnd(middle, n)
    BY <1>5 DEF Joined
  <2> QED BY <1>17, <2>1, <2>2
<1>19. ASSUME NEW n \in 1 .. 8 PROVE FromEnd(s, 10 + Len(middle) + n) = FromEnd(opening, n)
  <2>1. Len(middle) + n \in 1 .. 8 + Len(middle) /\ 10 + Len(middle) + n = 10 + (Len(middle) + n)
    BY <1>4
  <2>2. FromEnd(a, Len(middle) + n) = FromEnd(opening, n)
    BY <1>4, <1>5 DEF Joined
  <2>3. FromEnd(s, 10 + (Len(middle) + n)) = FromEnd(a, Len(middle) + n)
    BY <1>17, <2>1
  <2> QED BY <2>1, <2>2, <2>3
<1>20. /\ FromEnd(s, 1) = FromEnd(last, 1) /\ FromEnd(s, 2) = FromEnd(last, 2)
       /\ FromEnd(s, 3) = FromEnd(last, 3) /\ FromEnd(s, 4) = FromEnd(last, 4)
       /\ FromEnd(s, 5) = FromEnd(last, 5) /\ FromEnd(s, 6) = FromEnd(last, 6)
       /\ FromEnd(s, 7) = FromEnd(last, 7)
  BY <1>12
<1>21. s \in Scripts /\ Len(s) = Len(middle) + 18
  BY <1>4, <1>9, <1>11 DEF Joined
<1>22. WholeSteps(s, middle, duration, delay)
  BY <1>1, <1>2, <1>16, <1>18, <1>19, <1>20, <1>21 DEF WholeSteps, VoteSteps, opening
<1> QED BY <1>22 DEF s, b, a, opening, advance, last

LEMMA ExtensionMiddle ==
  LET s == Fork!ProposalStkExtensions
  IN  /\ s \in Scripts /\ Len(s) = 5
      /\ FromEnd(s, 1).op = "create" /\ FromEnd(s, 1).kind = "extension"
      /\ FromEnd(s, 1).executor = "LONG_EXECUTOR"
      /\ FromEnd(s, 2).op = "verify" /\ FromEnd(s, 3).op = "deploy"
      /\ FromEnd(s, 4).op = "verify" /\ FromEnd(s, 5).op = "deploy"
<1> DEFINE lay == Fork!DeployStakedLayRev3
           bpt == Fork!DeployStakedBptRev2
           both == lay \o bpt
           create == Fork!ProposeExtension
           s == both \o create
<1>1. /\ lay \in Scripts /\ Len(lay) = 2
      /\ FromEnd(lay, 1).op = "verify" /\ FromEnd(lay, 2).op = "deploy"
  <2>1. lay \in Scripts
    BY DEF Fork!DeployStakedLayRev3, Scripts, ScriptSteps, Fork!StakedTokens, Fork!Revision
  <2>2. Len(lay) = 2 /\ lay[2].op = "verify" /\ lay[1].op = "deploy"
    BY DEF Fork!DeployStakedLayRev3
  <2> HIDE DEF lay
  <2>3. FromEnd(lay, 1) = lay[2] /\ FromEnd(lay, 2) = lay[1]
    BY <2>2 DEF FromEnd
  <2> QED BY <2>1, <2>2, <2>3
<1>2. /\ bpt \in Scripts /\ Len(bpt) = 2
      /\ FromEnd(bpt, 1).op = "verify" /\ FromEnd(bpt, 2).op = "deploy"
  <2>1. bpt \in Scripts
    BY DEF Fork!DeployStakedBptRev2, Scripts, ScriptSteps, Fork!StakedTokens, Fork!Revision
  <2>2. Len(bpt) = 2 /\ bpt[2].op = "verify" /\ bpt[1].op = "deploy"
    BY DEF Fork!DeployStakedBptRev2
  <2> HIDE DEF bpt
  <2>3. FromEnd(bpt, 1) = bpt[2] /\ FromEnd(bpt, 2) = bpt[1]
    BY <2>2 DEF FromEnd
  <2> QED BY <2>1, <2>2, <2>3
<1>3. /\ create \in Scripts /\ Len(create) = 1
      /\ FromEnd(create, 1).op = "create" /\ FromEnd(create, 1).kind = "extension"
      /\ FromEnd(create, 1).executor = "LONG_EXECUTOR"
  BY DEF Fork!ProposeExtension, Scripts, ScriptSteps, Kinds, Fork!Executors, FromEnd
<1> HIDE DEF lay, bpt, create
<1>4. Joined(both, lay, bpt)
  BY <1>1, <1>2, Join
<1>5. both \in Scripts
  BY <1>4 DEF Joined
<1> HIDE DEF both
<1>6. Joined(s, both, create)
  BY <1>3, <1>5, Join
<1> HIDE DEF s
<1>7. Len(lay) = 2 /\ Len(bpt) = 2 /\ Len(create) = 1
  BY <1>1, <1>2, <1>3
<1>8. /\ Len(both) = 4
      /\ \A n \in 1 .. 2 : FromEnd(both, n) = FromEnd(bpt, n) /\ FromEnd(both, 2 + n) = FromEnd(lay, n)
  BY <1>4, <1>7 DEF Joined
<1>9. /\ s \in Scripts /\ Len(s) = 5 /\ FromEnd(s, 1) = FromEnd(create, 1)
      /\ \A n \in 1 .. 4 : FromEnd(s, 1 + n) = FromEnd(both, n)
  BY <1>6, <1>7, <1>8 DEF Joined
<1>10. /\ FromEnd(s, 1 + 1) = FromEnd(both, 1) /\ FromEnd(s, 1 + 2) = FromEnd(both, 2)
       /\ FromEnd(s, 1 + 3) = FromEnd(both, 3) /\ FromEnd(s, 1 + 4) = FromEnd(both, 4)
  BY <1>9
<1>11. /\ FromEnd(both, 1) = FromEnd(bpt, 1) /\ FromEnd(both, 2) = FromEnd(bpt, 2)
       /\ FromEnd(both, 2 + 1) = FromEnd(lay, 1) /\ FromEnd(both, 2 + 2) = FromEnd(lay, 2)
  BY <1>8
<1>12. /\ FromEnd(s, 2) = FromEnd(bpt, 1) /\ FromEnd(s, 3) = FromEnd(bpt, 2)
       /\ FromEnd(s, 4) = FromEnd(lay, 1) /\ FromEnd(s, 5) = FromEnd(lay, 2)
  BY <1>10, <1>11
<1>13. s = Fork!ProposalStkExtensions
  BY DEF s, both, lay, bpt, create, Fork!ProposalStkExtensions
<1> QED BY <1>1, <1>2, <1>3, <1>9, <1>12, <1>13

LEMMA ApprovalMiddle ==
  LET s == Fork!ProposalVaultApproval
  IN  /\ s \in Scripts /\ Len(s) = 1
      /\ FromEnd(s, 1).op = "create" /\ FromEnd(s, 1).kind = "approval"
      /\ FromEnd(s, 1).executor = "SHORT_EXECUTOR"
BY DEF Fork!ProposalVaultApproval, Fork!ProposeVaultApproval, Scripts, ScriptSteps, Kinds,
       Fork!Executors, FromEnd

(* The step a rehearsal is at. *)
AsPlanned(step) ==
  /\ Done \in {0, 1} => step.op = "transact"
  /\ Done \in {2, 3} => step.op = "transfer"
  /\ Done = 2 => step.amount = 20
  /\ Done = 3 => step.amount = 12
  /\ Done = 4 => step.op = "target" /\ step.blocks = 2
  /\ Done = 5 => step.op = "current block"
  /\ Done = 6 => step.op = "advance"
  /\ Done = 7 => step.op = "count"
  /\ Done >= 8 /\ Left > 11 => step.op \in {"deploy", "verify"}
  /\ Left = 11 => step.op = "create" /\ step.kind = Kind /\ step.executor = Executor
  /\ Left = 10 => step.op = "target" /\ step.blocks = 1
  /\ Left = 9 => step.op = "current block"
  /\ Left = 8 => step.op = "advance"
  /\ Left = 7 => step.op = "vote" /\ step.by = "proposer"
  /\ Left = 6 => step.op = "target" /\ step.blocks = VOTING_DURATION[Executor] + 1
  /\ Left = 5 => step.op = "current block"
  /\ Left = 4 => step.op = "advance"
  /\ Left = 3 => step.op = "queue"
  /\ Left = 2 => step.op = "increaseTime" /\ step.seconds = DELAY[Executor] + 1
  /\ Left = 1 => step.op = "execute"

LEMMA StepPlanned ==
  ASSUME ForkTypes, Rehearsing, OnScript, Left >= 1
  PROVE  AsPlanned(Fork!Step(Operator))
<1> DEFINE s == Fork!Script(Run.task)
           step == Fork!Step(Operator)
<1>1. Run.script \in Seq(ScriptSteps) /\ Left \in 1 .. Whole /\ Left \in Nat /\ Whole \in {19, 23}
  BY DEF ForkTypes, Run, Rehearsals, Scripts, OnScript, Left, Whole
<1>2. step = FromEnd(s, Left)
  <2>1. step = Run.script[1]
    BY <1>1 DEF Fork!Step, Run
  <2>2. Left - Left + 1 = 1
    BY <1>1
  <2>3. FromEnd(Run.script, Left) = Run.script[1]
    BY <2>2 DEF FromEnd, Left
  <2>4. FromEnd(Run.script, Left) = FromEnd(s, Left)
    BY <1>1 DEF OnScript
  <2> QED BY <2>1, <2>3, <2>4
<1>3. /\ VOTING_DURATION["LONG_EXECUTOR"] \in Nat /\ DELAY["LONG_EXECUTOR"] \in Nat
      /\ VOTING_DURATION["SHORT_EXECUTOR"] \in Nat /\ DELAY["SHORT_EXECUTOR"] \in Nat
  BY ForkAssumption
<1> DEFINE middle == IF Extends THEN Fork!ProposalStkExtensions ELSE Fork!ProposalVaultApproval
           duration == VOTING_DURATION[Executor]
           delay == DELAY[Executor]
<1>4. /\ middle \in Scripts /\ Len(middle) = Whole - 18
      /\ FromEnd(middle, 1).op = "create" /\ FromEnd(middle, 1).kind = Kind
      /\ FromEnd(middle, 1).executor = Executor
      /\ \A n \in 2 .. Len(middle) : FromEnd(middle, n).op \in {"deploy", "verify"}
  <2>1. CASE Extends
    <3>1. Whole - 18 = 5 /\ Kind = "extension" /\ Executor = "LONG_EXECUTOR"
      BY <2>1 DEF Whole, Kind, Executor
    <3>2. ASSUME NEW n \in 2 .. 5 PROVE FromEnd(middle, n).op \in {"deploy", "verify"}
      <4>1. n = 2 \/ n = 3 \/ n = 4 \/ n = 5
        OBVIOUS
      <4> QED BY <2>1, <4>1, ExtensionMiddle
    <3> QED BY <2>1, <3>1, <3>2, ExtensionMiddle
  <2>2. CASE ~Extends
    <3>1. Whole - 18 = 1 /\ Kind = "approval" /\ Executor = "SHORT_EXECUTOR"
      BY <2>2 DEF Whole, Kind, Executor
    <3>2. \A n \in 2 .. 1 : FALSE
      OBVIOUS
    <3> QED BY <2>2, <3>1, <3>2, ApprovalMiddle
  <2> QED BY <2>1, <2>2
<1>5. WholeSteps(s, middle, duration, delay)
  <2>1. CASE Extends
    <3>1. s = Opening \o Fork!ProposalStkExtensions \o Fork!AdvanceBlockTo(1)
                \o Fork!VoteQueueExecute(VOTING_DURATION["LONG_EXECUTOR"], DELAY["LONG_EXECUTOR"])
      BY <2>1 DEF Extends, Extension, Fork!Script, Fork!ProposalStkLayExtensionTenderly, Opening
    <3> HIDE DEF s
    <3> QED BY <1>3, <2>1, <3>1, ExtensionMiddle, WholeScript DEF Executor
  <2>2. CASE ~Extends
    <3>1. s = Opening \o Fork!ProposalVaultApproval \o Fork!AdvanceBlockTo(1)
                \o Fork!VoteQueueExecute(VOTING_DURATION["SHORT_EXECUTOR"], DELAY["SHORT_EXECUTOR"])
      BY <2>2 DEF Rehearsing, Extends, Approval, Fork!Script, Fork!ProposalVaultApprovalTenderly, Opening
    <3> HIDE DEF s
    <3> QED BY <1>3, <2>2, <3>1, ApprovalMiddle, WholeScript DEF Executor
  <2> QED BY <2>1, <2>2
<1> HIDE DEF s, step, middle
<1>6. ASSUME NEW n \in 1 .. 8 PROVE FromEnd(s, Whole - 8 + n) = FromEnd(Opening, n)
  <2>1. FromEnd(s, 10 + Len(middle) + n) = FromEnd(Opening, n)
    BY <1>5 DEF WholeSteps
  <2>2. 10 + Len(middle) + n = Whole - 8 + n
    BY <1>1, <1>4
  <2> QED BY <2>1, <2>2
<1>7. ASSUME NEW k \in 0 .. 7, Done = k PROVE step = FromEnd(Opening, 8 - k)
  <2>1. Left = Whole - 8 + (8 - k) /\ 8 - k \in 1 .. 8
    BY <1>1, <1>7 DEF Done
  <2> QED BY <1>2, <1>6, <2>1
<1>8. /\ Done = 0 => step = FromEnd(Opening, 8)
      /\ Done = 1 => step = FromEnd(Opening, 7)
      /\ Done = 2 => step = FromEnd(Opening, 6)
      /\ Done = 3 => step = FromEnd(Opening, 5)
      /\ Done = 4 => step = FromEnd(Opening, 4)
      /\ Done = 5 => step = FromEnd(Opening, 3)
      /\ Done = 6 => step = FromEnd(Opening, 2)
      /\ Done = 7 => step = FromEnd(Opening, 1)
  BY <1>7
<1>9. ASSUME Left >= 11, Done >= 8 PROVE step = FromEnd(middle, Left - 10) /\ Left - 10 \in 1 .. Len(middle)
  <2>1. Left - 10 \in 1 .. Len(middle) /\ 10 + (Left - 10) = Left
    BY <1>1, <1>4, <1>9 DEF Done
  <2>2. FromEnd(s, 10 + (Left - 10)) = FromEnd(middle, Left - 10)
    BY <1>5, <2>1 DEF WholeSteps
  <2> QED BY <1>2, <2>1, <2>2
<1>10. Left > 11 /\ Done >= 8 => step.op \in {"deploy", "verify"}
  <2> SUFFICES ASSUME Left > 11, Done >= 8 PROVE step.op \in {"deploy", "verify"}
    OBVIOUS
  <2>1. Left - 10 \in 2 .. Len(middle) /\ step = FromEnd(middle, Left - 10)
    BY <1>1, <1>9
  <2> QED BY <1>4, <2>1
<1>11. Left = 11 => step.op = "create" /\ step.kind = Kind /\ step.executor = Executor
  <2> SUFFICES ASSUME Left = 11 PROVE step = FromEnd(middle, 1)
    BY <1>4
  <2>1. Done >= 8 /\ Left - 10 = 1 /\ Left >= 11
    BY <1>1 DEF Done
  <2> QED BY <1>9, <2>1
<1>12. /\ Left = 10 => step.op = "target" /\ step.blocks = 1
       /\ Left = 9 => step.op = "current block"
       /\ Left = 8 => step.op = "advance"
       /\ Left = 7 => step.op = "vote" /\ step.by = "proposer"
       /\ Left = 6 => step.op = "target" /\ step.blocks = VOTING_DURATION[Executor] + 1
       /\ Left = 5 => step.op = "current block"
       /\ Left = 4 => step.op = "advance"
       /\ Left = 3 => step.op = "queue"
       /\ Left = 2 => step.op = "increaseTime" /\ step.seconds = DELAY[Executor] + 1
       /\ Left = 1 => step.op = "execute"
  BY <1>2, <1>5 DEF WholeSteps
<1>13. /\ FromEnd(Opening, 8).op = "transact" /\ FromEnd(Opening, 7).op = "transact"
       /\ FromEnd(Opening, 6).op = "transfer" /\ FromEnd(Opening, 6).amount = 20
       /\ FromEnd(Opening, 5).op = "transfer" /\ FromEnd(Opening, 5).amount = 12
       /\ FromEnd(Opening, 4).op = "target" /\ FromEnd(Opening, 4).blocks = 2
       /\ FromEnd(Opening, 3).op = "current block" /\ FromEnd(Opening, 2).op = "advance"
       /\ FromEnd(Opening, 1).op = "count"
  BY OpeningSteps
<1>14. /\ (Done = 2 => step.amount = 20) /\ (Done = 3 => step.amount = 12)
       /\ (Done = 4 => step.op = "target" /\ step.blocks = 2)
  BY <1>8, <1>13
<1>15. /\ Done \in {0, 1} => step.op = "transact"
       /\ Done \in {2, 3} => step.op = "transfer"
  BY <1>8, <1>13
<1>16. /\ Done = 5 => step.op = "current block"
       /\ Done = 6 => step.op = "advance"
       /\ Done = 7 => step.op = "count"
  BY <1>8, <1>13
<1>17. AsPlanned(step)
  BY <1>10, <1>11, <1>12, <1>13, <1>14, <1>15, <1>16 DEF AsPlanned
<1> QED BY <1>17 DEF step

LEMMA WhichStep ==
  ASSUME ForkInv, Rehearsing, OnScript, NEW op, Fork!AtStep(Operator, op)
  PROVE  /\ Left \in 1 .. Whole /\ Whole \in {19, 23} /\ Done = Whole - Left
         /\ AsPlanned(Fork!Step(Operator)) /\ Fork!Step(Operator).op = op
<1>1. Run.script \in Seq(ScriptSteps) /\ Run.script # <<>> /\ Fork!Step(Operator).op = op
  BY DEF ForkInv, ForkTypes, Run, Rehearsals, Scripts, Fork!AtStep
<1>2. Left \in 0 .. Whole /\ Whole \in {19, 23} /\ Left # 0
  BY <1>1 DEF OnScript, Left, Whole
<1>3. Left \in 1 .. Whole /\ Left >= 1
  BY <1>2
<1> QED BY <1>1, <1>2, <1>3, StepPlanned DEF Done, ForkInv

Position(op) ==
  /\ op = "transact" => Done \in {0, 1}
  /\ op = "transfer" => Done \in {2, 3}
  /\ op = "target" => Done = 4 \/ Left \in {6, 10}
  /\ op = "current block" => Done = 5 \/ Left \in {5, 9}
  /\ op = "advance" => Done = 6 \/ Left \in {4, 8}
  /\ op = "count" => Done = 7
  /\ op \in {"deploy", "verify"} => Done >= 8 /\ Left > 11
  /\ op = "create" => Left = 11
  /\ op = "vote" => Left = 7
  /\ op = "queue" => Left = 3
  /\ op = "increaseTime" => Left = 2
  /\ op = "execute" => Left = 1
  /\ op # "the first"

LEMMA WhichPosition ==
  ASSUME ForkInv, Rehearsing, OnScript, NEW op, Fork!AtStep(Operator, op)
  PROVE  Position(op)
<1> DEFINE step == Fork!Step(Operator)
<1>1. /\ Left \in 1 .. Whole /\ Whole \in {19, 23} /\ Done = Whole - Left
      /\ AsPlanned(step) /\ step.op = op
  BY WhichStep
<1> HIDE DEF step
<1>2. Done \in 0 .. 7 \/ (Done >= 8 /\ Left > 11) \/ Left \in 1 .. 11
  BY <1>1
<1>3. CASE Done \in {0, 1, 2, 3}
  <2>1. op \in {"transact", "transfer"}
    BY <1>1, <1>3 DEF AsPlanned
  <2>2. (Done \in {0, 1} /\ op = "transact") \/ (Done \in {2, 3} /\ op = "transfer")
    BY <1>1, <1>3 DEF AsPlanned
  <2> QED BY <2>1, <2>2 DEF Position
<1>4. CASE Done \in {4, 5, 6, 7}
  <2>1. \/ Done = 4 /\ op = "target"
        \/ Done = 5 /\ op = "current block"
        \/ Done = 6 /\ op = "advance"
        \/ Done = 7 /\ op = "count"
    BY <1>1, <1>4 DEF AsPlanned
  <2> QED BY <2>1 DEF Position
<1>5. CASE Done >= 8 /\ Left > 11
  <2>1. op \in {"deploy", "verify"}
    BY <1>1, <1>5 DEF AsPlanned
  <2> QED BY <1>5, <2>1 DEF Position
<1>6. CASE Left \in {7, 8, 9, 10, 11}
  <2>1. \/ Left = 7 /\ op = "vote"
        \/ Left = 8 /\ op = "advance"
        \/ Left = 9 /\ op = "current block"
        \/ Left = 10 /\ op = "target"
        \/ Left = 11 /\ op = "create"
    BY <1>1, <1>6 DEF AsPlanned
  <2> QED BY <2>1 DEF Position
<1>7. CASE Left \in {1, 2, 3, 4, 5, 6}
  <2>1. \/ Left = 1 /\ op = "execute"
        \/ Left = 2 /\ op = "increaseTime"
        \/ Left = 3 /\ op = "queue"
        \/ Left = 4 /\ op = "advance"
        \/ Left = 5 /\ op = "current block"
        \/ Left = 6 /\ op = "target"
    BY <1>1, <1>7 DEF AsPlanned
  <2> QED BY <2>1 DEF Position
<1>8. /\ Done \in 0 .. 7 => Done \in {0, 1, 2, 3} \/ Done \in {4, 5, 6, 7}
      /\ Left \in 1 .. 11 => Left \in {1, 2, 3, 4, 5, 6} \/ Left \in {7, 8, 9, 10, 11}
  OBVIOUS
<1> QED BY <1>2, <1>3, <1>4, <1>5, <1>6, <1>7, <1>8

(* A step more is done, and the run is what the step makes of it. *)
Proceeds(run) ==
  /\ Rehearsing' /\ OnScript'
  /\ Left' = Left - 1 /\ Done' = Done + 1
  /\ Whole' = Whole /\ Kind' = Kind /\ Executor' = Executor /\ Extends' = Extends
  /\ Run'.target = run.target /\ Run'.pending = run.pending
  /\ Run'.proposalId = run.proposalId /\ Run'.implementations = run.implementations

LEMMA RehearsalProceeds ==
  ASSUME ForkInv, Rehearsing, OnScript, NEW op, Fork!AtStep(Operator, op),
         NEW run \in Rehearsals, run.script = Run.script, run.task = Run.task,
         run.status = Run.status, Fork!Proceed(Operator, run)
  PROVE  Proceeds(run)
<1>1. Run.script \in Seq(ScriptSteps) /\ Run.script # <<>>
  BY DEF ForkInv, ForkTypes, Run, Rehearsals, Scripts, Fork!AtStep
<1>2. Tail(run.script) \in Scripts
  BY <1>1, HeadTailProperties DEF Scripts
<1>3. Run' = [run EXCEPT !.script = Tail(@)]
  BY <1>2, RunProceeds DEF ForkInv
<1>4. /\ Run'.script = Tail(Run.script) /\ Run'.task = Run.task /\ Run'.status = Run.status
      /\ Run'.target = run.target /\ Run'.pending = run.pending
      /\ Run'.proposalId = run.proposalId /\ Run'.implementations = run.implementations
  BY <1>3 DEF Rehearsals
<1>5. /\ Extends' = Extends /\ Whole' = Whole /\ Kind' = Kind /\ Executor' = Executor
      /\ Rehearsing'
  BY <1>4 DEF Extends, Whole, Kind, Executor, Rehearsing
<1> DEFINE s == Run.script
           t == Tail(Run.script)
<1>6. Len(t) = Len(s) - 1 /\ Len(s) \in Nat /\ Len(s) >= 1 /\ \A i \in 1 .. Len(t) : t[i] = s[i + 1]
  BY <1>1, HeadTailProperties
<1>7. Left' = Left - 1 /\ Left \in Nat /\ Left >= 1
  BY <1>4, <1>6 DEF Left
<1>8. Done' = Done + 1 /\ Left' \in 0 .. Whole
  BY <1>5, <1>7 DEF Done, OnScript, Whole
<1>9. ASSUME NEW n \in 1 .. Left' PROVE FromEnd(t, n) = FromEnd(s, n)
  <2>1. Left' = Len(t) /\ Left = Len(s)
    BY <1>4 DEF Left
  <2>2. Len(t) - n + 1 \in 1 .. Len(t) /\ (Len(t) - n + 1) + 1 = Len(s) - n + 1
    BY <1>6, <2>1
  <2> HIDE DEF t, s
  <2>3. t[Len(t) - n + 1] = s[(Len(t) - n + 1) + 1]
    BY <1>6, <2>2
  <2> QED BY <2>2, <2>3 DEF FromEnd
<1>10. OnScript'
  <2>1. ASSUME NEW n \in 1 .. Left' PROVE FromEnd(t, n) = FromEnd(Fork!Script(Run.task), n)
    <3>1. n \in 1 .. Left
      BY <1>7
    <3> QED BY <1>9, <3>1 DEF OnScript
  <2>2. \A n \in 1 .. Left' : FromEnd(Run'.script, n) = FromEnd(Fork!Script(Run'.task), n)
    BY <1>4, <2>1
  <2> QED BY <1>5, <1>8, <2>2 DEF OnScript, FromEnd, Fork!Script
<1> QED BY <1>4, <1>5, <1>7, <1>8, <1>10 DEF Proceeds

(* Ten steps before the end the proposal has not been made. *)
LEMMA NotYet ==
  Left \in Nat /\ Left > 10 => OwnProposal /\ Votes /\ OnTime /\ Executes
BY DEF OwnProposal, Votes, OnTime, Executes

LEMMA NotYetThen ==
  (Left \in Nat /\ Left > 10 => OwnProposal /\ Votes /\ OnTime /\ Executes)'
BY NotYet, PTL

(* The proposer keeps what the whales sent. *)
LEMMA FundsStay ==
  ASSUME ForkInv, Funded, UNCHANGED transfers, block' \in Nat, block' >= block,
         Done \in Nat, Done' \in {Done, Done + 1}, Done' \in {3, 4} => Done' = Done
  PROVE  Funded'
<1>1. Fork!Balance(Operator)' = Fork!PowerAtBlock(Operator, block')
  BY DEF Fork!Balance, Fork!PowerAtBlock, Fork!PowerAfter, Fork!Held, Fork!Moved
<1>2. Fork!PowerAtBlock(Operator, block') = Fork!Balance(Operator)
  BY PowerStays DEF Fork!Balance
<1>3. /\ Done' >= 3 => Done >= 3
      /\ Done' >= 4 => Done >= 4
  OBVIOUS
<1> QED BY <1>1, <1>2, <1>3 DEF Funded

(* What a run knows of its proposal while no proposal changes. *)
LEMMA MineStays ==
  ASSUME UNCHANGED <<transfers, proposals>>, Run'.proposalId = Run.proposalId
  PROVE  /\ Mine' = Mine
         /\ Fork!PowerAtBlock(Operator, Mine.startBlock)' = Fork!PowerAtBlock(Operator, Mine.startBlock)
<1>1. Mine' = Mine
  BY DEF Mine
<1> QED BY <1>1 DEF Fork!PowerAtBlock, Fork!PowerAfter, Fork!Held, Fork!Moved

LEMMA ProposalStays ==
  ASSUME UNCHANGED <<transfers, proposals>>, Run'.proposalId = Run.proposalId,
         Run'.implementations = Run.implementations, Left \in 1 .. 10, Left # 7,
         Left' \in {Left, Left - 1}, Kind' = Kind, Executor' = Executor, OwnProposal, Votes
  PROVE  OwnProposal' /\ Votes'
<1>1. Left' <= 10 /\ Left <= 10
  OBVIOUS
<1>2. OwnProposal'
  <2>1. Mine' = Mine
    BY MineStays
  <2> QED BY <1>1, <2>1 DEF OwnProposal
<1>3. /\ Left' \in 7 .. 10 => Left \in 7 .. 10
      /\ Left' <= 6 => Left <= 6
  OBVIOUS
<1>4. Votes'
  BY <1>3, MineStays DEF Votes
<1> QED BY <1>2, <1>4

LEMMA CourseTransacts ==
  ASSUME ForkInv, Rehearsing, OnCourse, Fork!SendTransaction(Operator)
  PROVE  OnCourse'
<1>1. /\ Fork!AtStep(Operator, "transact") /\ Fork!Proceed(Operator, Run)
      /\ block' = block + 1 /\ UNCHANGED transfers
  BY DEF Fork!SendTransaction, Fork!InBlock, Run
<1>2. /\ Proceeds(Run) /\ Done \in {0, 1} /\ Left \in 1 .. Whole /\ Whole \in {19, 23}
      /\ Done = Whole - Left
  BY <1>1, ForkNow, RehearsalProceeds, WhichPosition, WhichStep DEF OnCourse, Position
<1>3. Funded' /\ BeforeProposal'
  BY <1>2 DEF Funded, BeforeProposal, Proceeds
<1>4. Left' \in Nat /\ Left' > 10
  BY <1>2 DEF Proceeds
<1> QED BY <1>2, <1>3, <1>4, NotYetThen DEF OnCourse, Proceeds

LEMMA CourseTransfers ==
  ASSUME ForkInv, Rehearsing, OnCourse, Fork!Transfer(Operator), Rehearsing'
  PROVE  OnCourse'
<1> DEFINE whale == Fork!Step(Operator).from
           amount == Fork!Step(Operator).amount
           now == block + 1
           transfer == [from |-> whale, to |-> Operator, amount |-> amount, block |-> now]
<1>1. Fork!AtStep(Operator, "transfer")
  BY DEF Fork!Transfer
<1>2. CASE ~(Fork!Balance(whale) >= amount)
  <2>1. Fork!End(Operator, "thrown")
    BY <1>2 DEF Fork!Transfer
  <2>2. Run'.status = "thrown"
    BY <2>1, RunStops, ForkNow DEF ForkInv, Rehearsals
  <2> QED BY <2>2 DEF Rehearsing
<1>3. CASE Fork!Balance(whale) >= amount
  <2>1. /\ transfers' = Append(transfers, transfer) /\ block' = now
        /\ Fork!Proceed(Operator, Run)
    BY <1>3 DEF Fork!Transfer, Fork!InBlock, Run
  <2>2. /\ Proceeds(Run) /\ Done \in {2, 3} /\ Left \in 1 .. Whole /\ Whole \in {19, 23}
        /\ Done = Whole - Left /\ AsPlanned(Fork!Step(Operator))
    BY <1>1, <2>1, ForkNow, RehearsalProceeds, WhichPosition, WhichStep DEF OnCourse, Position
  <2>3. whale \in Whales /\ amount \in Nat
    BY <1>1, AtHead, StepFields DEF ForkInv
  <2>4. now \in Nat /\ now >= block /\ block \in Nat /\ transfers \in Seq(Transfers)
    BY ForkNow DEF ForkInv, ForkTypes
  <2>5. transfer \in Transfers /\ transfer.block = now /\ transfer.from = whale
        /\ transfer.to = Operator /\ transfer.amount = amount
    BY <2>3, <2>4 DEF Transfers
  <2> HIDE DEF transfer, now
  <2>6. Fork!Balance(Operator)' = Fork!PowerAfter(Append(transfers, transfer), Operator, now)
    BY <2>1 DEF Fork!Balance, Fork!PowerAtBlock, Fork!PowerAfter, Fork!Held, Fork!Moved
  <2>7. Fork!PowerAfter(Append(transfers, transfer), Operator, now) =
          Fork!PowerAfter(transfers, Operator, now) + Fork!Moved(Operator, transfer)
    <3>1. Fork!PowerAfter(Append(transfers, transfer), Operator, now) =
            Fork!PowerAfter(transfers, Operator, now)
            + (IF transfer.block > now THEN 0 ELSE Fork!Moved(Operator, transfer))
      BY <2>4, <2>5, TransferMoves
    <3>2. ~(transfer.block > now)
      BY <2>4, <2>5
    <3> QED BY <3>1, <3>2
  <2>8. Fork!PowerAfter(transfers, Operator, now) = Fork!Balance(Operator)
    BY <2>4, PowerStays DEF Fork!PowerAtBlock, Fork!Balance
  <2>9. Fork!Balance(Operator) \in Int /\ Fork!Balance(Operator) >= 0
    BY <2>4, PowerIsLast DEF ForkInv, Covered, Accounts, Voters, Fork!PowerAtBlock, Fork!Balance
  <2>10. Fork!Moved(Operator, transfer) = amount
    <3>1. whale # Operator
      BY <2>3, ForkAssumption DEF Whales
    <3>2. Fork!Moved(Operator, transfer) = amount - 0
      BY <2>5, <3>1 DEF Fork!Moved
    <3> QED BY <2>3, <3>2
  <2>11. Fork!Balance(Operator)' = Fork!Balance(Operator) + amount
    BY <2>6, <2>7, <2>8, <2>10
  <2>12. (Done = 2 => amount = 20) /\ (Done = 3 => amount = 12)
    BY <2>2 DEF AsPlanned
  <2> HIDE DEF amount, whale
  <2>13. Funded'
    <3>1. CASE Done = 2
      <4>1. Fork!Balance(Operator)' >= 20 /\ Done' = 3
        BY <2>2, <2>9, <2>11, <2>12, <3>1 DEF Proceeds
      <4> QED BY <4>1 DEF Funded
    <3>2. CASE Done = 3
      <4>1. Fork!Balance(Operator) >= 20
        BY <3>2 DEF OnCourse, Funded
      <4>2. Fork!Balance(Operator)' >= 32 /\ Fork!Balance(Operator)' >= 20
        BY <2>9, <2>11, <2>12, <3>2, <4>1
      <4> QED BY <4>2 DEF Funded
    <3> QED BY <2>2, <3>1, <3>2
  <2>14. BeforeProposal'
    BY <2>2 DEF BeforeProposal, Proceeds
  <2>15. Left' \in Nat /\ Left' > 10
    BY <2>2 DEF Proceeds
  <2> QED BY <2>2, <2>13, <2>14, <2>15, NotYetThen DEF OnCourse, Proceeds
<1> QED BY <1>2, <1>3

LEMMA CourseDeploys ==
  ASSUME ForkInv, Rehearsing, OnCourse, Rehearsing',
         Fork!DeployImplementation(Operator) \/ Fork!Verify(Operator)
  PROVE  OnCourse'
<1>1. /\ block' \in Nat /\ block' >= block /\ UNCHANGED <<transfers, proposals>>
  BY ForkNow DEF Fork!DeployImplementation, Fork!Verify, Fork!chain, Fork!InBlock
<1>2. \/ Fork!AtStep(Operator, "deploy")
      \/ Fork!AtStep(Operator, "verify")
  BY DEF Fork!DeployImplementation, Fork!Verify
<1>3. PICK op \in {"deploy", "verify"} : Fork!AtStep(Operator, op)
  BY <1>2
<1>4. PICK run \in Rehearsals : /\ run.script = Run.script /\ run.task = Run.task
                                /\ run.status = Run.status /\ run.proposalId = Run.proposalId
                                /\ Fork!Proceed(Operator, run)
  <2>1. CASE Fork!Verify(Operator)
    <3>1. Fork!Proceed(Operator, Run) \/ Fork!End(Operator, "thrown")
      BY <2>1 DEF Fork!Verify, Run
    <3>2. Fork!End(Operator, "thrown") => Run'.status = "thrown"
      BY RunStops, ForkNow DEF ForkInv, Rehearsals
    <3> QED BY <3>1, <3>2, ForkNow DEF Rehearsing
  <2>2. CASE Fork!DeployImplementation(Operator)
    <3> DEFINE token == Fork!Step(Operator).token
               count == Len(deployed) + 1
               named == [Run.implementations EXCEPT ![token] = count]
               run == [Run EXCEPT !.implementations = named]
    <3>1. Fork!Proceed(Operator, run)
      BY <2>2 DEF Fork!DeployImplementation, Run
    <3>2. token \in Fork!StakedTokens
      <4>1. Fork!AtStep(Operator, "deploy")
        BY <2>2 DEF Fork!DeployImplementation
      <4> QED BY <4>1, AtHead, StepFields DEF ForkInv
    <3>3. count \in Nat /\ Run \in Rehearsals
      BY ForkNow DEF ForkInv, ForkTypes
    <3> HIDE DEF token, count
    <3>4. named \in [Fork!StakedTokens -> Nat]
      BY <3>2, <3>3 DEF Rehearsals
    <3> HIDE DEF named
    <3>5. /\ run \in Rehearsals /\ run.script = Run.script /\ run.task = Run.task
          /\ run.status = Run.status /\ run.proposalId = Run.proposalId
      BY <3>3, <3>4 DEF Rehearsals
    <3> QED BY <3>1, <3>5
  <2> QED BY <2>1, <2>2
<1>5. /\ Proceeds(run) /\ Done >= 8 /\ Left > 11 /\ Left \in 1 .. Whole /\ Whole \in {19, 23}
      /\ Done = Whole - Left
  BY <1>3, <1>4, RehearsalProceeds, WhichPosition, WhichStep DEF OnCourse, Position
<1>6. Done \in Nat /\ Left' \in Nat /\ Left' > 10 /\ Done' = Done + 1 /\ Done' > 8 /\ Left' >= 11
  BY <1>5 DEF Proceeds
<1>7. Funded'
  BY <1>1, <1>6, FundsStay DEF OnCourse
<1>8. BeforeProposal'
  BY <1>1, <1>4, <1>5, <1>6 DEF OnCourse, BeforeProposal, Proceeds
<1> QED BY <1>5, <1>6, <1>7, <1>8, NotYetThen DEF OnCourse, Proceeds

LEMMA CourseCounts ==
  ASSUME ForkInv, Rehearsing, OnCourse, Fork!GetProposalsCount(Operator)
  PROVE  OnCourse'
<1> DEFINE count == Len(proposals) + 1
           next == [Run EXCEPT !.proposalId = count]
<1>1. /\ Fork!AtStep(Operator, "count") /\ Fork!Proceed(Operator, next)
      /\ UNCHANGED <<block, transfers, proposals>>
  BY DEF Fork!GetProposalsCount, Run, Fork!chain
<1>2. count \in Nat
  BY DEF ForkInv, ForkTypes
<1> HIDE DEF count
<1>3. /\ next \in Rehearsals /\ next.script = Run.script /\ next.task = Run.task
      /\ next.status = Run.status /\ next.proposalId = count
  BY <1>2, ForkNow DEF Rehearsals
<1> HIDE DEF next
<1>4. /\ Proceeds(next) /\ Done = 7 /\ Left \in 1 .. Whole /\ Whole \in {19, 23}
      /\ Done = Whole - Left
  BY <1>1, <1>3, RehearsalProceeds, WhichPosition, WhichStep DEF OnCourse, Position
<1>5. Done \in Nat /\ Done' = 8 /\ Left' \in Nat /\ Left' > 10
  BY <1>4 DEF Proceeds
<1>6. Funded'
  BY <1>1, <1>4, <1>5, FundsStay, ForkNow DEF OnCourse
<1>7. BeforeProposal'
  BY <1>1, <1>3, <1>4, <1>5 DEF BeforeProposal, Proceeds, count
<1> QED BY <1>4, <1>5, <1>6, <1>7, NotYetThen DEF OnCourse, Proceeds

(* The proposer keeps what the whales sent while the steps before the      *)
(* proposal go on.                                                         *)
LEMMA EarlyStep ==
  ASSUME ForkInv, Rehearsing, OnCourse, NEW run, Proceeds(run), BeforeProposal',
         Left > 11, Left \in 1 .. Whole, Whole \in {19, 23}, Done = Whole - Left, Done >= 4,
         UNCHANGED transfers, block' \in Nat, block' >= block
  PROVE  OnCourse'
<1>1. Done \in Nat /\ Done' = Done + 1 /\ Left' \in Nat /\ Left' > 10
  BY DEF Proceeds
<1>2. Funded'
  BY <1>1, FundsStay DEF OnCourse
<1> QED BY <1>1, <1>2, NotYetThen DEF OnCourse, Proceeds

(* After the proposal is made, a step that leaves proposals and LAY alone. *)
LEMMA QuietStep ==
  ASSUME ForkInv, Rehearsing, OnCourse, NEW run, Proceeds(run), run.proposalId = Run.proposalId,
         run.implementations = Run.implementations,
         Left \in 1 .. 10, Left # 7, Whole \in {19, 23}, Done = Whole - Left,
         UNCHANGED <<transfers, proposals>>, block' \in Nat, block' >= block
  PROVE  /\ OnScript' /\ Funded' /\ BeforeProposal' /\ OwnProposal' /\ Votes'
         /\ Mine' = Mine /\ Executor' = Executor /\ Extends' = Extends /\ Left' = Left - 1
<1>1. /\ Left' \in {Left, Left - 1} /\ Kind' = Kind /\ Executor' = Executor
      /\ Run'.proposalId = Run.proposalId /\ Run'.implementations = Run.implementations
  BY DEF Proceeds
<1>2. OwnProposal' /\ Votes'
  BY <1>1, ProposalStays DEF OnCourse
<1>3. Done \in Nat /\ Done' = Done + 1 /\ Done >= 9
  BY DEF Proceeds
<1>4. Funded'
  BY <1>3, FundsStay DEF OnCourse
<1>5. BeforeProposal'
  <2>1. Done' # 5 /\ Done' # 6 /\ ~(Left' >= 11)
    BY <1>1, <1>3
  <2> QED BY <2>1 DEF BeforeProposal
<1>6. Mine' = Mine
  BY <1>1, MineStays
<1> QED BY <1>1, <1>2, <1>4, <1>5, <1>6 DEF Proceeds

LEMMA CourseTargets ==
  ASSUME ForkInv, Rehearsing, OnCourse, Fork!Target(Operator), UNCHANGED network
  PROVE  OnCourse'
<1> DEFINE target == block + Fork!Step(Operator).blocks
           next == [Run EXCEPT !.target = target]
<1>1. /\ Fork!AtStep(Operator, "target") /\ Fork!Proceed(Operator, next)
      /\ UNCHANGED <<block, time, transfers, proposals, proxies, approved>>
  BY DEF Fork!Target, Run, Fork!chain
<1>2. target \in Int /\ block \in Nat /\ block >= block
  <2>1. Fork!Step(Operator).blocks \in Nat
    BY <1>1, AtHead, StepFields DEF ForkInv
  <2> QED BY <2>1, ForkNow
<1> HIDE DEF target
<1>3. /\ next \in Rehearsals /\ next.script = Run.script /\ next.task = Run.task
      /\ next.status = Run.status /\ next.proposalId = Run.proposalId /\ next.target = target
      /\ next.implementations = Run.implementations
  BY <1>2, ForkNow DEF Rehearsals
<1> HIDE DEF next
<1>4. Proceeds(next) /\ (Done = 4 \/ Left \in {6, 10})
  BY <1>1, <1>3, RehearsalProceeds, WhichPosition DEF OnCourse, Position
<1>5. /\ Left \in 1 .. Whole /\ Whole \in {19, 23} /\ Done = Whole - Left
      /\ AsPlanned(Fork!Step(Operator))
  BY <1>1, WhichStep DEF OnCourse
<1>6. CASE Done = 4
  <2>1. target = block + 2 /\ Done' = 5 /\ Left > 11
    <3>1. Fork!Step(Operator).blocks = 2
      BY <1>5, <1>6 DEF AsPlanned
    <3>2. target = block + 2
      BY <3>1 DEF target
    <3>3. Done' = 5 /\ Left > 11
      BY <1>4, <1>5, <1>6 DEF Proceeds
    <3> QED BY <3>2, <3>3
  <2>2. Run'.target = block' + 2
    BY <1>1, <1>3, <1>4, <2>1 DEF Proceeds
  <2>3. BeforeProposal'
    BY <2>1, <2>2 DEF BeforeProposal
  <2> QED BY <1>1, <1>2, <1>4, <1>5, <1>6, <2>1, <2>3, EarlyStep
<1>7. CASE Left \in {6, 10}
  <2>1. Left \in 1 .. 10 /\ Left # 7
    BY <1>7
  <2>2. /\ OnScript' /\ Funded' /\ BeforeProposal' /\ OwnProposal' /\ Votes'
        /\ Mine' = Mine /\ Executor' = Executor /\ Extends' = Extends /\ Left' = Left - 1
    BY <1>1, <1>2, <1>3, <1>4, <1>5, <2>1, QuietStep
  <2>3. Run'.target = target
    BY <1>3, <1>4 DEF Proceeds
  <2>4. CASE Left = 10
    <3>1. target = block + 1 /\ Left' = 9
      <4>1. Fork!Step(Operator).blocks = 1
        BY <1>5, <2>4 DEF AsPlanned
      <4>2. target = block + 1
        BY <4>1 DEF target
      <4>3. Left' = 9
        BY <2>2, <2>4
      <4> QED BY <4>2, <4>3
    <3>2. OnTime'
      BY <1>1, <2>2, <2>3, <2>4, <3>1 DEF OnCourse, OnTime
    <3>3. Executes'
      BY <2>2, <2>4, <3>1 DEF OnCourse, Executes
    <3> QED BY <2>2, <3>2, <3>3 DEF OnCourse
  <2>5. CASE Left = 6
    <3>1. target = block + (VOTING_DURATION[Executor] + 1) /\ Left' = 5
      <4>1. Fork!Step(Operator).blocks = VOTING_DURATION[Executor] + 1
        BY <1>5, <2>5 DEF AsPlanned
      <4>2. target = block + (VOTING_DURATION[Executor] + 1)
        BY <4>1 DEF target
      <4>3. Left' = 5
        BY <2>2, <2>5
      <4> QED BY <4>2, <4>3
    <3>2. target = block + VOTING_DURATION[Executor] + 1
      <4>1. VOTING_DURATION[Executor] \in Nat /\ block \in Nat
        BY ForkAssumption, ForkNow DEF Executor
      <4> QED BY <3>1, <4>1
    <3>3. OnTime'
      BY <1>1, <2>2, <2>3, <2>5, <3>1, <3>2 DEF OnCourse, OnTime
    <3>4. Executes'
      BY <2>2, <2>5, <3>1 DEF OnCourse, Executes
    <3> QED BY <2>2, <3>3, <3>4 DEF OnCourse
  <2> QED BY <1>7, <2>4, <2>5
<1> QED BY <1>4, <1>6, <1>7

(* The dates of a proposal. *)
LEMMA MineDated ==
  ASSUME ForkInv, OwnProposal, Left <= 10
  PROVE  /\ Mine \in Proposals /\ Mine.startBlock \in Nat /\ Mine.endBlock \in Nat
         /\ Mine.forVotes \in Int /\ Mine.executionTime \in Nat
         /\ VOTING_DURATION[Executor] \in Nat /\ VOTING_DURATION[Executor] >= 2
         /\ DELAY[Executor] \in Nat
         /\ Mine.endBlock = Mine.startBlock + VOTING_DURATION[Executor]
<1>1. Run.proposalId \in 1 .. Len(proposals) /\ proposals \in Seq(Proposals)
  BY DEF OwnProposal, ForkInv, ForkTypes
<1>2. Mine \in Proposals
  BY <1>1, ElementOfSeq DEF Mine
<1>3. Executor \in {"LONG_EXECUTOR", "SHORT_EXECUTOR"}
  BY DEF Executor
<1>4. VOTING_DURATION[Executor] \in Nat \ {0, 1} /\ DELAY[Executor] \in Nat
  BY <1>3, ForkAssumption
<1>5. VOTING_DURATION[Executor] \in Nat /\ VOTING_DURATION[Executor] >= 2
  BY <1>4
<1> QED BY <1>2, <1>4, <1>5 DEF Proposals, OwnProposal

(* The block is read when it is the one the target was reckoned from, and  *)
(* the target is not over.                                                 *)
LEMMA CourseReadsBlock ==
  ASSUME ForkInv, Rehearsing, OnCourse, Fork!CurrentBlock(Operator), UNCHANGED network
  PROVE  /\ Rehearsing' => OnCourse'
         /\ Run'.status # "thrown"
<1> DEFINE pending == Run.target - block - 1
           after == [Run EXCEPT !.pending = pending]
<1>1. /\ Fork!AtStep(Operator, "current block")
      /\ UNCHANGED <<block, time, transfers, proposals, proxies, approved>>
  BY DEF Fork!CurrentBlock, Fork!chain
<1>2. pending \in Int /\ block \in Nat /\ block >= block /\ Run.target \in Int
  BY ForkNow DEF Rehearsals
<1>3. /\ Left \in 1 .. Whole /\ Whole \in {19, 23} /\ Done = Whole - Left
      /\ Done = 5 \/ Left \in {5, 9}
  BY <1>1, WhichPosition, WhichStep DEF OnCourse, Position
<1>4. \/ Done = 5 /\ Run.target = block + 2
      \/ Left = 9 /\ Run.target = block + 1 /\ block = Mine.startBlock
      \/ Left = 5 /\ Run.target = block + VOTING_DURATION[Executor] + 1 /\ block > Mine.startBlock
  BY <1>3 DEF OnCourse, BeforeProposal, OnTime
<1>5. ~(Run.target < block) /\ pending >= 0
  <2>1. CASE Left = 5
    <3>1. Left <= 10
      BY <2>1
    <3> QED BY <1>2, <1>3, <1>4, <2>1, <3>1, MineDated DEF OnCourse
  <2>2. CASE Left # 5
    BY <1>2, <1>4, <2>2
  <2> QED BY <2>1, <2>2
<1>6. PICK next \in Rehearsals :
        /\ next.script = Run.script /\ next.task = Run.task /\ next.status = Run.status
        /\ next.proposalId = Run.proposalId /\ next.target = Run.target
        /\ next.implementations = Run.implementations
        /\ network = "tenderly" => next.pending = pending
        /\ Fork!Proceed(Operator, next)
  <2>1. CASE network = "tenderly"
    <3>1. Fork!Proceed(Operator, after)
      BY <2>1 DEF Fork!CurrentBlock, Run
    <3> HIDE DEF pending
    <3>2. /\ after \in Rehearsals /\ after.script = Run.script /\ after.task = Run.task
          /\ after.status = Run.status /\ after.proposalId = Run.proposalId
          /\ after.target = Run.target /\ after.pending = pending
          /\ after.implementations = Run.implementations
      BY <1>2, ForkNow DEF Rehearsals
    <3> QED BY <3>1, <3>2
  <2>2. CASE network # "tenderly"
    <3>1. Fork!Proceed(Operator, Run)
      BY <1>5, <2>2 DEF Fork!CurrentBlock, Run
    <3> QED BY <2>2, <3>1, ForkNow
  <2> QED BY <2>1, <2>2
<1>7. Proceeds(next)
  BY <1>1, <1>6, RehearsalProceeds DEF OnCourse
<1>8. Rehearsing' /\ Run'.target = Run.target /\ (network = "tenderly" => Run'.pending = pending)
  BY <1>6, <1>7 DEF Proceeds
<1>9. CASE Done = 5
  <2>1. Done' = 6 /\ Left > 11 /\ Done >= 4
    BY <1>3, <1>7, <1>9 DEF Proceeds
  <2>2. BeforeProposal'
    BY <1>5, <1>8, <2>1 DEF BeforeProposal
  <2> QED BY <1>1, <1>2, <1>3, <1>7, <1>8, <2>1, <2>2, EarlyStep DEF Rehearsing
<1>10. CASE Left \in {5, 9}
  <2>1. Left \in 1 .. 10 /\ Left # 7 /\ Left <= 10
    BY <1>10
  <2>2. /\ OnScript' /\ Funded' /\ BeforeProposal' /\ OwnProposal' /\ Votes'
        /\ Mine' = Mine /\ Executor' = Executor /\ Extends' = Extends /\ Left' = Left - 1
    BY <1>1, <1>2, <1>3, <1>6, <1>7, <2>1, QuietStep
  <2>3. /\ Mine.startBlock \in Nat /\ VOTING_DURATION[Executor] \in Nat
        /\ Mine.endBlock = Mine.startBlock + VOTING_DURATION[Executor]
    BY <2>1, MineDated DEF OnCourse
  <2>4. CASE Left = 9
    <3>1. Left' = 8 /\ Run'.target = Mine'.startBlock + 1
          /\ Mine'.startBlock <= block' /\ block' <= Mine'.startBlock + 1
          /\ (network' = "tenderly" => Run'.pending = 0)
      <4>1. Left' = 8
        BY <2>2, <2>4
      <4>2. Run.target = block + 1 /\ block = Mine.startBlock
        BY <1>3, <1>4, <2>4
      <4>3. Mine'.startBlock = block /\ block' = block /\ Run'.target = block + 1
        BY <1>1, <1>8, <2>2, <4>2
      <4>4. pending = 0
        BY <1>2, <4>2
      <4>5. network' = "tenderly" => Run'.pending = 0
        BY <1>8, <4>4
      <4> HIDE DEF pending
      <4> QED BY <1>2, <4>1, <4>3, <4>5
    <3>2. OnTime'
      BY <3>1 DEF OnTime
    <3>3. Executes'
      BY <2>2, <2>4, <3>1 DEF OnCourse, Executes
    <3> QED BY <1>8, <2>2, <3>2, <3>3 DEF OnCourse, Rehearsing
  <2>5. CASE Left = 5
    <3>1. Run.target = block + VOTING_DURATION[Executor] + 1 /\ block > Mine.startBlock
      BY <1>4, <1>3, <2>5
    <3> HIDE DEF pending
    <3>2. Run.target >= Mine.endBlock /\ block + pending >= Mine.endBlock
      BY <1>2, <2>3, <3>1 DEF pending
    <3>3. Left' = 4 /\ Run'.target >= Mine'.endBlock
          /\ (network' = "tenderly" => Run'.pending >= 0 /\ block' + Run'.pending >= Mine'.endBlock)
      <4>1. Left' = 4
        BY <2>2, <2>5
      <4>2. Run'.target >= Mine'.endBlock /\ Mine' = Mine /\ block' = block
        BY <1>1, <1>8, <2>2, <3>2
      <4>3. ASSUME network' = "tenderly"
            PROVE  Run'.pending >= 0 /\ block' + Run'.pending >= Mine'.endBlock
        <5>1. Run'.pending = pending
          BY <1>8, <4>3
        <5> QED BY <1>5, <3>2, <4>2, <5>1 DEF pending
      <4> QED BY <4>1, <4>2, <4>3
    <3>4. OnTime'
      BY <3>3 DEF OnTime
    <3>5. Executes'
      BY <2>2, <2>5, <3>3 DEF OnCourse, Executes
    <3> QED BY <1>8, <2>2, <3>4, <3>5 DEF OnCourse, Rehearsing
  <2> QED BY <1>10, <2>4, <2>5
<1> QED BY <1>3, <1>9, <1>10

(* Time passes for a run that stays where it is. *)
LEMMA RunWaits ==
  ASSUME UNCHANGED runs
  PROVE  /\ Run' = Run /\ Left' = Left /\ Done' = Done /\ Whole' = Whole
         /\ Kind' = Kind /\ Executor' = Executor /\ Extends' = Extends
         /\ Rehearsing' = Rehearsing /\ OnScript' = OnScript
<1>1. Run' = Run
  BY DEF Run
<1>2. /\ Left' = Left /\ Extends' = Extends /\ Rehearsing' = Rehearsing
  BY <1>1 DEF Left, Extends, Rehearsing
<1>3. Whole' = Whole /\ Kind' = Kind /\ Executor' = Executor
  BY <1>2 DEF Whole, Kind, Executor
<1>4. Done' = Done
  BY <1>2, <1>3 DEF Done
<1>5. OnScript' = OnScript
  BY <1>1, <1>2, <1>3 DEF OnScript, FromEnd, Fork!Script
<1> QED BY <1>1, <1>2, <1>3, <1>4, <1>5

LEMMA CourseWaits ==
  ASSUME ForkInv, Rehearsing, OnCourse, UNCHANGED <<runs, network, time, transfers, proposals,
                                                    proxies, approved>>,
         network # "tenderly", block' = block + 1,
         Done = 6 \/ Left \in {4, 8}, Left = 8 => block = Mine.startBlock,
         Left \in 1 .. Whole, Whole \in {19, 23}, Done = Whole - Left
  PROVE  OnCourse'
<1>1. /\ Run' = Run /\ Left' = Left /\ Done' = Done /\ Whole' = Whole
      /\ Kind' = Kind /\ Executor' = Executor /\ Extends' = Extends
      /\ Rehearsing' = Rehearsing /\ OnScript' = OnScript
  BY RunWaits
<1>2. block \in Nat /\ block' \in Nat /\ block' >= block /\ Done \in Nat
  BY ForkNow
<1>3. Funded'
  <2>1. Done' \in {Done, Done + 1} /\ (Done' \in {3, 4} => Done' = Done)
    BY <1>1
  <2> QED BY <1>2, <2>1, FundsStay DEF OnCourse
<1>4. CASE Done = 6
  <2>1. Done' = 6 /\ Left' \in Nat /\ Left' > 10
    BY <1>1, <1>4
  <2>2. BeforeProposal'
    BY <2>1 DEF BeforeProposal
  <2> QED BY <1>1, <1>3, <2>1, <2>2, NotYetThen DEF OnCourse
<1>5. CASE Left \in {4, 8}
  <2>1. Left \in 1 .. 10 /\ Left # 7 /\ Left <= 10 /\ Left' \in {Left, Left - 1}
    BY <1>1, <1>5
  <2>2. OwnProposal' /\ Votes'
    BY <1>1, <2>1, ProposalStays DEF OnCourse
  <2>3. Mine' = Mine
    BY <1>1, MineStays
  <2>4. BeforeProposal'
    <3>1. Done' # 5 /\ Done' # 6 /\ ~(Left' >= 11)
      BY <1>1, <1>5
    <3> QED BY <3>1 DEF BeforeProposal
  <2>5. Mine.startBlock \in Nat
    BY <2>1, MineDated DEF OnCourse
  <2>6. OnTime'
    <3>1. CASE Left = 8
      <4>1. /\ Mine'.startBlock <= block' /\ block' <= Mine'.startBlock + 1
            /\ Run'.target = Mine'.startBlock + 1
        BY <1>1, <1>2, <2>3, <2>5, <3>1 DEF OnCourse, OnTime
      <4>2. Left' = 8
        BY <1>1, <3>1
      <4> QED BY <4>1, <4>2 DEF OnTime
    <3>2. CASE Left = 4
      <4>1. Left' = 4 /\ Run'.target >= Mine'.endBlock
        BY <1>1, <2>3, <3>2 DEF OnCourse, OnTime
      <4> QED BY <4>1 DEF OnTime
    <3> QED BY <1>5, <3>1, <3>2
  <2>7. Executes'
    BY <1>1, <1>5, <2>3 DEF OnCourse, Executes
  <2> QED BY <1>1, <1>3, <2>2, <2>4, <2>6, <2>7 DEF OnCourse
<1> QED BY <1>4, <1>5

LEMMA CourseAdvances ==
  ASSUME ForkInv, Rehearsing, OnCourse, Fork!Advance(Operator), UNCHANGED network
  PROVE  /\ OnCourse'
         /\ Run'.status # "thrown"
<1> DEFINE last == block + Run.pending
<1>1. /\ Fork!AtStep(Operator, "advance")
      /\ UNCHANGED <<time, transfers, proposals, proxies, approved>>
  BY DEF Fork!Advance
<1>2. block \in Nat /\ block >= block /\ Run.pending \in Int /\ Run.target \in Int
  BY ForkNow DEF Rehearsals
<1>3. /\ Left \in 1 .. Whole /\ Whole \in {19, 23} /\ Done = Whole - Left
      /\ Done = 6 \/ Left \in {4, 8}
  BY <1>1, WhichPosition, WhichStep DEF OnCourse, Position
<1>4. network = "tenderly" => Run.pending >= 0
  BY <1>2, <1>3 DEF OnCourse, BeforeProposal, OnTime
<1>5. Left \in {4, 8} =>
        /\ Mine.startBlock \in Nat /\ Mine.endBlock \in Nat
        /\ Mine.endBlock = Mine.startBlock + VOTING_DURATION[Executor]
  <2> HAVE Left \in {4, 8}
  <2>1. Left <= 10
    OBVIOUS
  <2> QED BY <2>1, MineDated DEF OnCourse
<1>6. CASE network # "tenderly" /\ block < Run.target /\ block' = block + 1 /\ UNCHANGED runs
  <2>1. Left = 8 => block = Mine.startBlock
    BY <1>2, <1>5, <1>6 DEF OnCourse, OnTime
  <2>2. OnCourse'
    BY <1>1, <1>3, <1>6, <2>1, CourseWaits
  <2>3. Run' = Run
    BY <1>6, RunWaits
  <2> QED BY <2>2, <2>3 DEF Rehearsing
<1>7. CASE /\ Fork!Proceed(Operator, Run)
           /\ \/ network = "tenderly" /\ block' = last
              \/ network # "tenderly" /\ block >= Run.target /\ block' = block
  <2>1. block' \in Nat /\ block' >= block
    BY <1>2, <1>4, <1>7
  <2> HIDE DEF last
  <2>2. Proceeds(Run) /\ Run \in Rehearsals
    BY <1>1, <1>7, ForkNow, RehearsalProceeds DEF OnCourse
  <2>3. Run'.status # "thrown"
    BY <2>2 DEF Proceeds, Rehearsing
  <2>4. CASE Done = 6
    <3>1. Left > 11 /\ Done >= 4 /\ Done' = 7 /\ Done' # 5 /\ Done' # 6 /\ ~(Done' >= 8)
      BY <1>3, <2>2, <2>4 DEF Proceeds
    <3>2. BeforeProposal'
      BY <3>1 DEF BeforeProposal
    <3> QED BY <1>1, <1>3, <2>1, <2>2, <2>3, <3>1, <3>2, EarlyStep
  <2>5. CASE Left \in {4, 8}
    <3>1. Left \in 1 .. 10 /\ Left # 7
      BY <2>5
    <3>2. /\ OnScript' /\ Funded' /\ BeforeProposal' /\ OwnProposal' /\ Votes'
          /\ Mine' = Mine /\ Executor' = Executor /\ Extends' = Extends /\ Left' = Left - 1
      BY <1>1, <1>3, <2>1, <2>2, <3>1, QuietStep
    <3>3. CASE Left = 8
      <4>1. Left' = 7
        BY <3>2, <3>3
      <4>2. /\ Run.target = Mine.startBlock + 1 /\ (network = "tenderly" => Run.pending = 0)
            /\ Mine.startBlock <= block /\ block <= Mine.startBlock + 1
        BY <3>3 DEF OnCourse, OnTime
      <4>3. block' = block
        BY <1>2, <1>7, <4>2 DEF last
      <4>4. Mine'.startBlock <= block' /\ block' <= Mine'.startBlock + 1
        BY <3>2, <4>2, <4>3
      <4>5. OnTime'
        BY <4>1, <4>4 DEF OnTime
      <4>6. Executes'
        BY <3>2, <3>3, <4>1 DEF OnCourse, Executes
      <4> QED BY <2>3, <3>2, <4>5, <4>6 DEF OnCourse
    <3>4. CASE Left = 4
      <4>1. Left' = 3
        BY <3>2, <3>4
      <4>2. /\ Run.target >= Mine.endBlock
            /\ network = "tenderly" => block + Run.pending >= Mine.endBlock
        BY <3>4 DEF OnCourse, OnTime
      <4>3. block' >= Mine.endBlock
        BY <1>2, <1>5, <1>7, <3>4, <4>2 DEF last
      <4>4. OnTime'
        BY <3>2, <4>1, <4>3 DEF OnTime
      <4>5. Executes'
        BY <1>1, <3>2, <3>4, <4>1 DEF OnCourse, Executes
      <4> QED BY <2>3, <3>2, <4>4, <4>5 DEF OnCourse
    <3> QED BY <2>5, <3>3, <3>4
  <2> QED BY <1>3, <2>4, <2>5
<1> QED BY <1>2, <1>4, <1>6, <1>7 DEF Fork!Advance, Run

LEMMA CourseTimes ==
  ASSUME ForkInv, Rehearsing, OnCourse, Fork!IncreaseTime(Operator), UNCHANGED network
  PROVE  OnCourse'
<1> DEFINE seconds == Fork!Step(Operator).seconds
<1>1. /\ Fork!AtStep(Operator, "increaseTime") /\ Fork!Proceed(Operator, Run)
      /\ UNCHANGED <<transfers, proposals, proxies, approved>>
      /\ time' = time + seconds /\ block' \in {block, block + 1}
  BY DEF Fork!IncreaseTime, Run
<1>2. block' \in Nat /\ block' >= block /\ time \in Nat \ {0}
  BY <1>1, ForkNow
<1>3. Proceeds(Run) /\ Left = 2
  BY <1>1, ForkNow, RehearsalProceeds, WhichPosition DEF OnCourse, Position
<1>4. /\ Left \in 1 .. Whole /\ Whole \in {19, 23} /\ Done = Whole - Left
      /\ AsPlanned(Fork!Step(Operator))
  BY <1>1, WhichStep DEF OnCourse
<1>5. Left \in 1 .. 10 /\ Left # 7 /\ Left <= 10
  BY <1>3
<1>6. /\ OnScript' /\ Funded' /\ BeforeProposal' /\ OwnProposal' /\ Votes'
      /\ Mine' = Mine /\ Executor' = Executor /\ Extends' = Extends /\ Left' = Left - 1
  BY <1>1, <1>2, <1>3, <1>4, <1>5, QuietStep
<1>7. seconds = DELAY[Executor] + 1
  BY <1>3, <1>4 DEF AsPlanned
<1>8. DELAY[Executor] \in Nat
  BY <1>5, MineDated DEF OnCourse
<1>9. Left' = 1
  BY <1>3, <1>6
<1>10. OnTime'
  BY <1>9 DEF OnTime
<1>11. Executes'
  <2>1. Mine.executionTime = time + DELAY[Executor] /\ ~Mine.executed
    BY <1>3 DEF OnCourse, Executes
  <2> HIDE DEF seconds
  <2>2. Mine.executionTime > 0 /\ time' = Mine.executionTime + 1
    BY <1>1, <1>2, <1>7, <1>8, <2>1
  <2> QED BY <1>6, <1>9, <2>1, <2>2 DEF Executes
<1> QED BY <1>6, <1>10, <1>11 DEF OnCourse

(* The proposer has enough to propose, and whoever counted the proposals   *)
(* counted right: nobody else makes one.                                   *)
LEMMA CourseCreates ==
  ASSUME ForkInv, Rehearsing, OnCourse, Fork!Create(Operator), UNCHANGED network
  PROVE  /\ OnCourse'
         /\ Run'.status # "thrown"
<1> DEFINE step == Fork!Step(Operator)
           now == block + 1
           last == block + 1 + VOTING_DURATION[Executor]
           new == Fork!Proposal(step.kind, step.executor, Run.implementations, Operator)
<1>1. Fork!AtStep(Operator, "create")
  BY DEF Fork!Create
<1>2. /\ Left = 11 /\ Left \in 1 .. Whole /\ Whole \in {19, 23} /\ Done = Whole - Left
      /\ step.kind = Kind /\ step.executor = Executor
  <2>1. Left = 11
    BY <1>1, WhichPosition DEF OnCourse, Position
  <2>2. /\ Left \in 1 .. Whole /\ Whole \in {19, 23} /\ Done = Whole - Left /\ AsPlanned(step)
    BY <1>1, WhichStep DEF OnCourse
  <2> QED BY <2>1, <2>2 DEF AsPlanned
<1>3. Executor \in {"LONG_EXECUTOR", "SHORT_EXECUTOR"} /\ Kind \in Kinds
  BY DEF Executor, Kind, Kinds
<1>4. /\ VOTING_DURATION[Executor] \in Nat /\ PROPOSITION_THRESHOLD[Executor] \in 0 .. 32
  BY <1>3, ForkAssumption
<1>5. block \in Nat /\ now \in Nat /\ now >= block /\ last \in Nat /\ last = now + VOTING_DURATION[Executor]
  BY <1>4, ForkNow
<1>6. Fork!PowerAtBlock(Operator, block) \in Int /\ Fork!PowerAtBlock(Operator, block) >= 32
  <2>1. Done >= 4
    BY <1>2
  <2>2. Fork!Balance(Operator) >= 32
    BY <2>1 DEF OnCourse, Funded
  <2>3. Fork!PowerAtBlock(Operator, block) \in Int
    BY <1>5, PowerIsLast DEF Fork!PowerAtBlock, ForkInv, ForkTypes
  <2> QED BY <2>2, <2>3 DEF Fork!Balance
<1>7. Fork!CreateAccepted(Executor, Operator)
  BY <1>4, <1>6 DEF Fork!CreateAccepted
<1>8. /\ proposals' = Append(proposals, new) /\ block' = now /\ Fork!Proceed(Operator, Run)
      /\ UNCHANGED <<time, transfers, deployed, proxies, approved>>
  BY <1>2, <1>7 DEF Fork!Create, Fork!InBlock, Run
<1>9. Proceeds(Run)
  BY <1>1, <1>8, ForkNow, RehearsalProceeds DEF OnCourse
<1>10. new = [kind |-> Kind, executor |-> Executor,
              implementations |-> Run.implementations, creator |-> Operator,
              startBlock |-> now, endBlock |-> last, forVotes |-> 0, voters |-> {},
              executionTime |-> 0, executed |-> FALSE]
  BY <1>2 DEF Fork!Proposal, Fork!InBlock, Fork!None
<1> HIDE DEF new, step, last, now
<1>11. new \in Proposals
  <2>1. Run.implementations \in [Fork!StakedTokens -> Nat]
    BY ForkNow DEF Rehearsals
  <2> QED BY <1>3, <1>5, <1>10, <2>1 DEF Proposals, Fork!Executors
<1>12. /\ new.kind = Kind /\ new.executor = Executor /\ new.creator = Operator
       /\ new.implementations = Run.implementations
       /\ new.startBlock = now /\ new.endBlock = last /\ new.forVotes = 0 /\ new.voters = {}
       /\ new.executionTime = 0 /\ ~new.executed
  BY <1>10
<1>13. /\ Len(proposals') = Len(proposals) + 1 /\ proposals'[Len(proposals) + 1] = new
       /\ Len(proposals) \in Nat
  BY <1>8, <1>11, AppendProperties DEF ForkInv, ForkTypes
<1>14. Run'.proposalId = Len(proposals) + 1
  <2>1. Done >= 8 /\ Left >= 11
    BY <1>2
  <2>2. Run.proposalId = Len(proposals) + 1
    BY <2>1 DEF OnCourse, BeforeProposal
  <2> QED BY <1>9, <2>2 DEF Proceeds
<1>15. Mine' = new
  BY <1>13, <1>14 DEF Mine
<1>16. Left' = 10 /\ Done \in Nat /\ Done' = Done + 1 /\ Done >= 8 /\ Done' # 5 /\ Done' # 6
  BY <1>2, <1>9 DEF Proceeds
<1>17. Funded'
  BY <1>5, <1>8, <1>16, FundsStay DEF OnCourse
<1>18. BeforeProposal'
  BY <1>16 DEF BeforeProposal
<1>19. /\ Kind' = Kind /\ Executor' = Executor /\ Run'.implementations = Run.implementations
       /\ Rehearsing' /\ OnScript'
  BY <1>9 DEF Proceeds
<1>20. OwnProposal'
  <2>1. Run'.proposalId \in 1 .. Len(proposals')
    BY <1>13, <1>14
  <2>2. /\ Mine'.kind = Kind' /\ Mine'.executor = Executor' /\ Mine'.creator = Operator
        /\ Mine'.implementations = Run'.implementations
        /\ Mine'.endBlock = Mine'.startBlock + VOTING_DURATION[Executor']
    BY <1>5, <1>12, <1>15, <1>19
  <2> QED BY <2>1, <2>2 DEF OwnProposal
<1>21. Votes'
  <2>1. Fork!PowerAtBlock(Operator, Mine.startBlock)' = Fork!PowerAtBlock(Operator, now)
    BY <1>8, <1>12, <1>15 DEF Fork!PowerAtBlock, Fork!PowerAfter, Fork!Held, Fork!Moved
  <2>2. Fork!PowerAtBlock(Operator, now) = Fork!PowerAtBlock(Operator, block)
    BY <1>5, PowerStays
  <2>3. Fork!PowerAtBlock(Operator, Mine.startBlock)' >= 32
    BY <1>6, <2>1, <2>2
  <2> QED BY <1>12, <1>15, <1>16, <2>3 DEF Votes
<1>22. OnTime'
  BY <1>8, <1>12, <1>15, <1>16 DEF OnTime
<1>23. Executes'
  BY <1>12, <1>15, <1>16 DEF Executes
<1> QED BY <1>17, <1>18, <1>19, <1>20, <1>21, <1>22, <1>23 DEF OnCourse, Rehearsing

(* A step changes the rehearsal's own proposal, and not what it is about.  *)
LEMMA MineChanges ==
  ASSUME ForkInv, Rehearsing, OnCourse, NEW changed \in Proposals,
         proposals' = [proposals EXCEPT ![Run.proposalId] = changed],
         changed.kind = Mine.kind, changed.executor = Mine.executor,
         changed.creator = Mine.creator, changed.implementations = Mine.implementations,
         changed.startBlock = Mine.startBlock, changed.endBlock = Mine.endBlock,
         Proceeds(Run), Left \in 1 .. 10, Whole \in {19, 23}, Done = Whole - Left,
         UNCHANGED transfers, block' = block + 1
  PROVE  /\ OnScript' /\ Funded' /\ BeforeProposal' /\ OwnProposal'
         /\ Mine' = changed /\ Executor' = Executor /\ Extends' = Extends /\ Left' = Left - 1
         /\ Rehearsing' /\ Run'.implementations = Run.implementations
<1>1. /\ Left' = Left - 1 /\ Kind' = Kind /\ Executor' = Executor /\ Extends' = Extends
      /\ Run'.proposalId = Run.proposalId /\ Run'.implementations = Run.implementations
      /\ Rehearsing' /\ OnScript' /\ Done' = Done + 1
  BY DEF Proceeds
<1>2. Done \in Nat /\ Done >= 9 /\ Left <= 10 /\ Left' <= 10
  BY <1>1
<1>3. Funded'
  BY <1>1, <1>2, FundsStay, ForkNow DEF OnCourse
<1>4. BeforeProposal'
  <2>1. Done' # 5 /\ Done' # 6 /\ ~(Left' >= 11)
    BY <1>1, <1>2
  <2> QED BY <2>1 DEF BeforeProposal
<1>5. proposals \in Seq(Proposals) /\ Run.proposalId \in 1 .. Len(proposals)
  BY <1>2 DEF OnCourse, OwnProposal, ForkInv, ForkTypes
<1>6. Len(proposals') = Len(proposals) /\ proposals'[Run.proposalId] = changed
  BY <1>5, ExceptSeq
<1>7. Mine' = changed
  BY <1>1, <1>6 DEF Mine
<1>8. OwnProposal'
  <2>1. /\ Mine.kind = Kind /\ Mine.executor = Executor /\ Mine.creator = Operator
        /\ Mine.implementations = Run.implementations
        /\ Mine.endBlock = Mine.startBlock + VOTING_DURATION[Executor]
    BY <1>2 DEF OnCourse, OwnProposal
  <2>2. Run'.proposalId \in 1 .. Len(proposals')
    BY <1>1, <1>5, <1>6
  <2>3. /\ Mine'.kind = Kind' /\ Mine'.executor = Executor' /\ Mine'.creator = Operator
        /\ Mine'.implementations = Run'.implementations
        /\ Mine'.endBlock = Mine'.startBlock + VOTING_DURATION[Executor']
    BY <1>1, <1>7, <2>1
  <2> QED BY <2>2, <2>3 DEF OwnProposal
<1> QED BY <1>1, <1>3, <1>4, <1>7, <1>8

(* The vote is cast while the voting lasts, with what the whales sent.     *)
LEMMA CourseVotes ==
  ASSUME ForkInv, Rehearsing, OnCourse, Fork!SubmitVote(Operator), UNCHANGED network
  PROVE  /\ OnCourse'
         /\ Run'.status # "thrown"
<1> DEFINE id == Run.proposalId
           power == Fork!PowerAtBlock(Operator, Mine.startBlock)
           votes == Mine.forVotes + power
           voters == Mine.voters \union {Operator}
           changed == [Mine EXCEPT !.voters = voters, !.forVotes = votes]
<1>1. Fork!AtStep(Operator, "vote")
  BY DEF Fork!SubmitVote
<1>2. /\ Left = 7 /\ Left <= 10 /\ Left \in 1 .. Whole /\ Whole \in {19, 23} /\ Done = Whole - Left
      /\ Fork!Voter(Operator) = Operator
  <2>1. Left = 7
    BY <1>1, WhichPosition DEF OnCourse, Position
  <2>2. /\ Left \in 1 .. Whole /\ Whole \in {19, 23} /\ Done = Whole - Left
        /\ AsPlanned(Fork!Step(Operator))
    BY <1>1, WhichStep DEF OnCourse
  <2>3. Fork!Voter(Operator) = Operator
    BY <2>1, <2>2 DEF AsPlanned, Fork!Voter
  <2>4. Left <= 10
    BY <2>1
  <2> QED BY <2>1, <2>2, <2>3, <2>4
<1>3. /\ Mine \in Proposals /\ Mine.startBlock \in Nat /\ Mine.endBlock \in Nat
      /\ VOTING_DURATION[Executor] \in Nat /\ VOTING_DURATION[Executor] >= 2
      /\ Mine.endBlock = Mine.startBlock + VOTING_DURATION[Executor]
  BY <1>2, MineDated DEF OnCourse
<1>4. /\ Mine.startBlock <= block /\ block <= Mine.startBlock + 1 /\ block \in Nat
      /\ Mine.voters = {} /\ Mine.forVotes = 0 /\ power >= 32
      /\ Mine.executionTime = 0 /\ ~Mine.executed
  BY <1>2, ForkNow DEF OnCourse, OnTime, Votes, Executes
<1>5. power \in Int
  BY <1>3, PowerIsLast DEF Fork!PowerAtBlock, ForkInv, ForkTypes
<1>6. proposals \in Seq(Proposals) /\ id \in 1 .. Len(proposals)
  BY <1>2 DEF OnCourse, OwnProposal, ForkInv, ForkTypes
<1>7. Fork!VoteAccepted(id, Operator)
  <2>1. block + 1 > Mine.startBlock /\ block + 1 <= Mine.endBlock
    BY <1>3, <1>4
  <2> QED BY <1>4, <1>6, <2>1 DEF Fork!VoteAccepted, Fork!InBlock, Mine
<1>8. /\ proposals' = [proposals EXCEPT ![id] = changed] /\ block' = block + 1
      /\ Fork!Proceed(Operator, Run)
      /\ UNCHANGED <<time, transfers, deployed, proxies, approved>>
  BY <1>2, <1>7 DEF Fork!SubmitVote, Fork!InBlock, Run, Mine
<1>9. Proceeds(Run)
  BY <1>1, <1>8, ForkNow, RehearsalProceeds DEF OnCourse
<1>10. votes \in Int /\ votes >= 32
  BY <1>4, <1>5
<1>11. voters \in SUBSET Voters
  BY <1>4 DEF Voters
<1> HIDE DEF votes, voters
<1>12. /\ changed \in Proposals /\ changed.kind = Mine.kind /\ changed.executor = Mine.executor
       /\ changed.creator = Mine.creator /\ changed.implementations = Mine.implementations
       /\ changed.startBlock = Mine.startBlock /\ changed.endBlock = Mine.endBlock
       /\ changed.forVotes = votes /\ changed.executionTime = Mine.executionTime
       /\ changed.executed = Mine.executed
  BY <1>3, <1>10, <1>11 DEF Proposals
<1> HIDE DEF changed
<1>13. Left \in 1 .. 10
  BY <1>2
<1>14. /\ OnScript' /\ Funded' /\ BeforeProposal' /\ OwnProposal'
       /\ Mine' = changed /\ Executor' = Executor /\ Extends' = Extends /\ Left' = Left - 1
       /\ Rehearsing' /\ Run'.implementations = Run.implementations
  BY <1>2, <1>8, <1>9, <1>12, <1>13, MineChanges
<1>15. Left' = 6
  BY <1>2, <1>14
<1>16. Votes'
  BY <1>10, <1>12, <1>14, <1>15 DEF Votes
<1>17. OnTime'
  <2>1. block' > Mine'.startBlock
    BY <1>3, <1>4, <1>8, <1>12, <1>14
  <2> QED BY <1>15, <2>1 DEF OnTime
<1>18. Executes'
  BY <1>4, <1>12, <1>14, <1>15 DEF Executes
<1> QED BY <1>14, <1>16, <1>17, <1>18 DEF OnCourse, Rehearsing

(* It is queued after the voting, and it has won. *)
LEMMA CourseQueues ==
  ASSUME ForkInv, Rehearsing, OnCourse, Fork!Queue(Operator), UNCHANGED network
  PROVE  /\ OnCourse'
         /\ Run'.status # "thrown"
<1> DEFINE id == Run.proposalId
           when == time + DELAY[Executor]
           changed == [Mine EXCEPT !.executionTime = when]
<1>1. Fork!AtStep(Operator, "queue")
  BY DEF Fork!Queue
<1>2. /\ Left = 3 /\ Left <= 10 /\ Left \in 1 .. Whole /\ Whole \in {19, 23} /\ Done = Whole - Left
  <2>1. Left = 3
    BY <1>1, WhichPosition DEF OnCourse, Position
  <2>2. /\ Left \in 1 .. Whole /\ Whole \in {19, 23} /\ Done = Whole - Left
    BY <1>1, WhichStep DEF OnCourse
  <2>3. Left <= 10
    BY <2>1
  <2> QED BY <2>1, <2>2, <2>3
<1>3. /\ Mine \in Proposals /\ Mine.startBlock \in Nat /\ Mine.endBlock \in Nat
      /\ Mine.forVotes \in Int /\ DELAY[Executor] \in Nat /\ Mine.executor = Executor
  BY <1>2, MineDated DEF OnCourse, OwnProposal
<1>4. /\ block >= Mine.endBlock /\ block \in Nat /\ time \in Nat
      /\ Mine.forVotes >= 32 /\ Mine.executionTime = 0 /\ ~Mine.executed
  BY <1>2, ForkNow DEF OnCourse, OnTime, Votes, Executes
<1>5. proposals \in Seq(Proposals) /\ id \in 1 .. Len(proposals)
  BY <1>2 DEF OnCourse, OwnProposal, ForkInv, ForkTypes
<1>6. MINIMUM_QUORUM[Executor] \in 0 .. 32
  BY ForkAssumption DEF Executor
<1>7. Fork!QueueAccepted(id)
  <2>1. block + 1 > Mine.endBlock /\ Mine.forVotes >= MINIMUM_QUORUM[Mine.executor]
    BY <1>3, <1>4, <1>6
  <2> QED BY <1>4, <1>5, <2>1 DEF Fork!QueueAccepted, Fork!InBlock, Fork!None, Mine
<1>8. /\ proposals' = [proposals EXCEPT ![id] = changed] /\ block' = block + 1
      /\ Fork!Proceed(Operator, Run)
      /\ UNCHANGED <<time, transfers, deployed, proxies, approved>>
  BY <1>3, <1>7 DEF Fork!Queue, Fork!InBlock, Run, Mine
<1>9. Proceeds(Run)
  BY <1>1, <1>8, ForkNow, RehearsalProceeds DEF OnCourse
<1>10. when \in Nat
  BY <1>3, <1>4
<1>11. /\ changed \in Proposals /\ changed.kind = Mine.kind /\ changed.executor = Mine.executor
       /\ changed.creator = Mine.creator /\ changed.implementations = Mine.implementations
       /\ changed.startBlock = Mine.startBlock /\ changed.endBlock = Mine.endBlock
       /\ changed.forVotes = Mine.forVotes /\ changed.executionTime = when
       /\ changed.executed = Mine.executed
  <2> HIDE DEF when
  <2> QED BY <1>3, <1>10 DEF Proposals
<1> HIDE DEF changed
<1>12. Left \in 1 .. 10
  BY <1>2
<1>13. /\ OnScript' /\ Funded' /\ BeforeProposal' /\ OwnProposal'
       /\ Mine' = changed /\ Executor' = Executor /\ Extends' = Extends /\ Left' = Left - 1
       /\ Rehearsing' /\ Run'.implementations = Run.implementations
  BY <1>2, <1>8, <1>9, <1>11, <1>12, MineChanges
<1>14. Left' = 2
  BY <1>2, <1>13
<1>15. Votes'
  BY <1>4, <1>11, <1>13, <1>14 DEF Votes
<1>16. OnTime'
  BY <1>14 DEF OnTime
<1>17. Executes'
  <2>1. Mine'.executionTime = time' + DELAY[Executor'] /\ ~Mine'.executed
    BY <1>4, <1>8, <1>11, <1>13
  <2> QED BY <1>14, <2>1 DEF Executes
<1> QED BY <1>13, <1>15, <1>16, <1>17 DEF OnCourse, Rehearsing

(* It is executed when the delay is over and before the grace period is:   *)
(* only an upgrade that came before can make it throw.                     *)
LEMMA CourseExecutes ==
  ASSUME ForkInv, Rehearsing, OnCourse, Fork!Execute(Operator), UNCHANGED network
  PROVE  /\ Rehearsing' => OnCourse'
         /\ Run'.status = "thrown" => Extends /\ ~Fork!UpgradesAccepted(Run.implementations)
<1> DEFINE id == Run.proposalId
           changed == [Mine EXCEPT !.executed = TRUE]
<1>1. Fork!AtStep(Operator, "execute")
  BY DEF Fork!Execute
<1>2. /\ Left = 1 /\ Left <= 10 /\ Left \in 1 .. Whole /\ Whole \in {19, 23} /\ Done = Whole - Left
  <2>1. Left = 1
    BY <1>1, WhichPosition DEF OnCourse, Position
  <2>2. /\ Left \in 1 .. Whole /\ Whole \in {19, 23} /\ Done = Whole - Left
    BY <1>1, WhichStep DEF OnCourse
  <2>3. Left <= 10
    BY <2>1
  <2> QED BY <2>1, <2>2, <2>3
<1>3. /\ Mine \in Proposals /\ Mine.executionTime \in Nat
      /\ Mine.implementations = Run.implementations /\ Mine.kind = Kind
  BY <1>2, MineDated DEF OnCourse, OwnProposal
<1>4. /\ Mine.executionTime > 0 /\ ~Mine.executed /\ time = Mine.executionTime + 1
      /\ Mine.forVotes >= 32
  BY <1>2 DEF OnCourse, Executes, Votes
<1>5. proposals \in Seq(Proposals) /\ id \in 1 .. Len(proposals)
  BY <1>2 DEF OnCourse, OwnProposal, ForkInv, ForkTypes
<1>6. Mine.kind = "extension" <=> Extends
  BY <1>3 DEF Kind
<1>7. Fork!ExecuteAccepted(id) <=> (Extends => Fork!UpgradesAccepted(Run.implementations))
  <2>1. time >= Mine.executionTime /\ time <= Mine.executionTime + GRACE_PERIOD
        /\ Mine.executionTime # 0
    BY <1>3, <1>4, ForkAssumption
  <2> QED BY <1>3, <1>4, <1>5, <1>6, <2>1 DEF Fork!ExecuteAccepted, Fork!None, Mine
<1>8. CASE ~Fork!ExecuteAccepted(id)
  <2>1. Fork!End(Operator, "thrown")
    BY <1>8 DEF Fork!Execute, Run
  <2>2. Run'.status = "thrown"
    BY <2>1, RunStops, ForkNow DEF ForkInv, Rehearsals
  <2> QED BY <1>7, <1>8, <2>2 DEF Rehearsing
<1>9. CASE Fork!ExecuteAccepted(id)
  <2>1. /\ proposals' = [proposals EXCEPT ![id] = changed] /\ block' = block + 1
        /\ Fork!Proceed(Operator, Run)
        /\ UNCHANGED <<time, transfers, deployed>>
    BY <1>9 DEF Fork!Execute, Fork!InBlock, Run, Mine
  <2>2. /\ Extends => \A t \in Fork!StakedTokens : proxies'[t].implementation = Mine.implementations[t]
        /\ ~Extends => approved' = Fork!StakedTokens
    BY <1>6, <1>9 DEF Fork!Execute, Run, Mine
  <2>3. Proceeds(Run)
    BY <1>1, <2>1, ForkNow, RehearsalProceeds DEF OnCourse
  <2>4. /\ changed \in Proposals /\ changed.kind = Mine.kind /\ changed.executor = Mine.executor
        /\ changed.creator = Mine.creator /\ changed.implementations = Mine.implementations
        /\ changed.startBlock = Mine.startBlock /\ changed.endBlock = Mine.endBlock
        /\ changed.forVotes = Mine.forVotes /\ changed.executed
    BY <1>3 DEF Proposals
  <2> HIDE DEF changed
  <2>5. Left \in 1 .. 10
    BY <1>2
  <2>6. /\ OnScript' /\ Funded' /\ BeforeProposal' /\ OwnProposal'
        /\ Mine' = changed /\ Executor' = Executor /\ Extends' = Extends /\ Left' = Left - 1
        /\ Rehearsing' /\ Run'.implementations = Run.implementations
    BY <1>2, <2>1, <2>3, <2>4, <2>5, MineChanges
  <2>7. Left' = 0
    BY <1>2, <2>6
  <2>8. Votes'
    BY <1>4, <2>4, <2>6, <2>7 DEF Votes
  <2>9. OnTime'
    BY <2>7 DEF OnTime
  <2>10. Executes'
    <3>1. /\ Mine'.executed
          /\ Extends' => \A t \in Fork!StakedTokens : proxies'[t].implementation = Run'.implementations[t]
          /\ ~Extends' => approved' = Fork!StakedTokens
      BY <1>3, <2>2, <2>4, <2>6
    <3> QED BY <2>7, <3>1 DEF Executes, Fork!StakedTokens
  <2> QED BY <2>6, <2>8, <2>9, <2>10 DEF OnCourse, Rehearsing
<1> QED BY <1>8, <1>9

LEMMA ScriptLength ==
  /\ Len(Fork!Script(Extension)) = 23
  /\ Len(Fork!Script(Approval)) = 19
<1>1. /\ VOTING_DURATION["LONG_EXECUTOR"] \in Nat /\ DELAY["LONG_EXECUTOR"] \in Nat
      /\ VOTING_DURATION["SHORT_EXECUTOR"] \in Nat /\ DELAY["SHORT_EXECUTOR"] \in Nat
  BY ForkAssumption
<1>2. Len(Fork!Script(Extension)) = 23
  <2> DEFINE s == Fork!Script(Extension)
             middle == Fork!ProposalStkExtensions
  <2>1. s = Opening \o middle \o Fork!AdvanceBlockTo(1)
              \o Fork!VoteQueueExecute(VOTING_DURATION["LONG_EXECUTOR"], DELAY["LONG_EXECUTOR"])
    BY DEF Extension, Fork!Script, Fork!ProposalStkLayExtensionTenderly, Opening
  <2>2. middle \in Scripts /\ Len(middle) = 5
    BY ExtensionMiddle
  <2> HIDE DEF s, middle
  <2>3. WholeSteps(s, middle, VOTING_DURATION["LONG_EXECUTOR"], DELAY["LONG_EXECUTOR"])
    BY <1>1, <2>1, <2>2, WholeScript
  <2>4. Len(s) = Len(middle) + 18
    BY <2>3 DEF WholeSteps
  <2>5. Len(s) = 23
    BY <2>2, <2>4
  <2> QED BY <2>5 DEF s
<1>3. Len(Fork!Script(Approval)) = 19
  <2> DEFINE s == Fork!Script(Approval)
             middle == Fork!ProposalVaultApproval
  <2>1. s = Opening \o middle \o Fork!AdvanceBlockTo(1)
              \o Fork!VoteQueueExecute(VOTING_DURATION["SHORT_EXECUTOR"], DELAY["SHORT_EXECUTOR"])
    BY DEF Approval, Fork!Script, Fork!ProposalVaultApprovalTenderly, Opening
  <2>2. middle \in Scripts /\ Len(middle) = 1
    BY ApprovalMiddle
  <2> HIDE DEF s, middle
  <2>3. WholeSteps(s, middle, VOTING_DURATION["SHORT_EXECUTOR"], DELAY["SHORT_EXECUTOR"])
    BY <1>1, <2>1, <2>2, WholeScript
  <2>4. Len(s) = Len(middle) + 18
    BY <2>3 DEF WholeSteps
  <2>5. Len(s) = 19
    BY <2>2, <2>4
  <2> QED BY <2>5 DEF s
<1> QED BY <1>2, <1>3

LEMMA CourseStarts ==
  ASSUME ForkInv, NEW task \in RehearsalTasks, Fork!Start(Operator, task)
  PROVE  Rehearsing' => OnCourse'
<1> SUFFICES ASSUME Rehearsing' PROVE OnCourse'
  OBVIOUS
<1> DEFINE next == [Fork!NoRun EXCEPT !.status = "running", !.task = task, !.script = Fork!Script(task)]
<1>1. runs' = [runs EXCEPT ![Operator] = next]
  BY DEF Fork!Start
<1>2. next.task = task /\ next.script = Fork!Script(task)
  BY DEF Fork!NoRun
<1> HIDE DEF next
<1>3. Run' = next
  BY <1>1 DEF ForkInv, ForkTypes, Run
<1>4. Run'.task = task /\ Run'.script = Fork!Script(task) /\ task \in {Extension, Approval}
  BY <1>2, <1>3 DEF Rehearsing
<1>5. Left' = Whole' /\ Whole' \in {19, 23}
  <2>1. CASE task = Extension
    BY <1>4, <2>1, ScriptLength DEF Left, Whole, Extends
  <2>2. CASE task = Approval
    <3>1. Approval # Extension
      BY DEF Approval, Extension
    <3> QED BY <1>4, <2>2, <3>1, ScriptLength DEF Left, Whole, Extends
  <2> QED BY <1>4, <2>1, <2>2
<1>6. OnScript'
  BY <1>4, <1>5 DEF OnScript, FromEnd, Fork!Script
<1>7. Done' = 0
  <2>1. Done' = Whole' - Left'
    BY DEF Done
  <2>2. \/ Whole' = 19 /\ Left' = 19
        \/ Whole' = 23 /\ Left' = 23
    BY <1>5
  <2> QED BY <2>1, <2>2
<1>8. Funded' /\ BeforeProposal'
  BY <1>7 DEF Funded, BeforeProposal
<1>9. Left' \in Nat /\ Left' > 10
  BY <1>5
<1> QED BY <1>6, <1>8, <1>9, NotYetThen DEF OnCourse

(* A run that stops rehearses no more; one that never rehearsed does not   *)
(* begin in the middle.                                                    *)
LEMMA CourseStops ==
  ASSUME ForkInv, Fork!Finish(Operator) \/ Fork!Interrupt(Operator)
  PROVE  ~Rehearsing' /\ Run'.status # "thrown"
<1>1. PICK status \in {"done", "interrupted"} : Fork!End(Operator, status)
  BY DEF Fork!Finish, Fork!Interrupt
<1>2. Run' = [Run EXCEPT !.status = status]
  BY <1>1, RunStops DEF ForkInv
<1>3. Run'.status = status
  BY <1>2, ForkNow DEF Rehearsals
<1> QED BY <1>3 DEF Rehearsing

(* A run keeps its task, and only a running one goes on. *)
LEMMA TaskStays ==
  ASSUME ForkInv, Fork!Continue(Operator)
  PROVE  Run'.task = Run.task /\ Run.status = "running"
<1>1. Run \in Rehearsals /\ runs \in [{Operator} -> Rehearsals] /\ Run = runs[Operator]
  BY ForkNow DEF ForkInv, ForkTypes, Run
<1>2. ASSUME NEW status, Fork!End(Operator, status) PROVE Run'.task = Run.task
  <2> DEFINE next == [Run EXCEPT !.status = status]
  <2>1. runs' = [runs EXCEPT ![Operator] = next]
    BY <1>1, <1>2 DEF Fork!End
  <2>2. next.task = Run.task
    BY <1>1 DEF Rehearsals
  <2> HIDE DEF next
  <2> QED BY <1>1, <2>1, <2>2 DEF Run
<1>3. ASSUME NEW run, run.task = Run.task, DOMAIN run = DOMAIN Run,
             Fork!Proceed(Operator, run)
      PROVE  Run'.task = Run.task
  <2> DEFINE next == [run EXCEPT !.script = Tail(@)]
  <2>1. runs' = [runs EXCEPT ![Operator] = next]
    BY <1>3 DEF Fork!Proceed
  <2>2. next.task = run.task
    OBVIOUS
  <2> HIDE DEF next
  <2> QED BY <1>1, <1>3, <2>1, <2>2 DEF Run
<1>4. ASSUME NEW target PROVE /\ [Run EXCEPT !.target = target].task = Run.task
                              /\ DOMAIN [Run EXCEPT !.target = target] = DOMAIN Run
  BY <1>1 DEF Rehearsals
<1>5. ASSUME NEW pending PROVE /\ [Run EXCEPT !.pending = pending].task = Run.task
                               /\ DOMAIN [Run EXCEPT !.pending = pending] = DOMAIN Run
  BY <1>1 DEF Rehearsals
<1>6. ASSUME NEW id PROVE /\ [Run EXCEPT !.proposalId = id].task = Run.task
                          /\ DOMAIN [Run EXCEPT !.proposalId = id] = DOMAIN Run
  BY <1>1 DEF Rehearsals
<1>7. ASSUME NEW named PROVE /\ [Run EXCEPT !.implementations = named].task = Run.task
                             /\ DOMAIN [Run EXCEPT !.implementations = named] = DOMAIN Run
  BY <1>1 DEF Rehearsals
<1>8. Run.status = "running"
  BY DEF Fork!Continue, Fork!SendTransaction, Fork!Transfer, Fork!DeployImplementation, Fork!Verify,
         Fork!GetProposalsCount, Fork!HardcodedProposal, Fork!Create, Fork!SubmitVote, Fork!Queue,
         Fork!Execute, Fork!Target, Fork!CurrentBlock, Fork!Advance, Fork!IncreaseTime, Fork!Finish,
         Fork!AtStep, Fork!Running, Run
<1>9. CASE \/ Fork!SendTransaction(Operator) \/ Fork!Transfer(Operator) \/ Fork!Verify(Operator)
           \/ Fork!Create(Operator) \/ Fork!SubmitVote(Operator) \/ Fork!Queue(Operator)
           \/ Fork!Execute(Operator) \/ Fork!IncreaseTime(Operator) \/ Fork!Finish(Operator)
  <2>1. Fork!Proceed(Operator, Run) \/ \E status : Fork!End(Operator, status)
    BY <1>9 DEF Fork!SendTransaction, Fork!Transfer, Fork!Verify, Fork!Create, Fork!SubmitVote,
                Fork!Queue, Fork!Execute, Fork!IncreaseTime, Fork!Finish, Run
  <2>2. CASE Fork!Proceed(Operator, Run)
    BY <1>3, <1>8, <2>2
  <2>3. CASE \E status : Fork!End(Operator, status)
    BY <1>2, <1>8, <2>3
  <2> QED BY <2>1, <2>2, <2>3
<1>10. CASE Fork!DeployImplementation(Operator)
  <2>1. \E named : Fork!Proceed(Operator, [Run EXCEPT !.implementations = named])
    BY <1>10 DEF Fork!DeployImplementation, Run
  <2>2. PICK named : Fork!Proceed(Operator, [Run EXCEPT !.implementations = named])
    BY <2>1
  <2> DEFINE next == [Run EXCEPT !.implementations = named]
  <2>3. next.task = Run.task /\ DOMAIN next = DOMAIN Run /\ Fork!Proceed(Operator, next)
    BY <1>7, <2>2
  <2> HIDE DEF next
  <2> QED BY <1>3, <1>8, <2>3
<1>11. CASE Fork!GetProposalsCount(Operator) \/ Fork!HardcodedProposal(Operator)
  <2>1. \E id : Fork!Proceed(Operator, [Run EXCEPT !.proposalId = id])
    BY <1>11 DEF Fork!GetProposalsCount, Fork!HardcodedProposal, Run
  <2>2. PICK id : Fork!Proceed(Operator, [Run EXCEPT !.proposalId = id])
    BY <2>1
  <2> DEFINE next == [Run EXCEPT !.proposalId = id]
  <2>3. next.task = Run.task /\ DOMAIN next = DOMAIN Run /\ Fork!Proceed(Operator, next)
    BY <1>6, <2>2
  <2> HIDE DEF next
  <2> QED BY <1>3, <1>8, <2>3
<1>12. CASE Fork!Target(Operator)
  <2>1. \E target : Fork!Proceed(Operator, [Run EXCEPT !.target = target])
    BY <1>12 DEF Fork!Target, Run
  <2>2. PICK target : Fork!Proceed(Operator, [Run EXCEPT !.target = target])
    BY <2>1
  <2> DEFINE next == [Run EXCEPT !.target = target]
  <2>3. next.task = Run.task /\ DOMAIN next = DOMAIN Run /\ Fork!Proceed(Operator, next)
    BY <1>4, <2>2
  <2> HIDE DEF next
  <2> QED BY <1>3, <1>8, <2>3
<1>13. CASE Fork!CurrentBlock(Operator)
  <2>1. \/ \E pending : Fork!Proceed(Operator, [Run EXCEPT !.pending = pending])
        \/ Fork!Proceed(Operator, Run)
        \/ \E status : Fork!End(Operator, status)
    BY <1>13 DEF Fork!CurrentBlock, Run
  <2>2. CASE \E pending : Fork!Proceed(Operator, [Run EXCEPT !.pending = pending])
    <3>1. PICK pending : Fork!Proceed(Operator, [Run EXCEPT !.pending = pending])
      BY <2>2
    <3> DEFINE next == [Run EXCEPT !.pending = pending]
    <3>2. next.task = Run.task /\ DOMAIN next = DOMAIN Run /\ Fork!Proceed(Operator, next)
      BY <1>5, <3>1
    <3> HIDE DEF next
    <3> QED BY <1>3, <1>8, <3>2
  <2>3. CASE Fork!Proceed(Operator, Run)
    BY <1>3, <1>8, <2>3
  <2>4. CASE \E status : Fork!End(Operator, status)
    BY <1>2, <1>8, <2>4
  <2> QED BY <2>1, <2>2, <2>3, <2>4
<1>14. CASE Fork!Advance(Operator)
  <2>1. \/ UNCHANGED runs \/ Fork!Proceed(Operator, Run)
        \/ \E status : Fork!End(Operator, status)
    BY <1>14 DEF Fork!Advance, Run
  <2>2. CASE UNCHANGED runs
    BY <1>8, <2>2 DEF Run
  <2>3. CASE Fork!Proceed(Operator, Run)
    BY <1>3, <1>8, <2>3
  <2>4. CASE \E status : Fork!End(Operator, status)
    BY <1>2, <1>8, <2>4
  <2> QED BY <2>1, <2>2, <2>3, <2>4
<1> QED BY <1>8, <1>9, <1>10, <1>11, <1>12, <1>13, <1>14 DEF Fork!Continue

LEMMA CourseGoesOn ==
  ASSUME ForkInv, Course, Fork!Continue(Operator), UNCHANGED network
  PROVE  Course'
<1> SUFFICES ASSUME Rehearsing' PROVE OnCourse'
  BY DEF Course
<1>1. Rehearsing /\ OnCourse
  BY TaskStays DEF Rehearsing, Course
<1>2. ~Fork!HardcodedProposal(Operator)
  <2> SUFFICES ASSUME Fork!HardcodedProposal(Operator) PROVE FALSE
    OBVIOUS
  <2>1. Fork!AtStep(Operator, "the first")
    BY DEF Fork!HardcodedProposal
  <2>2. Position("the first")
    BY <1>1, <2>1, WhichPosition DEF OnCourse
  <2> QED BY <2>2 DEF Position
<1> QED BY <1>1, <1>2, CourseTransacts, CourseTransfers, CourseDeploys, CourseCounts, CourseCreates,
           CourseVotes, CourseQueues, CourseExecutes, CourseTargets, CourseReadsBlock,
           CourseAdvances, CourseTimes, CourseStops DEF Fork!Continue

LEMMA CourseUnchanged ==
  ASSUME Course, UNCHANGED forkVars
  PROVE  Course'
<1>1. UNCHANGED <<network, block, time, transfers, proxies, approved, proposals, runs>>
  BY DEF forkVars
<1>2. /\ Run' = Run /\ Left' = Left /\ Done' = Done /\ Whole' = Whole
      /\ Kind' = Kind /\ Executor' = Executor /\ Extends' = Extends
      /\ Rehearsing' = Rehearsing /\ OnScript' = OnScript
  BY <1>1, RunWaits
<1>3. Mine' = Mine
  BY <1>1, <1>2 DEF Mine
<1>4. /\ Fork!Balance(Operator)' = Fork!Balance(Operator)
      /\ Fork!PowerAtBlock(Operator, Mine.startBlock)' = Fork!PowerAtBlock(Operator, Mine.startBlock)
  BY <1>1, <1>3 DEF Fork!Balance, Fork!PowerAtBlock, Fork!PowerAfter, Fork!Held, Fork!Moved
<1>5. Funded' = Funded
  BY <1>2, <1>4 DEF Funded
<1>6. BeforeProposal' = BeforeProposal
  BY <1>1, <1>2 DEF BeforeProposal
<1>7. OwnProposal' = OwnProposal
  BY <1>1, <1>2, <1>3 DEF OwnProposal
<1>8. Votes' = Votes
  BY <1>2, <1>3, <1>4 DEF Votes
<1>9. OnTime' = OnTime
  BY <1>1, <1>2, <1>3 DEF OnTime
<1>10. Executes' = Executes
  BY <1>1, <1>2, <1>3 DEF Executes, Fork!StakedTokens
<1> QED BY <1>2, <1>5, <1>6, <1>7, <1>8, <1>9, <1>10 DEF Course, OnCourse

(* Where a rehearsal is, everything it will need is in place. *)
THEOREM CourseKept == TasksSpec => []Course
<1>1. TasksInit => Course
  <2> SUFFICES ASSUME TasksInit PROVE ~Rehearsing
    BY DEF Course
  <2>1. Run = Fork!NoRun
    BY DEF TasksInit, Fork!Init, Run
  <2> QED BY <2>1 DEF Rehearsing, Fork!NoRun
<1>2. ForkInv /\ Course /\ [TasksNext]_tasksVars => Course'
  <2> SUFFICES ASSUME ForkInv, Course, [TasksNext]_tasksVars PROVE Course'
    OBVIOUS
  <2>1. CASE Rehearses
    <3>1. UNCHANGED network
      BY <2>1 DEF Rehearses, Fork!Next
    <3>2. \/ \E task \in RehearsalTasks : Fork!Start(Operator, task)
          \/ Fork!Continue(Operator) \/ Fork!Interrupt(Operator)
      BY <2>1 DEF Rehearses, Fork!Next
    <3> QED BY <3>1, <3>2, CourseStarts, CourseGoesOn, CourseStops DEF Course
  <2>2. CASE UNCHANGED forkVars
    BY <2>2, CourseUnchanged
  <2> QED BY <2>1, <2>2 DEF TasksNext, tasksVars, Verifies, Redeems, DeploysPool
<1> QED BY <1>1, <1>2, ForkInductive, PTL DEF TasksSpec

(* A rehearsal that comes to its end has executed the proposal it made     *)
(* itself, for every length of the voting, delay, quorum and threshold.    *)
THEOREM RehearsalsExecute == TasksSpec => FinishedMeansExecuted
<1>1. ForkInv /\ Course /\ [TasksNext]_tasksVars =>
        [\A o \in {Operator}, kind \in {"extension", "approval"} :
           Fork!Finish(o) /\ Fork!Rehearses(o, kind) =>
             LET proposal == proposals[runs[o].proposalId]
             IN /\ proposal.executed /\ proposal.kind = kind /\ proposal.creator = o
                /\ kind = "approval" => approved = Fork!StakedTokens
                /\ kind = "extension" =>
                     \A t \in Fork!StakedTokens :
                       proxies[t].implementation = runs[o].implementations[t]]_forkVars
  <2> SUFFICES ASSUME ForkInv, Course, NEW kind \in {"extension", "approval"},
                      Fork!Finish(Operator), Fork!Rehearses(Operator, kind)
               PROVE  /\ Mine.executed /\ Mine.kind = kind /\ Mine.creator = Operator
                      /\ kind = "approval" => approved = Fork!StakedTokens
                      /\ kind = "extension" =>
                           \A t \in Fork!StakedTokens :
                             proxies[t].implementation = Run.implementations[t]
    BY DEF Mine, Run
  <2>1. Rehearsing /\ Run.script = <<>> /\ Kind = kind
    BY DEF Fork!Finish, Fork!Running, Fork!Rehearses, Run, Rehearsing, Extension, Approval, Kind, Extends
  <2>2. Left = 0
    BY <2>1 DEF Left
  <2>3. OwnProposal /\ Executes
    BY <2>1 DEF Course, OnCourse
  <2> QED BY <2>1, <2>2, <2>3 DEF OwnProposal, Executes, Kind
<1> QED BY <1>1, ForkInductive, CourseKept, PTL
        DEF TasksSpec, FinishedMeansExecuted, Fork!FinishedMeansExecuted, Fork!vars, forkVars,
            Fork!StakedTokens

(* Steps that do not throw, whatever they find. *)
LEMMA StatusStays ==
  ASSUME ForkInv,
         \/ Fork!SendTransaction(Operator) \/ Fork!DeployImplementation(Operator)
         \/ Fork!GetProposalsCount(Operator) \/ Fork!HardcodedProposal(Operator)
         \/ Fork!Target(Operator) \/ Fork!IncreaseTime(Operator)
  PROVE  Run'.status = Run.status
<1>1. Run \in Rehearsals /\ runs \in [{Operator} -> Rehearsals] /\ Run = runs[Operator]
  BY ForkNow DEF ForkInv, ForkTypes, Run
<1>2. ASSUME NEW run, run.status = Run.status, DOMAIN run = DOMAIN Run,
             Fork!Proceed(Operator, run)
      PROVE  Run'.status = Run.status
  <2> DEFINE next == [run EXCEPT !.script = Tail(@)]
  <2>1. runs' = [runs EXCEPT ![Operator] = next]
    BY <1>2 DEF Fork!Proceed
  <2>2. next.status = run.status
    OBVIOUS
  <2> HIDE DEF next
  <2> QED BY <1>1, <1>2, <2>1, <2>2 DEF Run
<1>3. CASE Fork!SendTransaction(Operator) \/ Fork!IncreaseTime(Operator)
  <2>1. Fork!Proceed(Operator, Run)
    BY <1>3 DEF Fork!SendTransaction, Fork!IncreaseTime, Run
  <2> QED BY <1>2, <2>1
<1>4. CASE Fork!DeployImplementation(Operator)
  <2>1. \E named : Fork!Proceed(Operator, [Run EXCEPT !.implementations = named])
    BY <1>4 DEF Fork!DeployImplementation, Run
  <2>2. PICK named : Fork!Proceed(Operator, [Run EXCEPT !.implementations = named])
    BY <2>1
  <2> DEFINE next == [Run EXCEPT !.implementations = named]
  <2>3. next.status = Run.status /\ DOMAIN next = DOMAIN Run /\ Fork!Proceed(Operator, next)
    BY <1>1, <2>2 DEF Rehearsals
  <2> HIDE DEF next
  <2> QED BY <1>2, <2>3
<1>5. CASE Fork!GetProposalsCount(Operator) \/ Fork!HardcodedProposal(Operator)
  <2>1. \E id : Fork!Proceed(Operator, [Run EXCEPT !.proposalId = id])
    BY <1>5 DEF Fork!GetProposalsCount, Fork!HardcodedProposal, Run
  <2>2. PICK id : Fork!Proceed(Operator, [Run EXCEPT !.proposalId = id])
    BY <2>1
  <2> DEFINE next == [Run EXCEPT !.proposalId = id]
  <2>3. next.status = Run.status /\ DOMAIN next = DOMAIN Run /\ Fork!Proceed(Operator, next)
    BY <1>1, <2>2 DEF Rehearsals
  <2> HIDE DEF next
  <2> QED BY <1>2, <2>3
<1>6. CASE Fork!Target(Operator)
  <2>1. \E target : Fork!Proceed(Operator, [Run EXCEPT !.target = target])
    BY <1>6 DEF Fork!Target, Run
  <2>2. PICK target : Fork!Proceed(Operator, [Run EXCEPT !.target = target])
    BY <2>1
  <2> DEFINE next == [Run EXCEPT !.target = target]
  <2>3. next.status = Run.status /\ DOMAIN next = DOMAIN Run /\ Fork!Proceed(Operator, next)
    BY <1>1, <2>2 DEF Rehearsals
  <2> HIDE DEF next
  <2> QED BY <1>2, <2>3
<1> QED BY <1>3, <1>4, <1>5, <1>6

LEMMA ThrowsFor ==
  ASSUME ForkInv, OnCourse, Rehearsing, Fork!Next, Run'.status = "thrown"
  PROVE  \/ Fork!AtStep(Operator, "transfer") \/ Fork!AtStep(Operator, "verify")
         \/ Fork!AtStep(Operator, "execute") /\ Extends
            /\ ~Fork!UpgradesAccepted(Run.implementations)
<1>1. UNCHANGED network
  BY DEF Fork!Next
<1>2. Fork!Continue(Operator)
  <2>1. ~Fork!Interrupt(Operator)
    BY CourseStops
  <2>2. ASSUME NEW task PROVE ~Fork!Start(Operator, task)
    BY DEF Rehearsing, Fork!Start, Fork!Running, Run
  <2> QED BY <2>1, <2>2 DEF Fork!Next
<1>3. ~(\/ Fork!SendTransaction(Operator) \/ Fork!DeployImplementation(Operator)
        \/ Fork!GetProposalsCount(Operator) \/ Fork!HardcodedProposal(Operator)
        \/ Fork!Target(Operator) \/ Fork!IncreaseTime(Operator))
  BY StatusStays DEF Rehearsing
<1>4. ~Fork!Finish(Operator)
  BY CourseStops
<1>5. CASE Fork!Transfer(Operator) \/ Fork!Verify(Operator)
  BY <1>5 DEF Fork!Transfer, Fork!Verify
<1>6. CASE Fork!Execute(Operator)
  BY <1>1, <1>6, CourseExecutes DEF Fork!Execute
<1>7. ~Fork!Create(Operator) /\ ~Fork!SubmitVote(Operator) /\ ~Fork!Queue(Operator)
  BY <1>1, CourseCreates, CourseVotes, CourseQueues
<1>8. ~Fork!CurrentBlock(Operator) /\ ~Fork!Advance(Operator)
  BY <1>1, CourseReadsBlock, CourseAdvances
<1> QED BY <1>2, <1>3, <1>4, <1>5, <1>6, <1>7, <1>8 DEF Fork!Continue

(* Nothing a rehearsal does comes too early, too late or with too few      *)
(* votes, on a fork of either kind, for every length of the voting, delay, *)
(* quorum and threshold within reach of the whales' LAY.                   *)
THEOREM ScheduleKept == TasksSpec => RehearsalsKeepTheSchedule
<1>1. ForkInv /\ Course /\ [TasksNext]_tasksVars =>
        [\A o \in {Operator}, kind \in {"extension", "approval"} :
           /\ Fork!Running(o) /\ Fork!Rehearses(o, kind) /\ runs'[o].status = "thrown"
           => \/ Fork!AtStep(o, "transfer") \/ Fork!AtStep(o, "verify")
              \/ Fork!AtStep(o, "execute") /\ kind = "extension" /\ ~Fork!UpgradesAccepted(runs[o].implementations)]_forkVars
  <2> SUFFICES ASSUME ForkInv, Course, TasksNext, ~UNCHANGED forkVars,
                      NEW kind \in {"extension", "approval"},
                      Fork!Running(Operator), Fork!Rehearses(Operator, kind),
                      runs'[Operator].status = "thrown"
               PROVE  \/ Fork!AtStep(Operator, "transfer") \/ Fork!AtStep(Operator, "verify")
                      \/ Fork!AtStep(Operator, "execute") /\ kind = "extension"
                         /\ ~Fork!UpgradesAccepted(runs[Operator].implementations)
    BY DEF tasksVars
  <2>1. Rehearsing /\ (Extends => kind = "extension") /\ Run'.status = "thrown"
    BY DEF Fork!Running, Fork!Rehearses, Run, Rehearsing, Extension, Approval, Extends
  <2>2. Fork!Next
    BY DEF TasksNext, Verifies, Rehearses, Redeems, DeploysPool
  <2>3. \/ Fork!AtStep(Operator, "transfer") \/ Fork!AtStep(Operator, "verify")
        \/ Fork!AtStep(Operator, "execute") /\ Extends
           /\ ~Fork!UpgradesAccepted(Run.implementations)
    BY <2>1, <2>2, ThrowsFor DEF Course
  <2> QED BY <2>1, <2>3 DEF Run
<1> QED BY <1>1, ForkInductive, CourseKept, PTL
        DEF TasksSpec, RehearsalsKeepTheSchedule, Fork!RehearsalsKeepTheSchedule, Fork!vars, forkVars

============================================================================
