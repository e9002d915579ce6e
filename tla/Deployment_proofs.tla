------------------------- MODULE Deployment_proofs -------------------------
(***************************************************************************)
(* A proxy only ever runs what it was initialised for, its life is what    *)
(* its holders may count on, and the variables keep their types: for any   *)
(* operators, accounts, tasks with any parameters and any number of runs,  *)
(* though the addresses they work with are whatever the file holds.  What  *)
(* a run does before it sends a transaction does not matter to the first   *)
(* two; the chain and the proxies check enough.  It does matter to what a  *)
(* run that ends well has deployed, and to whether a run that nothing      *)
(* disturbed can fail, which are the last two theorems.                    *)
(***************************************************************************)
EXTENDS Deployment, SequenceTheorems, TLAPS

IsSequence(s) == \E n \in Nat : s \in [1 .. n -> {s[i] : i \in DOMAIN s}]

IsContract(c) ==
  c = [kind |-> c.kind, status |-> c.status, args |-> c.args, sender |-> c.sender,
       implementation |-> c.implementation, admin |-> c.admin,
       lastInitializedRevision |-> c.lastInitializedRevision]

(* A proxy nobody has set up is as it was created. *)
AsCreated(c) ==
  c.implementation = NoAddress => c.admin = NoCode /\ c.lastInitializedRevision = 0

ChainInv ==
  /\ IsSequence(contracts)
  /\ \A a \in DOMAIN contracts : IsContract(contracts[a]) /\ AsCreated(contracts[a])
  /\ RunsWhatItWasInitialisedFor

(* The transactions, and what else happens to the chain. *)
Appends ==
  \E kind, args, sender : contracts' = Append(contracts, Created(kind, args, sender))

Mines ==
  \E a \in DOMAIN contracts, status \in {"mined", "failed"} :
    /\ contracts[a].status = "pending"
    /\ contracts' = [contracts EXCEPT ![a].status = status]

Initializes ==
  \E proxy, implementation, admin :
    /\ InitializeAccepted(proxy, implementation)
    /\ contracts' = SetUpProxy(proxy, implementation, admin)

Upgrades ==
  \E proxy, implementation : \E sender \in Signers :
    /\ UpgradeAccepted(proxy, implementation, sender)
    /\ contracts' = SetUpProxy(proxy, implementation, contracts[proxy].admin)

ChainMoves == Appends \/ Mines \/ Initializes \/ Upgrades \/ UNCHANGED contracts

(* The runs: all that matters of them is who signs. *)
IsRun(r) ==
  r = [status |-> r.status, request |-> r.request, signer |-> r.signer, script |-> r.script,
       disturbed |-> r.disturbed, alone |-> r.alone, instance |-> r.instance,
       implementation |-> r.implementation, proxy |-> r.proxy]

SignsFor(r) == IsRun(r) /\ (r.status = "running" => r.signer \in Signers)

RunInv == runs = [o \in Operators |-> runs[o]] /\ \A o \in Operators : SignsFor(runs[o])

IInv == ChainInv /\ RunInv

----------------------------------------------------------------------------
(* Sequences and the contracts in them. *)

LEMMA AppendToSequence ==
  ASSUME NEW s, IsSequence(s), NEW e
  PROVE  /\ Len(s) \in Nat /\ DOMAIN s = 1 .. Len(s)
         /\ IsSequence(Append(s, e))
         /\ DOMAIN Append(s, e) = 1 .. (Len(s) + 1)
         /\ \A i \in DOMAIN s : Append(s, e)[i] = s[i]
         /\ Append(s, e)[Len(s) + 1] = e
<1> DEFINE T == {s[i] : i \in DOMAIN s} \cup {e}
<1>1. s \in Seq(T)
  BY SeqDef DEF IsSequence
<1>2. Append(s, e) \in Seq(T)
  BY <1>1
<1>3. /\ Len(s) \in Nat /\ DOMAIN s = 1 .. Len(s)
      /\ DOMAIN Append(s, e) = 1 .. (Len(s) + 1)
      /\ \A i \in DOMAIN s : Append(s, e)[i] = s[i]
      /\ Append(s, e)[Len(s) + 1] = e
  BY <1>1
<1>4. IsSequence(Append(s, e))
  <2> DEFINE t == Append(s, e)
             n == Len(s) + 1
  <2>1. t \in Seq(T) /\ n \in Nat /\ Len(t) = n
    BY <1>2, <1>3, LenProperties
  <2> HIDE DEF t, T, n
  <2>2. t \in [1 .. n -> T]
    BY <2>1, LenProperties
  <2>3. t = [i \in 1 .. n |-> t[i]] /\ DOMAIN t = 1 .. n
    BY <2>2
  <2>4. t \in [1 .. n -> {t[i] : i \in DOMAIN t}]
    BY <2>3
  <2> QED BY <2>1, <2>3, <2>4 DEF IsSequence, t
<1> QED BY <1>3, <1>4

LEMMA ExceptInSequence ==
  ASSUME NEW s, IsSequence(s), NEW a \in DOMAIN s, NEW e
  PROVE  /\ IsSequence([s EXCEPT ![a] = e])
         /\ DOMAIN [s EXCEPT ![a] = e] = DOMAIN s
         /\ \A i \in DOMAIN s : [s EXCEPT ![a] = e][i] = IF i = a THEN e ELSE s[i]
         /\ a # NoAddress
<1> DEFINE t == [s EXCEPT ![a] = e]
<1>1. PICK n \in Nat : s \in [1 .. n -> {s[i] : i \in DOMAIN s}]
  BY DEF IsSequence
<1>2. /\ DOMAIN t = 1 .. n /\ DOMAIN s = 1 .. n /\ t = [i \in 1 .. n |-> t[i]]
      /\ \A i \in DOMAIN s : t[i] = IF i = a THEN e ELSE s[i]
  BY <1>1
<1> HIDE DEF t
<1>3. t \in [1 .. n -> {t[i] : i \in DOMAIN t}]
  BY <1>2
<1>4. IsSequence(t)
  BY <1>2, <1>3 DEF IsSequence
<1> QED BY <1>2, <1>4 DEF t, NoAddress

(* What a contract becomes when it is mined, or set up. *)
LEMMA MinedContract ==
  ASSUME NEW c, IsContract(c), NEW status
  PROVE  LET d == [c EXCEPT !.status = status]
         IN  /\ IsContract(d) /\ d.status = status /\ d.kind = c.kind
             /\ d.implementation = c.implementation /\ d.admin = c.admin
             /\ d.lastInitializedRevision = c.lastInitializedRevision
BY DEF IsContract

AfterSetUp(c, implementation, admin, revision) ==
  [c EXCEPT !.implementation = implementation, !.admin = admin,
            !.lastInitializedRevision = revision]

LEMMA SetUpContract ==
  ASSUME NEW c, IsContract(c), NEW implementation, NEW admin, NEW revision
  PROVE  LET d == AfterSetUp(c, implementation, admin, revision)
         IN  /\ IsContract(d) /\ d.status = c.status /\ d.kind = c.kind
             /\ d.implementation = implementation /\ d.admin = admin
             /\ d.lastInitializedRevision = revision
<1> DEFINE d1 == [c EXCEPT !.implementation = implementation]
           d2 == [d1 EXCEPT !.admin = admin]
           d3 == [d2 EXCEPT !.lastInitializedRevision = revision]
<1>1. /\ IsContract(d1) /\ d1.status = c.status /\ d1.kind = c.kind
      /\ d1.implementation = implementation
  BY DEF IsContract
<1> HIDE DEF d1
<1>2. /\ IsContract(d2) /\ d2.status = c.status /\ d2.kind = c.kind
      /\ d2.implementation = implementation /\ d2.admin = admin
  BY <1>1 DEF IsContract
<1> HIDE DEF d2
<1>3. /\ IsContract(d3) /\ d3.status = c.status /\ d3.kind = c.kind
      /\ d3.implementation = implementation /\ d3.admin = admin
      /\ d3.lastInitializedRevision = revision
  BY <1>2 DEF IsContract
<1> QED BY <1>3 DEF d1, d2, AfterSetUp

LEMMA NewContract ==
  ASSUME NEW kind, NEW args, NEW sender
  PROVE  LET d == Created(kind, args, sender)
         IN  /\ IsContract(d) /\ AsCreated(d) /\ d.status = "pending"
             /\ d.implementation = NoAddress
BY DEF IsContract, AsCreated, Created

(* A proxy is set up for an implementation: it, and nothing else, changes. *)
LEMMA SetUpChanges ==
  ASSUME ChainInv, NEW proxy \in DOMAIN contracts,
         NEW implementation \in DOMAIN contracts, NEW admin,
         contracts' = SetUpProxy(proxy, implementation, admin)
  PROVE  /\ IsSequence(contracts)' /\ DOMAIN contracts' = DOMAIN contracts
         /\ \A a \in DOMAIN contracts : a # proxy => contracts'[a] = contracts[a]
         /\ LET c == contracts[proxy]
                d == contracts'[proxy]
            IN  /\ IsContract(d) /\ d.status = c.status /\ d.kind = c.kind
                /\ d.implementation = implementation /\ d.admin = admin
                /\ d.lastInitializedRevision = Revision[contracts[implementation].kind]
<1> DEFINE revision == Revision[contracts[implementation].kind]
           d == AfterSetUp(contracts[proxy], implementation, admin, revision)
<1>1. contracts' = [contracts EXCEPT ![proxy] = d]
  BY DEF SetUpProxy, AfterSetUp
<1>2. IsSequence(contracts) /\ IsContract(contracts[proxy])
  BY DEF ChainInv
<1> HIDE DEF revision, d
<1>3. /\ IsSequence([contracts EXCEPT ![proxy] = d])
      /\ DOMAIN [contracts EXCEPT ![proxy] = d] = DOMAIN contracts
      /\ \A i \in DOMAIN contracts :
           [contracts EXCEPT ![proxy] = d][i] = IF i = proxy THEN d ELSE contracts[i]
  BY <1>2, ExceptInSequence
<1>4. /\ IsSequence(contracts') /\ DOMAIN contracts' = DOMAIN contracts
      /\ \A i \in DOMAIN contracts : contracts'[i] = IF i = proxy THEN d ELSE contracts[i]
  BY <1>1, <1>3
<1>5. /\ IsContract(d) /\ d.status = contracts[proxy].status /\ d.kind = contracts[proxy].kind
      /\ d.implementation = implementation /\ d.admin = admin
      /\ d.lastInitializedRevision = revision
  BY <1>2, SetUpContract DEF d
<1>6. IsSequence(contracts)' <=> IsSequence(contracts')
  BY DEF IsSequence
<1> QED BY <1>4, <1>5, <1>6 DEF revision

----------------------------------------------------------------------------
(* Each of them keeps the invariant. *)

LEMMA AppendsPreserves == ChainInv /\ Appends => ChainInv'
<1> SUFFICES ASSUME ChainInv, NEW kind, NEW args, NEW sender,
                    contracts' = Append(contracts, Created(kind, args, sender))
             PROVE  ChainInv'
  BY DEF Appends
<1> DEFINE c == Created(kind, args, sender)
           n == Len(contracts) + 1
<1>1. IsContract(c) /\ AsCreated(c) /\ c.implementation = NoAddress
  BY NewContract
<1> HIDE DEF c
<1>2. IsSequence(contracts) /\ contracts' = Append(contracts, c)
  BY DEF ChainInv, c
<1>3. /\ IsSequence(contracts') /\ n \in Nat
      /\ DOMAIN contracts = 1 .. Len(contracts) /\ DOMAIN contracts' = 1 .. n
      /\ \A i \in DOMAIN contracts : contracts'[i] = contracts[i]
      /\ contracts'[n] = c
  BY <1>2, AppendToSequence
<1> HIDE DEF n
<1>4. \A i \in DOMAIN contracts' : i \in DOMAIN contracts \/ i = n
  BY <1>3 DEF n
<1>5. DOMAIN contracts \subseteq DOMAIN contracts'
  BY <1>3 DEF n
<1>6. \A i \in DOMAIN contracts' : IsContract(contracts'[i]) /\ AsCreated(contracts'[i])
  BY <1>1, <1>3, <1>4 DEF ChainInv
<1>7. RunsWhatItWasInitialisedFor'
  <2> SUFFICES ASSUME NEW i \in DOMAIN contracts', contracts'[i].implementation # NoAddress
               PROVE  LET j == contracts'[i].implementation IN
                      /\ contracts'[i].status = "mined" /\ contracts'[i].kind = Proxy
                      /\ j \in DOMAIN contracts' /\ contracts'[j].status = "mined"
                      /\ contracts'[j].kind \in Implementations
                      /\ contracts'[i].lastInitializedRevision = Revision[contracts'[j].kind]
    BY DEF RunsWhatItWasInitialisedFor, IsA, HasCode
  <2>1. i \in DOMAIN contracts /\ contracts'[i] = contracts[i]
    BY <1>1, <1>3, <1>4
  <2>2. LET j == contracts[i].implementation IN
        /\ contracts[i].status = "mined" /\ contracts[i].kind = Proxy
        /\ j \in DOMAIN contracts /\ contracts[j].status = "mined"
        /\ contracts[j].kind \in Implementations
        /\ contracts[i].lastInitializedRevision = Revision[contracts[j].kind]
    BY <2>1 DEF ChainInv, RunsWhatItWasInitialisedFor, IsA, HasCode
  <2> QED BY <1>3, <1>5, <2>1, <2>2
<1>8. IsSequence(contracts)'
  BY <1>3 DEF IsSequence
<1> QED BY <1>6, <1>7, <1>8 DEF ChainInv, IsContract, AsCreated

LEMMA MinesPreserves == ChainInv /\ Mines => ChainInv'
<1> SUFFICES ASSUME ChainInv, NEW a \in DOMAIN contracts, NEW status \in {"mined", "failed"},
                    contracts[a].status = "pending",
                    contracts' = [contracts EXCEPT ![a].status = status]
             PROVE  ChainInv'
  BY DEF Mines
<1> DEFINE d == [contracts[a] EXCEPT !.status = status]
<1>1. /\ IsContract(d) /\ d.status = status /\ d.kind = contracts[a].kind
      /\ d.implementation = contracts[a].implementation /\ d.admin = contracts[a].admin
      /\ d.lastInitializedRevision = contracts[a].lastInitializedRevision
  BY MinedContract DEF ChainInv
<1>2. contracts' = [contracts EXCEPT ![a] = d] /\ IsSequence(contracts)
  BY DEF ChainInv
<1> HIDE DEF d
<1>3. /\ IsSequence([contracts EXCEPT ![a] = d])
      /\ DOMAIN [contracts EXCEPT ![a] = d] = DOMAIN contracts
      /\ \A i \in DOMAIN contracts :
           [contracts EXCEPT ![a] = d][i] = IF i = a THEN d ELSE contracts[i]
  BY <1>2, ExceptInSequence
<1>4. /\ IsSequence(contracts') /\ DOMAIN contracts' = DOMAIN contracts
      /\ \A i \in DOMAIN contracts : contracts'[i] = IF i = a THEN d ELSE contracts[i]
  BY <1>2, <1>3
<1>5. \A i \in DOMAIN contracts : IsContract(contracts'[i]) /\ AsCreated(contracts'[i])
  BY <1>1, <1>4 DEF ChainInv, AsCreated
<1>6. \A i \in DOMAIN contracts :
        contracts[i].status = "mined" => contracts'[i] = contracts[i]
  BY <1>4
<1>7. \A i \in DOMAIN contracts : contracts'[i].implementation = contracts[i].implementation
  BY <1>1, <1>4
<1>8. RunsWhatItWasInitialisedFor'
  BY <1>4, <1>6, <1>7 DEF ChainInv, RunsWhatItWasInitialisedFor, IsA, HasCode
<1>9. IsSequence(contracts)'
  BY <1>4 DEF IsSequence
<1> QED BY <1>4, <1>5, <1>8, <1>9 DEF ChainInv, IsContract, AsCreated

(* Both transactions that set a proxy up: it is one, the code is there, of *)
(* another kind than a proxy.                                              *)
LEMMA SetUpPreserves ==
  ASSUME ChainInv, NEW proxy, NEW implementation, NEW admin,
         IsA(proxy, Proxy), HasCode(implementation),
         contracts[implementation].kind \in Implementations,
         contracts' = SetUpProxy(proxy, implementation, admin)
  PROVE  ChainInv'
<1>1. proxy \in DOMAIN contracts /\ implementation \in DOMAIN contracts
  BY DEF IsA, HasCode
<1>2. implementation # NoAddress
  BY <1>1, ExceptInSequence DEF ChainInv
<1>3. /\ IsSequence(contracts)' /\ DOMAIN contracts' = DOMAIN contracts
      /\ \A a \in DOMAIN contracts : a # proxy => contracts'[a] = contracts[a]
      /\ IsContract(contracts'[proxy])
      /\ contracts'[proxy].status = contracts[proxy].status
      /\ contracts'[proxy].kind = contracts[proxy].kind
      /\ contracts'[proxy].implementation = implementation
      /\ contracts'[proxy].lastInitializedRevision = Revision[contracts[implementation].kind]
  BY <1>1, SetUpChanges
<1>4. \A a \in DOMAIN contracts : /\ contracts'[a].status = contracts[a].status
                                  /\ contracts'[a].kind = contracts[a].kind
  BY <1>1, <1>3
<1>5. \A a \in DOMAIN contracts : IsContract(contracts'[a]) /\ AsCreated(contracts'[a])
  BY <1>2, <1>3 DEF ChainInv, AsCreated
<1>6. RunsWhatItWasInitialisedFor'
  <2> SUFFICES ASSUME NEW a \in DOMAIN contracts, contracts'[a].implementation # NoAddress
               PROVE  LET i == contracts'[a].implementation
                      IN  /\ contracts'[a].status = "mined" /\ contracts'[a].kind = Proxy
                          /\ i \in DOMAIN contracts /\ contracts'[i].status = "mined"
                          /\ contracts'[i].kind \in Implementations
                          /\ contracts'[a].lastInitializedRevision
                               = Revision[contracts'[i].kind]
    BY <1>3 DEF RunsWhatItWasInitialisedFor, IsA, HasCode
  <2>1. CASE a = proxy
    BY <2>1, <1>1, <1>3, <1>4 DEF IsA, HasCode
  <2>2. CASE a # proxy
    <3>1. contracts'[a] = contracts[a]
      BY <2>2, <1>3
    <3>2. /\ IsA(a, Proxy) /\ HasCode(contracts[a].implementation)
          /\ contracts[contracts[a].implementation].kind \in Implementations
          /\ contracts[a].lastInitializedRevision
               = Revision[contracts[contracts[a].implementation].kind]
      BY <3>1 DEF ChainInv, RunsWhatItWasInitialisedFor
    <3> QED BY <3>1, <3>2, <1>3, <1>4 DEF IsA, HasCode
  <2> QED BY <2>1, <2>2
<1> QED BY <1>3, <1>5, <1>6 DEF ChainInv, IsContract, AsCreated

LEMMA ChainMovesPreserves == ChainInv /\ ChainMoves => ChainInv'
<1> SUFFICES ASSUME ChainInv, ChainMoves PROVE ChainInv'
  OBVIOUS
<1>1. CASE Appends
  BY <1>1, AppendsPreserves
<1>2. CASE Mines
  BY <1>2, MinesPreserves
<1>3. CASE Initializes
  <2>1. PICK proxy, implementation, admin :
          /\ InitializeAccepted(proxy, implementation)
          /\ contracts' = SetUpProxy(proxy, implementation, admin)
    BY <1>3 DEF Initializes
  <2>2. /\ IsA(proxy, Proxy) /\ HasCode(implementation)
        /\ contracts[implementation].kind \in Implementations
    BY <2>1 DEF InitializeAccepted, InitializerAccepts, Implementations, Revision
  <2> QED BY <2>1, <2>2, SetUpPreserves
<1>4. CASE Upgrades
  <2>1. PICK proxy, implementation : \E sender \in Signers :
          /\ UpgradeAccepted(proxy, implementation, sender)
          /\ contracts' = SetUpProxy(proxy, implementation, contracts[proxy].admin)
    BY <1>4 DEF Upgrades
  <2>2. /\ IsA(proxy, Proxy) /\ HasCode(implementation)
        /\ contracts[implementation].kind \in Implementations
    BY <2>1 DEF UpgradeAccepted, InitializerAccepts, Implementations, Revision
  <2> QED BY <2>1, <2>2, SetUpPreserves
<1>5. CASE UNCHANGED contracts
  BY <1>5 DEF ChainInv, IsSequence, RunsWhatItWasInitialisedFor, IsA, HasCode, IsContract, AsCreated
<1> QED BY <1>1, <1>2, <1>3, <1>4, <1>5 DEF ChainMoves

(* An empty chain, as in the beginning and in a process of its own. *)
LEMMA EmptyChain == contracts = <<>> => ChainInv
<1> SUFFICES ASSUME contracts = <<>> PROVE ChainInv
  OBVIOUS
<1>1. DOMAIN contracts = {} /\ contracts = [i \in 1 .. 0 |-> contracts[i]]
  BY EmptySeq
<1>2. contracts \in [1 .. 0 -> {contracts[i] : i \in DOMAIN contracts}]
  BY <1>1
<1> QED BY <1>1, <1>2 DEF ChainInv, IsSequence, RunsWhatItWasInitialisedFor

----------------------------------------------------------------------------
(* What the steps of a task do to its run. *)

LEMMA RunChanges ==
  ASSUME NEW r, SignsFor(r), NEW v
  PROVE  /\ SignsFor([r EXCEPT !.script = v]) /\ SignsFor([r EXCEPT !.instance = v])
         /\ SignsFor([r EXCEPT !.implementation = v]) /\ SignsFor([r EXCEPT !.proxy = v])
         /\ SignsFor([r EXCEPT !.disturbed = v]) /\ SignsFor([r EXCEPT !.alone = v])
<1>1. SignsFor([r EXCEPT !.script = v])
  BY DEF SignsFor, IsRun
<1>2. SignsFor([r EXCEPT !.instance = v])
  BY DEF SignsFor, IsRun
<1>3. SignsFor([r EXCEPT !.implementation = v])
  BY DEF SignsFor, IsRun
<1>4. SignsFor([r EXCEPT !.proxy = v])
  BY DEF SignsFor, IsRun
<1>5. SignsFor([r EXCEPT !.disturbed = v])
  BY DEF SignsFor, IsRun
<1>6. SignsFor([r EXCEPT !.alone = v])
  BY DEF SignsFor, IsRun
<1> QED BY <1>1, <1>2, <1>3, <1>4, <1>5, <1>6

LEMMA NoRunIsRun == IsRun(NoRun) /\ NoRun.status = "none"
<1> DEFINE none == [task |-> "none", params |-> NoParameters]
<1> HIDE DEF none
<1>1. NoRun = [status |-> "none", request |-> none,
               signer |-> NoCode, script |-> <<>>, disturbed |-> FALSE, alone |-> TRUE,
               instance |-> NoAddress, implementation |-> NoAddress, proxy |-> NoAddress]
  BY DEF NoRun, none
<1> QED BY <1>1 DEF IsRun

(* How every run is put together, when it starts and when it ends. *)
LEMMA RunMade ==
  ASSUME NEW status, NEW request, NEW signer, status = "running" => signer \in Signers
  PROVE  SignsFor([NoRun EXCEPT !.status = status, !.request = request, !.signer = signer])
<1> DEFINE r1 == [NoRun EXCEPT !.status = status]
           r2 == [r1 EXCEPT !.request = request]
           r3 == [r2 EXCEPT !.signer = signer]
<1>1. IsRun(r1) /\ r1.status = status
  BY NoRunIsRun DEF IsRun
<1> HIDE DEF r1
<1>2. IsRun(r2) /\ r2.status = status
  BY <1>1 DEF IsRun
<1> HIDE DEF r2
<1>3. IsRun(r3) /\ r3.status = status /\ r3.signer = signer
  BY <1>2 DEF IsRun
<1> HIDE DEF r3
<1>4. SignsFor(r3)
  BY <1>3 DEF SignsFor
<1> QED BY <1>4 DEF r1, r2, r3

LEMMA ProceedPreserves ==
  ASSUME RunInv, NEW o \in Operators, NEW run, SignsFor(run), Proceed(o, run)
  PROVE  RunInv'
<1> DEFINE r == [run EXCEPT !.script = Tail(@)]
<1>1. SignsFor(r)
  BY RunChanges
<1>2. runs' = [runs EXCEPT ![o] = r]
  BY DEF Proceed
<1> HIDE DEF r
<1> QED BY <1>1, <1>2 DEF RunInv, SignsFor, IsRun

LEMMA EndPreserves ==
  ASSUME RunInv, NEW o \in Operators, NEW status, status # "running", End(o, status)
  PROVE  RunInv'
<1> DEFINE r == [NoRun EXCEPT !.status = status, !.request = runs[o].request,
                              !.signer = runs[o].signer, !.disturbed = runs[o].disturbed]
<1>1. SignsFor([NoRun EXCEPT !.status = status, !.request = runs[o].request,
                             !.signer = runs[o].signer])
  BY RunMade
<1>2. SignsFor(r)
  BY <1>1, RunChanges
<1>3. runs' = [runs EXCEPT ![o] = r]
  BY DEF End
<1> HIDE DEF r
<1> QED BY <1>2, <1>3 DEF RunInv, SignsFor, IsRun

(* A run begins as one of the signers'. *)
LEMMA StartPreserves ==
  ASSUME RunInv, NEW o \in Operators, NEW request, NEW signer \in Signers,
         Start(o, request, signer)
  PROVE  RunInv'
<1> DEFINE new == [NoRun EXCEPT !.status = "running", !.request = request,
                                !.signer = signer, !.script = Script(request),
                                !.alone = \A other \in Operators : ~Running(other)]
           old(x) == [runs[x] EXCEPT !.alone = @ /\ ~Running(x)]
<1>1. SignsFor(new)
  <2> DEFINE r == [NoRun EXCEPT !.status = "running", !.request = request, !.signer = signer]
             s == [r EXCEPT !.script = Script(request)]
  <2>1. SignsFor(r)
    BY RunMade
  <2>2. SignsFor(s)
    BY <2>1, RunChanges
  <2>3. SignsFor([s EXCEPT !.alone = \A other \in Operators : ~Running(other)])
    BY <2>2, RunChanges
  <2> QED BY <2>3
<1>2. \A x \in Operators : SignsFor(old(x))
  BY RunChanges DEF RunInv
<1>3. runs' = [x \in Operators |-> IF x = o THEN new ELSE old(x)]
  BY DEF Start
<1> HIDE DEF new, old
<1>4. \A x \in Operators : SignsFor(runs'[x])
  BY <1>1, <1>2, <1>3
<1>5. runs' = [x \in Operators |-> runs'[x]]
  BY <1>3
<1> QED BY <1>4, <1>5 DEF RunInv, SignsFor, IsRun

LEMMA MinePreservesRuns ==
  ASSUME RunInv, NEW a, Mine(a)
  PROVE  RunInv'
<1> DEFINE r(o) == [runs[o] EXCEPT !.disturbed = @ \/ runs[o].instance = a]
<1>1. \A o \in Operators : SignsFor(r(o))
  BY RunChanges DEF RunInv
<1>2. runs' = runs \/ runs' = [o \in Operators |-> r(o)]
  BY DEF Mine
<1> HIDE DEF r
<1>3. /\ \A o \in Operators : SignsFor(runs'[o])
      /\ runs' = [o \in Operators |-> runs'[o]]
  BY <1>1, <1>2 DEF RunInv
<1> QED BY <1>3 DEF RunInv, SignsFor, IsRun

----------------------------------------------------------------------------
(* Every step, and the theorem. *)

LEMMA AdvanceMoves ==
  ASSUME RunInv, NEW o \in Operators, Advance(o)
  PROVE  ChainMoves /\ RunInv'
<1> DEFINE Same == UNCHANGED contracts
<1>a. SignsFor(runs[o])
  BY DEF RunInv
<1>b. \A v : /\ SignsFor([runs[o] EXCEPT !.instance = v])
             /\ SignsFor([runs[o] EXCEPT !.implementation = v])
             /\ SignsFor([runs[o] EXCEPT !.proxy = v])
  BY <1>a, RunChanges
<1>1. CASE SendDeployment(o)
  <2>1. CASE ConstructorAccepts(Step(o).kind, Step(o).args)
    <3>1. /\ contracts' = Append(contracts, Created(Step(o).kind, Step(o).args, runs[o].signer))
          /\ Proceed(o, [runs[o] EXCEPT !.instance = Len(contracts) + 1])
      BY <1>1, <2>1 DEF SendDeployment
    <3>2. RunInv'
      BY <3>1, <1>b, ProceedPreserves
    <3> QED BY <3>1, <3>2 DEF ChainMoves, Appends
  <2>2. CASE ~ConstructorAccepts(Step(o).kind, Step(o).args)
    <3>1. End(o, "thrown") /\ UNCHANGED contracts
      BY <1>1, <2>2 DEF SendDeployment
    <3> QED BY <3>1, EndPreserves DEF ChainMoves
  <2> QED BY <2>1, <2>2
<1>2. CASE AwaitDeployment(o)
  <2>1. UNCHANGED contracts /\ (Proceed(o, runs[o]) \/ End(o, "thrown"))
    BY <1>2 DEF AwaitDeployment
  <2> QED BY <2>1, <1>a, ProceedPreserves, EndPreserves DEF ChainMoves
<1>3. CASE Register(o)
  <2>1. UNCHANGED contracts /\ Proceed(o, runs[o])
    BY <1>3 DEF Register
  <2> QED BY <2>1, <1>a, ProceedPreserves DEF ChainMoves
<1>4. CASE Verify(o)
  <2>1. UNCHANGED contracts /\ (Proceed(o, runs[o]) \/ End(o, "thrown"))
    BY <1>4 DEF Verify
  <2> QED BY <2>1, <1>a, ProceedPreserves, EndPreserves DEF ChainMoves
<1>5. CASE GetImplementation(o)
  <2>1. /\ UNCHANGED contracts
        /\ \/ End(o, "thrown")
           \/ Proceed(o, [runs[o] EXCEPT !.implementation = db[Step(o).key]])
    BY <1>5 DEF GetImplementation
  <2>2. RunInv'
    BY <2>1, <1>b, ProceedPreserves, EndPreserves
  <2> QED BY <2>1, <2>2 DEF ChainMoves
<1>6. CASE GetStakedLayProxy(o)
  <2>1. /\ UNCHANGED contracts
        /\ \/ End(o, "thrown")
           \/ Proceed(o, [runs[o] EXCEPT !.proxy = db["StakedLay"]])
    BY <1>6 DEF GetStakedLayProxy
  <2>2. RunInv'
    BY <2>1, <1>b, ProceedPreserves, EndPreserves
  <2> QED BY <2>1, <2>2 DEF ChainMoves
<1>7. CASE SendInitialize(o)
  <2>1. Proceed(o, runs[o]) \/ End(o, "thrown")
    BY <1>7 DEF SendInitialize
  <2>2. Initializes \/ UNCHANGED contracts
    BY <1>7 DEF SendInitialize, Initializes
  <2>3. RunInv'
    BY <2>1, <1>a, ProceedPreserves, EndPreserves
  <2> QED BY <2>2, <2>3 DEF ChainMoves
<1>8. CASE SendUpgrade(o)
  <2>1. Proceed(o, runs[o]) \/ End(o, "thrown")
    BY <1>8 DEF SendUpgrade
  <2>2. runs[o].signer \in Signers
    BY <1>8, <1>a DEF SendUpgrade, AtStep, Running, SignsFor
  <2>3. Upgrades \/ UNCHANGED contracts
    BY <1>8, <2>2 DEF SendUpgrade, Upgrades
  <2>4. RunInv'
    BY <2>1, <1>a, ProceedPreserves, EndPreserves
  <2> QED BY <2>3, <2>4 DEF ChainMoves
<1>9. CASE Refuse(o)
  <2>1. UNCHANGED contracts /\ (End(o, "exited") \/ End(o, "thrown"))
    BY <1>9 DEF Refuse
  <2> QED BY <2>1, EndPreserves DEF ChainMoves
<1>10. CASE Finish(o)
  <2>1. UNCHANGED contracts /\ End(o, "done")
    BY <1>10 DEF Finish
  <2> QED BY <2>1, EndPreserves DEF ChainMoves
<1> QED
  BY <1>1, <1>2, <1>3, <1>4, <1>5, <1>6, <1>7, <1>8, <1>9, <1>10 DEF Advance

(* Only a process with a chain of its own leaves the others' behind. *)
LEMMA NextMoves ==
  ASSUME RunInv, [Next]_vars
  PROVE  /\ ChainMoves \/ (Network = "hardhat" /\ contracts' = <<>>)
         /\ RunInv'
<1>1. CASE \E o \in Operators : \E request \in Requests, signer \in Signers :
             Start(o, request, signer)
  <2>1. PICK o \in Operators, request \in Requests, signer \in Signers :
          Start(o, request, signer)
    BY <1>1
  <2>2. (contracts' = <<>> /\ Network = "hardhat") \/ UNCHANGED contracts
    BY <2>1 DEF Start
  <2>3. RunInv'
    BY <2>1, StartPreserves
  <2> QED BY <2>2, <2>3 DEF ChainMoves
<1>2. CASE \E o \in Operators : Advance(o)
  BY <1>2, AdvanceMoves
<1>3. CASE \E o \in Operators : Interrupt(o)
  <2>1. PICK o \in Operators : Interrupt(o)
    BY <1>3
  <2>2. UNCHANGED contracts /\ End(o, "interrupted")
    BY <2>1 DEF Interrupt
  <2> QED BY <2>2, EndPreserves DEF ChainMoves
<1>4. CASE \E a \in DOMAIN contracts : Mine(a)
  <2>1. PICK a \in DOMAIN contracts : Mine(a)
    BY <1>4
  <2>2. Mines
    BY <2>1 DEF Mine, Mines
  <2> QED BY <2>1, <2>2, MinePreservesRuns DEF ChainMoves
<1>5. CASE UNCHANGED vars
  BY <1>5 DEF vars, ChainMoves, RunInv, SignsFor, IsRun
<1> QED BY <1>1, <1>2, <1>3, <1>4, <1>5 DEF Next

LEMMA InitInv == Init => IInv
<1> SUFFICES ASSUME Init PROVE IInv
  OBVIOUS
<1>1. ChainInv
  BY EmptyChain DEF Init
<1>2. SignsFor(NoRun)
  BY NoRunIsRun DEF SignsFor
<1>3. RunInv
  BY <1>2 DEF Init, RunInv
<1> QED BY <1>1, <1>3 DEF IInv

LEMMA StepInv == IInv /\ [Next]_vars => IInv'
<1> SUFFICES ASSUME IInv, [Next]_vars PROVE IInv'
  OBVIOUS
<1>1. /\ ChainMoves \/ contracts' = <<>>
      /\ RunInv'
  BY NextMoves DEF IInv
<1>2. (contracts = <<>> => ChainInv)'
  BY EmptyChain, PTL
<1>3. ChainInv'
  BY <1>1, <1>2, ChainMovesPreserves DEF IInv
<1> QED BY <1>1, <1>3 DEF IInv

(* A proxy that has been set up runs code that is on the chain, and code   *)
(* of the very revision it was last initialised for: whatever the tasks    *)
(* read from the file, however many run, die, meet and start again.        *)
THEOREM RunsWhatInitialised == Spec => []RunsWhatItWasInitialisedFor
<1>1. IInv => RunsWhatItWasInitialisedFor
  BY DEF IInv, ChainInv
<1> QED BY InitInv, StepInv, <1>1, PTL DEF Spec

----------------------------------------------------------------------------
(* The refinement: what happens to the chain, as the holders see it. *)

IsProxy(chain, a) == chain[a].kind = Proxy /\ chain[a].status = "mined"

SeenAs(chain, a) ==
  [code |-> IF chain[a].implementation = NoAddress THEN NoCode
            ELSE chain[chain[a].implementation].kind,
   revision |-> chain[a].lastInitializedRevision,
   admin |-> chain[a].admin]

LEMMA ProxiesSeen ==
  ASSUME NEW chain
  PROVE  ProxiesOf(chain) = [a \in {x \in DOMAIN chain : IsProxy(chain, x)} |-> SeenAs(chain, a)]
BY DEF ProxiesOf, IsProxy, SeenAs

(* Two chains are the same to the holders if their proxies are. *)
LEMMA SameProxies ==
  ASSUME NEW chain, NEW later,
         \A a : a \in DOMAIN chain /\ IsProxy(chain, a)
                <=> a \in DOMAIN later /\ IsProxy(later, a),
         \A a \in DOMAIN chain : IsProxy(chain, a) => SeenAs(later, a) = SeenAs(chain, a)
  PROVE  ProxiesOf(later) = ProxiesOf(chain)
<1>1. {x \in DOMAIN chain : IsProxy(chain, x)} = {x \in DOMAIN later : IsProxy(later, x)}
  OBVIOUS
<1> QED BY <1>1, ProxiesSeen

LEMMA AppendsUnseen == ChainInv /\ Appends => ProxiesOf(contracts') = ProxiesOf(contracts)
<1> SUFFICES ASSUME ChainInv, NEW kind, NEW args, NEW sender,
                    contracts' = Append(contracts, Created(kind, args, sender))
             PROVE  ProxiesOf(contracts') = ProxiesOf(contracts)
  BY DEF Appends
<1> DEFINE c == Created(kind, args, sender)
           n == Len(contracts) + 1
<1>1. c.status = "pending"
  BY NewContract
<1> HIDE DEF c
<1>2. IsSequence(contracts) /\ contracts' = Append(contracts, c)
  BY DEF ChainInv, c
<1>3. /\ n \in Nat /\ DOMAIN contracts = 1 .. Len(contracts) /\ DOMAIN contracts' = 1 .. n
      /\ \A i \in DOMAIN contracts : contracts'[i] = contracts[i]
      /\ contracts'[n] = c
  BY <1>2, AppendToSequence
<1> HIDE DEF n
<1>4. \A i : i \in DOMAIN contracts' <=> i \in DOMAIN contracts \/ i = n
  BY <1>3 DEF n
<1>5. n \notin DOMAIN contracts
  BY <1>3 DEF n
<1>6. \A a : a \in DOMAIN contracts /\ IsProxy(contracts, a)
             <=> a \in DOMAIN contracts' /\ IsProxy(contracts', a)
  BY <1>1, <1>3, <1>4, <1>5 DEF IsProxy
<1>7. ASSUME NEW a \in DOMAIN contracts
      PROVE  SeenAs(contracts', a) = SeenAs(contracts, a)
  <2>1. contracts[a].implementation # NoAddress
        => contracts[a].implementation \in DOMAIN contracts
    BY DEF ChainInv, RunsWhatItWasInitialisedFor, HasCode
  <2> QED BY <2>1, <1>3 DEF SeenAs
<1> QED BY <1>6, <1>7, SameProxies

LEMMA MinesSeen == ChainInv /\ Mines => [Lifecycle!Next]_(ProxiesOf(contracts))
<1> SUFFICES ASSUME ChainInv, NEW a \in DOMAIN contracts, NEW status \in {"mined", "failed"},
                    contracts[a].status = "pending",
                    contracts' = [contracts EXCEPT ![a].status = status]
             PROVE  [Lifecycle!Next]_(ProxiesOf(contracts))
  BY DEF Mines
<1> DEFINE d == [contracts[a] EXCEPT !.status = status]
           was == {x \in DOMAIN contracts : IsProxy(contracts, x)}
<1>1. /\ d.status = status /\ d.kind = contracts[a].kind
      /\ d.implementation = contracts[a].implementation /\ d.admin = contracts[a].admin
      /\ d.lastInitializedRevision = contracts[a].lastInitializedRevision
  BY MinedContract DEF ChainInv
<1>2. contracts' = [contracts EXCEPT ![a] = d] /\ IsSequence(contracts)
  BY DEF ChainInv
<1> HIDE DEF d
<1>3. /\ DOMAIN [contracts EXCEPT ![a] = d] = DOMAIN contracts
      /\ \A i \in DOMAIN contracts :
           [contracts EXCEPT ![a] = d][i] = IF i = a THEN d ELSE contracts[i]
  BY <1>2, ExceptInSequence
<1>4. /\ DOMAIN contracts' = DOMAIN contracts
      /\ \A i \in DOMAIN contracts : contracts'[i] = IF i = a THEN d ELSE contracts[i]
  BY <1>2, <1>3
<1>5. ASSUME NEW x \in DOMAIN contracts
      PROVE  SeenAs(contracts', x) = SeenAs(contracts, x)
  <2>1. contracts[x].implementation # NoAddress
        => contracts[x].implementation \in DOMAIN contracts
    BY DEF ChainInv, RunsWhatItWasInitialisedFor, HasCode
  <2> QED BY <2>1, <1>1, <1>4 DEF SeenAs
<1>6. a \notin was
  BY DEF IsProxy
<1>7. CASE status = "mined" /\ contracts[a].kind = Proxy
  <2>1. {x \in DOMAIN contracts' : IsProxy(contracts', x)} = was \union {a}
    BY <1>1, <1>4, <1>7 DEF IsProxy
  <2>2. contracts[a].implementation = NoAddress
    BY DEF ChainInv, RunsWhatItWasInitialisedFor, IsA, HasCode
  <2>3. SeenAs(contracts', a) = Lifecycle!Untouched
    BY <2>2, <1>5 DEF ChainInv, AsCreated, SeenAs, Lifecycle!Untouched
  <2>4. /\ DOMAIN ProxiesOf(contracts) = was
        /\ DOMAIN ProxiesOf(contracts') = was \union {a}
        /\ \A x \in was : ProxiesOf(contracts)[x] = SeenAs(contracts, x)
    BY <2>1, ProxiesSeen
  <2>5. ProxiesOf(contracts') = [x \in was \union {a} |-> SeenAs(contracts', x)]
    BY <2>1, ProxiesSeen
  <2>6. ProxiesOf(contracts') =
          [x \in DOMAIN ProxiesOf(contracts) \union {a} |->
             IF x = a THEN Lifecycle!Untouched ELSE ProxiesOf(contracts)[x]]
    <3> HIDE DEF was
    <3>1. \A x \in was : x \in DOMAIN contracts
      BY DEF was
    <3>2. \A x \in was \union {a} :
            SeenAs(contracts', x) =
              (IF x = a THEN Lifecycle!Untouched ELSE ProxiesOf(contracts)[x])
      BY <2>3, <2>4, <1>5, <1>6, <3>1
    <3> QED BY <2>4, <2>5, <3>2
  <2>7. a \in DOMAIN ProxiesOf(contracts)' \ DOMAIN ProxiesOf(contracts)
    BY <2>4, <1>6
  <2>8. ProxiesOf(contracts)' = ProxiesOf(contracts')
    BY DEF ProxiesOf
  <2>9. Lifecycle!Create
    BY <2>6, <2>7, <2>8 DEF Lifecycle!Create
  <2> QED BY <2>9 DEF Lifecycle!Next
<1>8. CASE ~(status = "mined" /\ contracts[a].kind = Proxy)
  <2>1. \A x : x \in DOMAIN contracts /\ IsProxy(contracts, x)
               <=> x \in DOMAIN contracts' /\ IsProxy(contracts', x)
    BY <1>1, <1>4, <1>8 DEF IsProxy
  <2>2. ProxiesOf(contracts') = ProxiesOf(contracts)
    BY <2>1, <1>5, SameProxies
  <2> QED BY <2>2 DEF ProxiesOf
<1> QED BY <1>7, <1>8

(* Setting a proxy up changes what is seen of it, and of no other. *)
LEMMA SetUpSeen ==
  ASSUME ChainInv, NEW proxy, NEW implementation, NEW admin,
         IsA(proxy, Proxy), HasCode(implementation),
         contracts[implementation].kind \in Implementations,
         contracts' = SetUpProxy(proxy, implementation, admin)
  PROVE  /\ proxy \in DOMAIN ProxiesOf(contracts)
         /\ ProxiesOf(contracts)[proxy] = SeenAs(contracts, proxy)
         /\ LET k == contracts[implementation].kind
            IN  ProxiesOf(contracts') =
                  [ProxiesOf(contracts) EXCEPT
                     ![proxy] = [code |-> k, revision |-> Revision[k], admin |-> admin]]
<1> DEFINE k == contracts[implementation].kind
           seen == [code |-> k, revision |-> Revision[k], admin |-> admin]
           was == {x \in DOMAIN contracts : IsProxy(contracts, x)}
<1>1. proxy \in DOMAIN contracts /\ implementation \in DOMAIN contracts
  BY DEF IsA, HasCode
<1>2. implementation # NoAddress
  BY <1>1, ExceptInSequence DEF ChainInv
<1>3. /\ DOMAIN contracts' = DOMAIN contracts
      /\ \A a \in DOMAIN contracts : a # proxy => contracts'[a] = contracts[a]
      /\ contracts'[proxy].status = contracts[proxy].status
      /\ contracts'[proxy].kind = contracts[proxy].kind
      /\ contracts'[proxy].implementation = implementation
      /\ contracts'[proxy].admin = admin
      /\ contracts'[proxy].lastInitializedRevision = Revision[k]
  BY <1>1, SetUpChanges
<1>4. \A a \in DOMAIN contracts : /\ contracts'[a].status = contracts[a].status
                                  /\ contracts'[a].kind = contracts[a].kind
  BY <1>1, <1>3
<1>5. proxy \in was
  BY <1>1 DEF IsA, HasCode, IsProxy
<1>6. SeenAs(contracts', proxy) = seen
  BY <1>1, <1>2, <1>3, <1>4 DEF SeenAs
<1>7. ASSUME NEW x \in DOMAIN contracts, x # proxy
      PROVE  SeenAs(contracts', x) = SeenAs(contracts, x)
  <2>1. contracts[x].implementation # NoAddress
        => contracts[x].implementation \in DOMAIN contracts
    BY DEF ChainInv, RunsWhatItWasInitialisedFor, HasCode
  <2>2. contracts'[x] = contracts[x]
    BY <1>3, <1>7
  <2> QED BY <2>1, <2>2, <1>4 DEF SeenAs
<1>8. {x \in DOMAIN contracts' : IsProxy(contracts', x)} = was
  BY <1>3, <1>4 DEF IsProxy
<1>9. ProxiesOf(contracts) = [x \in was |-> SeenAs(contracts, x)]
  BY ProxiesSeen
<1>10. ProxiesOf(contracts') = [x \in was |-> SeenAs(contracts', x)]
  BY <1>8, ProxiesSeen
<1>11. \A x \in was : x \in DOMAIN contracts
  OBVIOUS
<1> HIDE DEF was, seen
<1>12. ProxiesOf(contracts') = [ProxiesOf(contracts) EXCEPT ![proxy] = seen]
  BY <1>5, <1>6, <1>7, <1>9, <1>10, <1>11
<1> QED BY <1>5, <1>9, <1>12 DEF seen

LEMMA InitializesSeen == ChainInv /\ Initializes => [Lifecycle!Next]_(ProxiesOf(contracts))
<1> SUFFICES ASSUME ChainInv, NEW proxy, NEW implementation, NEW admin,
                    InitializeAccepted(proxy, implementation),
                    contracts' = SetUpProxy(proxy, implementation, admin)
             PROVE  [Lifecycle!Next]_(ProxiesOf(contracts))
  BY DEF Initializes
<1> DEFINE k == contracts[implementation].kind
           seen == [code |-> k, revision |-> Revision[k], admin |-> admin]
<1>1. /\ IsA(proxy, Proxy) /\ HasCode(implementation) /\ k \in Implementations
      /\ contracts[proxy].implementation = NoAddress
  BY DEF InitializeAccepted, InitializerAccepts, Implementations, Revision
<1>2. /\ proxy \in DOMAIN ProxiesOf(contracts)
      /\ ProxiesOf(contracts)[proxy] = SeenAs(contracts, proxy)
      /\ ProxiesOf(contracts') = [ProxiesOf(contracts) EXCEPT ![proxy] = seen]
  BY <1>1, SetUpSeen
<1>3. SeenAs(contracts, proxy) = Lifecycle!Untouched
  BY <1>1 DEF ChainInv, AsCreated, SeenAs, Lifecycle!Untouched, IsA, HasCode
<1>4. ProxiesOf(contracts)' = ProxiesOf(contracts')
  BY DEF ProxiesOf
<1>5. ProxiesOf(contracts')[proxy].admin = admin
  BY <1>2
<1>6. Lifecycle!SetUp(proxy)
  BY <1>1, <1>2, <1>3, <1>4, <1>5 DEF Lifecycle!SetUp
<1> QED BY <1>2, <1>6 DEF Lifecycle!Next

LEMMA UpgradesSeen == ChainInv /\ Upgrades => [Lifecycle!Next]_(ProxiesOf(contracts))
<1> SUFFICES ASSUME ChainInv, NEW proxy, NEW implementation, NEW sender \in Signers,
                    UpgradeAccepted(proxy, implementation, sender),
                    contracts' = SetUpProxy(proxy, implementation, contracts[proxy].admin)
             PROVE  [Lifecycle!Next]_(ProxiesOf(contracts))
  BY DEF Upgrades
<1> DEFINE k == contracts[implementation].kind
           seen == [code |-> k, revision |-> Revision[k], admin |-> contracts[proxy].admin]
           now == ProxiesOf(contracts)
<1>1. /\ IsA(proxy, Proxy) /\ HasCode(implementation) /\ k \in Implementations
      /\ contracts[proxy].admin = sender
      /\ Revision[k] > contracts[proxy].lastInitializedRevision
  BY DEF UpgradeAccepted, InitializerAccepts, Implementations, Revision
<1>2. /\ proxy \in DOMAIN now /\ now[proxy] = SeenAs(contracts, proxy)
      /\ ProxiesOf(contracts') = [now EXCEPT ![proxy] = seen]
  BY <1>1, SetUpSeen
<1>3. contracts[proxy].implementation # NoAddress
  BY <1>1, SignersAssumption DEF ChainInv, AsCreated, IsA, HasCode
<1>4. SeenAs(contracts, proxy).code \in Implementations
  BY <1>1, <1>3 DEF ChainInv, RunsWhatItWasInitialisedFor, SeenAs, IsA, HasCode
<1>5. NoCode \notin Implementations
  BY DEF NoCode, Implementations, Revision
<1>6. now[proxy].code # NoCode /\ Revision[k] > now[proxy].revision
  BY <1>1, <1>2, <1>4, <1>5 DEF SeenAs
<1>7. [now EXCEPT ![proxy].code = k, ![proxy].revision = Revision[k]] = [now EXCEPT ![proxy] = seen]
  <2>1. now[proxy].admin = contracts[proxy].admin
    BY <1>2 DEF SeenAs
  <2>2. [now[proxy] EXCEPT !.code = k, !.revision = Revision[k]] = seen
    <3> DEFINE r == [now[proxy] EXCEPT !.code = k]
               revision == Revision[k]
               admin == contracts[proxy].admin
    <3>1. now[proxy] = [code |-> now[proxy].code, revision |-> now[proxy].revision, admin |-> admin]
      BY <1>2 DEF SeenAs
    <3> HIDE DEF now, k, revision, admin
    <3>2. r = [code |-> k, revision |-> now[proxy].revision, admin |-> admin]
      BY <3>1
    <3> HIDE DEF r
    <3>3. [r EXCEPT !.revision = revision] = [code |-> k, revision |-> revision, admin |-> admin]
      BY <3>2
    <3> QED BY <3>3 DEF r, revision, admin
  <2> HIDE DEF now, k, seen
  <2> QED BY <1>2, <2>2
<1>8. ProxiesOf(contracts)' = ProxiesOf(contracts')
  BY DEF ProxiesOf
<1>9. Lifecycle!Upgrade(proxy)
  BY <1>1, <1>2, <1>6, <1>7, <1>8 DEF Lifecycle!Upgrade
<1> QED BY <1>2, <1>9 DEF Lifecycle!Next

(* The tasks keep to the life of a proxy, on every network with a chain    *)
(* that outlives a run: it is set up once, its administrator stays, and    *)
(* its revision only grows, with the code it runs.                         *)
THEOREM TasksKeepLifecycle ==
  ASSUME Network # "hardhat"
  PROVE  Spec => LifecycleHolds
<1>1. Init => Lifecycle!Init
  <2> SUFFICES ASSUME Init PROVE Lifecycle!Init
    OBVIOUS
  <2>1. DOMAIN contracts = {}
    BY DEF Init
  <2> QED BY <2>1 DEF ProxiesOf, Lifecycle!Init
<1>2. IInv /\ [Next]_vars => [Lifecycle!Next]_(ProxiesOf(contracts))
  <2> SUFFICES ASSUME IInv, [Next]_vars PROVE [Lifecycle!Next]_(ProxiesOf(contracts))
    OBVIOUS
  <2>1. ChainMoves /\ ChainInv
    BY NextMoves DEF IInv
  <2>2. CASE Appends
    BY <2>1, <2>2, AppendsUnseen DEF ProxiesOf
  <2>3. CASE Mines
    BY <2>1, <2>3, MinesSeen
  <2>4. CASE Initializes
    BY <2>1, <2>4, InitializesSeen
  <2>5. CASE Upgrades
    BY <2>1, <2>5, UpgradesSeen
  <2>6. CASE UNCHANGED contracts
    BY <2>6 DEF ProxiesOf
  <2> QED BY <2>1, <2>2, <2>3, <2>4, <2>5, <2>6 DEF ChainMoves
<1> QED BY InitInv, StepInv, <1>1, <1>2, PTL DEF Spec, LifecycleHolds, Lifecycle!Spec

----------------------------------------------------------------------------
(* Scripts: sequences of steps that name contracts, keys and accounts of   *)
(* their types.                                                            *)

LEMMA ConcatSequences ==
  ASSUME NEW s, IsSequence(s), NEW t, IsSequence(t)
  PROVE  /\ IsSequence(s \o t)
         /\ Len(s) \in Nat /\ Len(t) \in Nat /\ Len(s \o t) = Len(s) + Len(t)
         /\ \A i \in 1 .. Len(s) : (s \o t)[i] = s[i]
         /\ \A i \in 1 .. Len(t) : (s \o t)[Len(s) + i] = t[i]
<1> DEFINE T == {s[i] : i \in DOMAIN s} \cup {t[i] : i \in DOMAIN t}
<1>1. s \in Seq(T) /\ t \in Seq(T)
  <2>1. PICK m \in Nat : s \in [1 .. m -> {s[i] : i \in DOMAIN s}]
    BY DEF IsSequence
  <2>2. PICK n \in Nat : t \in [1 .. n -> {t[i] : i \in DOMAIN t}]
    BY DEF IsSequence
  <2>3. s \in [1 .. m -> T] /\ t \in [1 .. n -> T]
    BY <2>1, <2>2
  <2> HIDE DEF T
  <2> QED BY <2>3, SeqDef
<1> HIDE DEF T
<1>2. /\ s \o t \in Seq(T) /\ Len(s) \in Nat /\ Len(t) \in Nat
      /\ Len(s \o t) = Len(s) + Len(t)
  BY <1>1, ConcatProperties, LenProperties
<1>3. /\ \A i \in 1 .. Len(s) : (s \o t)[i] = s[i]
      /\ \A i \in 1 .. Len(t) : (s \o t)[Len(s) + i] = t[i]
  <2>1. \A i \in 1 .. Len(s) + Len(t) :
          (s \o t)[i] = IF i <= Len(s) THEN s[i] ELSE t[i - Len(s)]
    BY <1>1, ConcatProperties
  <2> DEFINE u == s \o t
             m == Len(s)
             n == Len(t)
  <2>2. m \in Nat /\ n \in Nat /\ \A i \in 1 .. m + n : u[i] = IF i <= m THEN s[i] ELSE t[i - m]
    BY <1>2, <2>1
  <2> HIDE DEF u, m, n
  <2>3. ASSUME NEW i \in 1 .. m PROVE u[i] = s[i]
    BY <2>2
  <2>4. ASSUME NEW i \in 1 .. n PROVE u[m + i] = t[i]
    <3>1. m + i \in 1 .. m + n /\ ~(m + i <= m) /\ (m + i) - m = i
      BY <2>2
    <3> QED BY <2>2, <3>1
  <2> QED BY <2>3, <2>4 DEF u, m, n
<1>4. IsSequence(s \o t)
  <2> DEFINE u == s \o t
  <2>1. u \in Seq(T)
    BY <1>2
  <2> HIDE DEF u
  <2>2. Len(u) \in Nat /\ u \in [1 .. Len(u) -> T]
    BY <2>1, LenProperties
  <2>3. u \in [1 .. Len(u) -> {u[i] : i \in DOMAIN u}]
    BY <2>2
  <2> QED BY <2>2, <2>3 DEF IsSequence, u
<1> QED BY <1>2, <1>3, <1>4

LEMMA SequenceDomain ==
  ASSUME NEW s, IsSequence(s)
  PROVE  Len(s) \in Nat /\ DOMAIN s = 1 .. Len(s) /\ (s = <<>> <=> Len(s) = 0)
<1> DEFINE T == {s[i] : i \in DOMAIN s}
<1>1. s \in Seq(T)
  BY SeqDef DEF IsSequence
<1> HIDE DEF T
<1> QED BY <1>1, LenProperties, EmptySeq

LEMMA TailSequence ==
  ASSUME NEW s, IsSequence(s), s # <<>>
  PROVE  /\ IsSequence(Tail(s)) /\ Len(Tail(s)) = Len(s) - 1 /\ Head(s) = s[1]
         /\ Len(s) \in Nat \ {0}
         /\ \A i \in 1 .. Len(s) - 1 : Tail(s)[i] = s[i + 1]
<1> DEFINE T == {s[i] : i \in DOMAIN s}
           u == Tail(s)
<1>1. s \in Seq(T)
  BY SeqDef DEF IsSequence
<1> HIDE DEF T
<1>2. /\ u \in Seq(T) /\ Len(u) = Len(s) - 1 /\ Head(s) = s[1] /\ Len(s) \in Nat \ {0}
      /\ \A i \in 1 .. Len(s) - 1 : u[i] = s[i + 1]
  <2>1. Len(s) \in Nat \ {0}
    BY <1>1, LenProperties, EmptySeq
  <2>2. /\ u \in Seq(T) /\ Len(u) = Len(s) - 1 /\ Head(s) = s[1]
        /\ \A i \in 1 .. Len(u) : u[i] = s[i + 1]
    BY <1>1, HeadTailProperties
  <2> QED BY <2>1, <2>2
<1> HIDE DEF u
<1>3. Len(u) \in Nat /\ u \in [1 .. Len(u) -> T]
  BY <1>2, LenProperties
<1>4. u \in [1 .. Len(u) -> {u[i] : i \in DOMAIN u}]
  BY <1>3
<1>5. IsSequence(u)
  BY <1>3, <1>4 DEF IsSequence
<1> QED BY <1>2, <1>5 DEF u

WellTyped(step) ==
  /\ step.op = "deploy" => step.kind \in Implementations \union {Proxy}
  /\ step.op = "register" => step.key \in Keys
  /\ step.op = "get implementation" => step.key \in Keys
  /\ step.op = "initialize" => step.admin \in Administrators

IsScript(s) == IsSequence(s) /\ \A i \in 1 .. Len(s) : WellTyped(s[i])

LEMMA EmptyScript == IsScript(<<>>)
<1>1. Len(<<>>) = 0 /\ <<>> = [i \in 1 .. 0 |-> <<>>[i]] /\ DOMAIN <<>> = 1 .. 0
  BY EmptySeq
<1>2. <<>> \in [1 .. 0 -> {<<>>[i] : i \in DOMAIN <<>>}]
  BY <1>1
<1>3. IsSequence(<<>>)
  BY <1>2 DEF IsSequence
<1> QED BY <1>1, <1>3 DEF IsScript

LEMMA ScriptOfOne ==
  ASSUME NEW step, WellTyped(step)
  PROVE  IsScript(<<step>>)
<1> DEFINE s == <<step>>
<1>1. Len(s) = 1 /\ s[1] = step /\ s \in [1 .. 1 -> {step}]
  OBVIOUS
<1>2. s \in [1 .. 1 -> {s[i] : i \in DOMAIN s}]
  BY <1>1
<1>3. IsSequence(s)
  BY <1>2 DEF IsSequence
<1> QED BY <1>1, <1>3 DEF IsScript

LEMMA ConcatScripts ==
  ASSUME NEW s, IsScript(s), NEW t, IsScript(t)
  PROVE  IsScript(s \o t)
<1>1. /\ IsSequence(s \o t)
      /\ Len(s) \in Nat /\ Len(t) \in Nat /\ Len(s \o t) = Len(s) + Len(t)
      /\ \A i \in 1 .. Len(s) : (s \o t)[i] = s[i]
      /\ \A i \in 1 .. Len(t) : (s \o t)[Len(s) + i] = t[i]
  BY ConcatSequences DEF IsScript
<1> DEFINE u == s \o t
           m == Len(s)
           n == Len(t)
<1>2. ASSUME NEW i \in 1 .. Len(u) PROVE WellTyped(u[i])
  <2>1. /\ m \in Nat /\ n \in Nat /\ i \in 1 .. m + n
        /\ \A j \in 1 .. m : u[j] = s[j] /\ WellTyped(s[j])
        /\ \A j \in 1 .. n : u[m + j] = t[j] /\ WellTyped(t[j])
    BY <1>1 DEF IsScript
  <2> HIDE DEF u, m, n
  <2>2. CASE i <= m
    BY <2>1, <2>2
  <2>3. CASE ~(i <= m)
    <3> DEFINE j == i - m
    <3>1. j \in 1 .. n /\ i = m + j
      BY <2>1, <2>3
    <3> HIDE DEF j
    <3> QED BY <2>1, <3>1
  <2> QED BY <2>2, <2>3
<1> QED BY <1>1, <1>2 DEF IsScript

LEMMA TailScript ==
  ASSUME NEW s, IsScript(s), s # <<>>
  PROVE  IsScript(Tail(s)) /\ WellTyped(Head(s))
<1>1. /\ IsSequence(Tail(s)) /\ Len(Tail(s)) = Len(s) - 1 /\ Head(s) = s[1]
      /\ Len(s) \in Nat \ {0}
      /\ \A i \in 1 .. Len(s) - 1 : Tail(s)[i] = s[i + 1]
  BY TailSequence DEF IsScript
<1> DEFINE u == Tail(s)
           n == Len(s)
<1>2. /\ n \in Nat \ {0} /\ \A i \in 1 .. n : WellTyped(s[i])
      /\ \A i \in 1 .. n - 1 : u[i] = s[i + 1]
  BY <1>1 DEF IsScript
<1> HIDE DEF u, n
<1>3. WellTyped(s[1]) /\ \A i \in 1 .. n - 1 : WellTyped(u[i])
  BY <1>2
<1> QED BY <1>1, <1>3 DEF IsScript, u, n

(* What the tasks are made of. *)
LEMMA Pieces ==
  /\ \A ok \in BOOLEAN : IsScript(Check(ok))
  /\ \A p : IsScript(CheckVerification(p))
  /\ \A verify : IsScript(VerifyContract(verify))
  /\ IsScript(Await)
  /\ \A key \in Keys : IsScript(RegisterContractInJsonDb(key))
  /\ \A name \in Implementations \union {Proxy} : \A args : IsScript(DeployContract(name, args))
<1>1. \A ok \in BOOLEAN : IsScript(Check(ok))
  <2>1. WellTyped([op |-> "throw"])
    BY DEF WellTyped
  <2> QED BY <2>1, EmptyScript, ScriptOfOne DEF Check
<1>2. \A p : IsScript(CheckVerification(p))
  <2>1. WellTyped([op |-> "exit"])
    BY DEF WellTyped
  <2> QED BY <2>1, EmptyScript, ScriptOfOne DEF CheckVerification
<1>3. \A verify : IsScript(VerifyContract(verify))
  <2>1. WellTyped([op |-> "verify"])
    BY DEF WellTyped
  <2> QED BY <2>1, EmptyScript, ScriptOfOne DEF VerifyContract
<1>4. IsScript(Await)
  <2>1. WellTyped([op |-> "await"])
    BY DEF WellTyped
  <2> QED BY <2>1, ScriptOfOne DEF Await
<1>5. ASSUME NEW key \in Keys PROVE IsScript(RegisterContractInJsonDb(key))
  <2>1. WellTyped([op |-> "register", key |-> key])
    BY DEF WellTyped
  <2> QED BY <2>1, ScriptOfOne DEF RegisterContractInJsonDb
<1>6. ASSUME NEW name \in Implementations \union {Proxy}, NEW args
      PROVE  IsScript(DeployContract(name, args))
  <2>1. WellTyped([op |-> "deploy", kind |-> name, args |-> args])
    BY DEF WellTyped
  <2>2. name \in Keys
    BY DEF Keys
  <2>3. IsScript(<<[op |-> "deploy", kind |-> name, args |-> args]>>)
    BY <2>1, ScriptOfOne
  <2>4. IsScript(RegisterContractInJsonDb(name))
    BY <1>5, <2>2
  <2> QED BY <2>3, <2>4, ConcatScripts DEF DeployContract
<1> QED BY <1>1, <1>2, <1>3, <1>4, <1>5, <1>6

LEMMA Names ==
  /\ Implementations = {"StakedLay", "StakedTokenV2Rev3", "StakedTokenV2Rev4"}
  /\ Implementations \subseteq Keys /\ Proxy \in Keys /\ "StakedLayImpl" \in Keys
BY DEF Implementations, Revision, Keys

LEMMA DeployStakedLayIsScript == \A p : IsScript(DeployStakedLayTask(p))
<1> SUFFICES ASSUME NEW p PROVE IsScript(DeployStakedLayTask(p))
  OBVIOUS
<1> DEFINE args == Arguments(Default(p.tokenAddress, GetTokenPerNetwork(Network)),
                             Default(p.vaultAddress, GetIncentivesVaultPerNetwork(Network)),
                             "emissionManager")
<1> HIDE DEF args
<1>1. IsScript(CheckVerification(p)) /\ IsScript(Check(HasChainId(Network)))
  BY Pieces DEF HasChainId
<1>2. IsScript(DeployStakedLay(args, FALSE))
  BY Pieces, Names, ConcatScripts DEF DeployStakedLay
<1>3. IsScript(Await) /\ IsScript(RegisterContractInJsonDb("StakedLayImpl"))
      /\ IsScript(RegisterContractInJsonDb("StakedLay"))
  BY Pieces, Names
<1>4. IsScript(DeployInitializableAdminUpgradeabilityProxy(p.verify))
  BY Pieces, ConcatScripts DEF DeployInitializableAdminUpgradeabilityProxy
<1>5. DeployStakedLayTask(p) =
        CheckVerification(p) \o Check(HasChainId(Network)) \o DeployStakedLay(args, FALSE)
        \o Await \o RegisterContractInJsonDb("StakedLayImpl")
        \o DeployInitializableAdminUpgradeabilityProxy(p.verify)
        \o RegisterContractInJsonDb("StakedLay")
  BY DEF DeployStakedLayTask, args
<1> QED BY <1>1, <1>2, <1>3, <1>4, <1>5, ConcatScripts

LEMMA DeployRevisionsAreScripts ==
  \A p : IsScript(DeployStakedTokenV2Rev3Task(p)) /\ IsScript(DeployStakedTokenV2Rev4Task(p))
<1> SUFFICES ASSUME NEW p
             PROVE  /\ IsScript(DeployStakedTokenV2Rev3Task(p))
                    /\ IsScript(DeployStakedTokenV2Rev4Task(p))
  OBVIOUS
<1> DEFINE token == Default(p.tokenAddress, GetTokenPerNetwork(Network))
           vault == Default(p.vaultAddress, GetIncentivesVaultPerNetwork(Network))
           em == Default(p.emissionManager, GetAdminPerNetwork(Network))
           args == Arguments(token, vault, em)
           valid3 == \A address \in {token, vault, em} : NotFalsyOrZeroAddress(address)
           valid4 == \A address \in {token, vault, p.emissionManager} :
                       NotFalsyOrZeroAddress(address)
<1>0. valid3 \in BOOLEAN /\ valid4 \in BOOLEAN
  OBVIOUS
<1>5. /\ DeployStakedTokenV2Rev3Task(p) =
           CheckVerification(p) \o Check(HasChainId(Network)) \o Check(valid3)
           \o DeployStakedTokenV2Revision3(args, p.verify)
           \o Await \o RegisterContractInJsonDb("StakedTokenV2Rev3")
      /\ DeployStakedTokenV2Rev4Task(p) =
           CheckVerification(p) \o Check(HasChainId(Network)) \o Check(valid4)
           \o DeployStakedTokenV2Revision4(args, p.verify)
           \o Await \o RegisterContractInJsonDb("StakedTokenV2Rev4")
  BY DEF DeployStakedTokenV2Rev3Task, DeployStakedTokenV2Rev4Task
<1> HIDE DEF args, valid3, valid4
<1>1. /\ IsScript(CheckVerification(p)) /\ IsScript(Check(HasChainId(Network)))
      /\ IsScript(Check(valid3)) /\ IsScript(Check(valid4))
  BY <1>0, Pieces DEF HasChainId
<1>2. /\ IsScript(DeployStakedTokenV2Revision3(args, p.verify))
      /\ IsScript(DeployStakedTokenV2Revision4(args, p.verify))
  BY Pieces, Names, ConcatScripts
     DEF DeployStakedTokenV2Revision3, DeployStakedTokenV2Revision4
<1>3. IsScript(Await) /\ IsScript(RegisterContractInJsonDb("StakedTokenV2Rev3"))
      /\ IsScript(RegisterContractInJsonDb("StakedTokenV2Rev4"))
  BY Pieces, Names
<1>6. IsScript(DeployStakedTokenV2Rev3Task(p))
  BY <1>1, <1>2, <1>3, <1>5, ConcatScripts
<1>7. IsScript(DeployStakedTokenV2Rev4Task(p))
  BY <1>1, <1>2, <1>3, <1>5, ConcatScripts
<1> QED BY <1>6, <1>7

LEMMA InitializeTasksAreScripts ==
  /\ \A admin \in Administrators : IsScript(InitializeStakedLayTask(admin))
  /\ IsScript(InitializeStakedTokenV2Rev3Task) /\ IsScript(InitializeStakedTokenV2Rev4Task)
<1> DEFINE get(key) == [op |-> "get implementation", key |-> key]
           proxy == [op |-> "get proxy"]
           init(admin) == [op |-> "initialize", admin |-> admin]
           upgrade == [op |-> "upgrade"]
<1>1. /\ \A key \in Keys : WellTyped(get(key))
      /\ WellTyped(proxy) /\ WellTyped(upgrade)
      /\ \A admin \in Administrators : WellTyped(init(admin))
  BY DEF WellTyped
<1>2. IsScript(Check(HasChainId(Network)))
  BY Pieces DEF HasChainId
<1>3. ASSUME NEW a, WellTyped(a), NEW b, WellTyped(b), NEW c, WellTyped(c)
      PROVE  IsScript(<<a, b, c>>)
  <2> DEFINE s == <<a, b, c>>
  <2>1. /\ Len(s) = 3 /\ s[1] = a /\ s[2] = b /\ s[3] = c /\ DOMAIN s = 1 .. 3
        /\ s \in [1 .. 3 -> {a, b, c}]
    OBVIOUS
  <2>2. s \in [1 .. 3 -> {s[i] : i \in DOMAIN s}]
    BY <2>1
  <2>3. IsSequence(s)
    BY <2>2 DEF IsSequence
  <2>4. \A i \in 1 .. 3 : i = 1 \/ i = 2 \/ i = 3
    OBVIOUS
  <2> HIDE DEF s
  <2>5. IsScript(s)
    BY <1>3, <2>1, <2>3, <2>4 DEF IsScript
  <2> QED BY <2>5 DEF s
<1>4. ASSUME NEW admin \in Administrators PROVE IsScript(InitializeStakedLayTask(admin))
  <2>1. IsScript(<<get("StakedLayImpl"), proxy, init(admin)>>)
    BY <1>1, <1>3, Names
  <2>2. IsScript(Check(admin # NotGiven))
    BY Pieces
  <2> QED BY <2>1, <2>2, <1>2, ConcatScripts DEF InitializeStakedLayTask
<1>5. /\ IsScript(<<get("StakedTokenV2Rev3"), proxy, upgrade>>)
      /\ IsScript(<<get("StakedTokenV2Rev4"), proxy, upgrade>>)
  BY <1>1, <1>3, Names
<1>6. IsScript(InitializeStakedTokenV2Rev3Task) /\ IsScript(InitializeStakedTokenV2Rev4Task)
  BY <1>2, <1>5, ConcatScripts
     DEF InitializeStakedTokenV2Rev3Task, InitializeStakedTokenV2Rev4Task
<1> QED BY <1>4, <1>6

(* Every task hardhat is asked for. *)
LEMMA TasksAreScripts == \A request \in Requests : IsScript(Script(request))
<1> SUFFICES ASSUME NEW request \in Requests PROVE IsScript(Script(request))
  OBVIOUS
<1> DEFINE p == request.params
           admin == GetAdminPerNetwork(Network)
<1>1. admin \in Administrators /\ p.admin \in Administrators
  BY DEF Administrators
<1>2. IsScript(CommonDeploymentTask(p))
  <2>1. IsScript(Check(admin # NotGiven)) /\ IsScript(CheckVerification(p))
    BY Pieces
  <2>2. /\ IsScript(DeployStakedLayTask(p)) /\ IsScript(InitializeStakedLayTask(admin))
        /\ IsScript(DeployStakedTokenV2Rev3Task(NoParameters))
        /\ IsScript(InitializeStakedTokenV2Rev3Task)
        /\ IsScript(InitializeStakedTokenV2Rev4Task)
    BY <1>1, DeployStakedLayIsScript, DeployRevisionsAreScripts, InitializeTasksAreScripts
  <2>3. CommonDeploymentTask(p) =
          Check(admin # NotGiven) \o CheckVerification(p)
          \o DeployStakedLayTask(p) \o InitializeStakedLayTask(admin)
          \o DeployStakedTokenV2Rev3Task(NoParameters)
          \o InitializeStakedTokenV2Rev3Task \o InitializeStakedTokenV2Rev4Task
    BY DEF CommonDeploymentTask
  <2> HIDE DEF admin, p
  <2> QED BY <2>1, <2>2, <2>3, ConcatScripts
<1>3. /\ IsScript(DeployStakedLayTask(p)) /\ IsScript(DevDeploymentTask)
      /\ IsScript(InitializeStakedLayTask(p.admin))
      /\ IsScript(DeployStakedTokenV2Rev3Task(p)) /\ IsScript(DeployStakedTokenV2Rev4Task(p))
      /\ IsScript(InitializeStakedTokenV2Rev3Task) /\ IsScript(InitializeStakedTokenV2Rev4Task)
  BY <1>1, DeployStakedLayIsScript, DeployRevisionsAreScripts, InitializeTasksAreScripts
     DEF DevDeploymentTask
<1>4. request.task \in {"deploy-StakedLay", "initialize-StakedLay", "deploy-StakedTokenV2Rev3",
                        "initialize-StakedTokenV2Rev3", "deploy-StakedTokenV2Rev4",
                        "initialize-StakedTokenV2Rev4", "common-deployment", "dev-deployment"}
  BY RequestsAssumption
<1> HIDE DEF p
<1> QED BY <1>2, <1>3, <1>4 DEF Script, p

----------------------------------------------------------------------------
(* What is left of a run, and of the chain, after each step.               *)

SameButScript(r, run) ==
  /\ r.status = run.status /\ r.request = run.request /\ r.signer = run.signer
  /\ r.disturbed = run.disturbed /\ r.alone = run.alone /\ r.instance = run.instance
  /\ r.implementation = run.implementation /\ r.proxy = run.proxy

LEMMA Proceeds ==
  ASSUME RunInv, NEW o \in Operators, NEW run, IsRun(run), Proceed(o, run)
  PROVE  /\ \A x \in Operators : x # o => runs'[x] = runs[x]
         /\ SameButScript(runs'[o], run) /\ runs'[o].script = Tail(run.script)
<1> DEFINE r == [run EXCEPT !.script = Tail(@)]
<1>1. SameButScript(r, run) /\ r.script = Tail(run.script)
  BY DEF IsRun, SameButScript
<1>2. runs' = [runs EXCEPT ![o] = r]
  BY DEF Proceed
<1> HIDE DEF r
<1>3. runs'[o] = r /\ \A x \in Operators : x # o => runs'[x] = runs[x]
  BY <1>2 DEF RunInv
<1> QED BY <1>1, <1>3

LEMMA InstanceSet ==
  ASSUME NEW r, IsRun(r), NEW v, NEW s, s = [r EXCEPT !.instance = v]
  PROVE  /\ IsRun(s)
         /\ s.status = r.status /\ s.request = r.request /\ s.signer = r.signer
         /\ s.script = r.script /\ s.disturbed = r.disturbed /\ s.alone = r.alone
         /\ s.instance = v /\ s.implementation = r.implementation /\ s.proxy = r.proxy
BY DEF IsRun

LEMMA ImplementationSet ==
  ASSUME NEW r, IsRun(r), NEW v, NEW s, s = [r EXCEPT !.implementation = v]
  PROVE  /\ IsRun(s)
         /\ s.status = r.status /\ s.request = r.request /\ s.signer = r.signer
         /\ s.script = r.script /\ s.disturbed = r.disturbed /\ s.alone = r.alone
         /\ s.instance = r.instance /\ s.implementation = v /\ s.proxy = r.proxy
BY DEF IsRun

LEMMA ProxySet ==
  ASSUME NEW r, IsRun(r), NEW v, NEW s, s = [r EXCEPT !.proxy = v]
  PROVE  /\ IsRun(s)
         /\ s.status = r.status /\ s.request = r.request /\ s.signer = r.signer
         /\ s.script = r.script /\ s.disturbed = r.disturbed /\ s.alone = r.alone
         /\ s.instance = r.instance /\ s.implementation = r.implementation /\ s.proxy = v
BY DEF IsRun

LEMMA Ends ==
  ASSUME RunInv, NEW o \in Operators, NEW status, End(o, status)
  PROVE  /\ \A x \in Operators : x # o => runs'[x] = runs[x]
         /\ runs'[o].status = status /\ runs'[o].script = <<>> /\ runs'[o].instance = NoAddress
<1> DEFINE r1 == [NoRun EXCEPT !.status = status]
           r2 == [r1 EXCEPT !.request = runs[o].request]
           r3 == [r2 EXCEPT !.signer = runs[o].signer]
           r4 == [r3 EXCEPT !.disturbed = runs[o].disturbed]
<1>1. IsRun(r1) /\ r1.status = status /\ r1.script = <<>> /\ r1.instance = NoAddress
  <2>1. NoRun.script = <<>> /\ NoRun.instance = NoAddress
    BY DEF NoRun
  <2> QED BY <2>1, NoRunIsRun DEF IsRun
<1> HIDE DEF r1
<1>2. IsRun(r2) /\ r2.status = status /\ r2.script = <<>> /\ r2.instance = NoAddress
  BY <1>1 DEF IsRun
<1> HIDE DEF r2
<1>3. IsRun(r3) /\ r3.status = status /\ r3.script = <<>> /\ r3.instance = NoAddress
  BY <1>2 DEF IsRun
<1> HIDE DEF r3
<1>4. r4.status = status /\ r4.script = <<>> /\ r4.instance = NoAddress
  BY <1>3 DEF IsRun
<1>5. runs' = [runs EXCEPT ![o] = r4]
  BY DEF End, r1, r2, r3
<1> HIDE DEF r4
<1>6. runs'[o] = r4 /\ \A x \in Operators : x # o => runs'[x] = runs[x]
  BY <1>5 DEF RunInv
<1> QED BY <1>4, <1>6

SameButAlone(r, run) ==
  /\ r.status = run.status /\ r.request = run.request /\ r.signer = run.signer
  /\ r.script = run.script /\ r.disturbed = run.disturbed /\ r.instance = run.instance
  /\ r.implementation = run.implementation /\ r.proxy = run.proxy

LEMMA Starts ==
  ASSUME RunInv, NEW o \in Operators, NEW request, NEW signer, Start(o, request, signer)
  PROVE  /\ LET r == runs'[o]
            IN  /\ r.status = "running" /\ r.request = request /\ r.signer = signer
                /\ r.script = Script(request) /\ ~r.disturbed /\ r.instance = NoAddress
                /\ r.alone = \A other \in Operators : ~Running(other)
         /\ \A x \in Operators : x # o =>
              /\ SameButAlone(runs'[x], runs[x])
              /\ runs'[x].alone = (runs[x].alone /\ ~Running(x))
<1> DEFINE r1 == [NoRun EXCEPT !.status = "running"]
           r2 == [r1 EXCEPT !.request = request]
           r3 == [r2 EXCEPT !.signer = signer]
           r4 == [r3 EXCEPT !.script = Script(request)]
           r5 == [r4 EXCEPT !.alone = \A other \in Operators : ~Running(other)]
           old(x) == [runs[x] EXCEPT !.alone = @ /\ ~Running(x)]
<1>1. IsRun(r1) /\ r1.status = "running" /\ ~r1.disturbed /\ r1.instance = NoAddress
  <2>1. ~NoRun.disturbed /\ NoRun.instance = NoAddress
    BY DEF NoRun
  <2> QED BY <2>1, NoRunIsRun DEF IsRun
<1> HIDE DEF r1
<1>2. /\ IsRun(r2) /\ r2.status = "running" /\ ~r2.disturbed /\ r2.instance = NoAddress
      /\ r2.request = request
  BY <1>1 DEF IsRun
<1> HIDE DEF r2
<1>3. /\ IsRun(r3) /\ r3.status = "running" /\ ~r3.disturbed /\ r3.instance = NoAddress
      /\ r3.request = request /\ r3.signer = signer
  BY <1>2 DEF IsRun
<1> HIDE DEF r3
<1>4. /\ IsRun(r4) /\ r4.status = "running" /\ ~r4.disturbed /\ r4.instance = NoAddress
      /\ r4.request = request /\ r4.signer = signer /\ r4.script = Script(request)
  BY <1>3 DEF IsRun
<1> HIDE DEF r4
<1>5. /\ r5.status = "running" /\ ~r5.disturbed /\ r5.instance = NoAddress
      /\ r5.request = request /\ r5.signer = signer /\ r5.script = Script(request)
      /\ r5.alone = \A other \in Operators : ~Running(other)
  BY <1>4 DEF IsRun
<1>6. runs' = [x \in Operators |-> IF x = o THEN r5 ELSE old(x)]
  BY DEF Start, r1, r2, r3, r4
<1> HIDE DEF r5
<1>7. ASSUME NEW x \in Operators, x # o
      PROVE  /\ SameButAlone(runs'[x], runs[x])
             /\ runs'[x].alone = (runs[x].alone /\ ~Running(x))
  <2>1. IsRun(runs[x])
    BY DEF RunInv, SignsFor
  <2>2. runs'[x] = old(x)
    BY <1>6, <1>7
  <2> QED BY <2>1, <2>2 DEF IsRun, SameButAlone
<1>8. runs'[o] = r5
  BY <1>6
<1> QED BY <1>5, <1>7, <1>8

LEMMA MineLeaves ==
  ASSUME RunInv, NEW a, Mine(a), NEW x \in Operators
  PROVE  LET r == runs'[x]
         IN  /\ r.status = runs[x].status /\ r.request = runs[x].request
             /\ r.signer = runs[x].signer /\ r.script = runs[x].script
             /\ r.alone = runs[x].alone /\ r.instance = runs[x].instance
             /\ r.implementation = runs[x].implementation /\ r.proxy = runs[x].proxy
<1> DEFINE new == [runs[x] EXCEPT !.disturbed = @ \/ runs[x].instance = a]
<1>1. IsRun(runs[x])
  BY DEF RunInv, SignsFor
<1>2. runs'[x] = runs[x] \/ runs'[x] = new
  BY DEF Mine
<1> QED BY <1>1, <1>2 DEF IsRun

(* The chain only grows: what is on it stays, and is what it was.          *)
Grows ==
  /\ Len(contracts) \in Nat /\ Len(contracts') \in Nat /\ Len(contracts) <= Len(contracts')
  /\ DOMAIN contracts = 1 .. Len(contracts) /\ DOMAIN contracts' = 1 .. Len(contracts')
  /\ \A a \in DOMAIN contracts :
       /\ contracts'[a].kind = contracts[a].kind
       /\ contracts[a].status = "mined" => contracts'[a].status = "mined"

ContractTyped(c) ==
  /\ c.kind \in Implementations \union {Proxy}
  /\ c.status \in {"pending", "mined", "failed"}
  /\ c.sender \in Signers
  /\ c.admin \in IF c.implementation = NoAddress THEN {NoCode} ELSE Administrators
  /\ c.lastInitializedRevision \in {0} \union {Revision[k] : k \in Implementations}

ChainTyped == \A a \in DOMAIN contracts : ContractTyped(contracts[a])

TypedAppends ==
  \E kind \in Implementations \union {Proxy}, sender \in Signers : \E args :
    contracts' = Append(contracts, Created(kind, args, sender))

TypedInitializes ==
  \E proxy, implementation : \E admin \in Administrators :
    /\ InitializeAccepted(proxy, implementation)
    /\ contracts' = SetUpProxy(proxy, implementation, admin)

TypedMoves == TypedAppends \/ Mines \/ TypedInitializes \/ Upgrades \/ UNCHANGED contracts

LEMMA SenderKept ==
  /\ \A kind, args, sender :
       LET d == Created(kind, args, sender)
       IN  /\ d.kind = kind /\ d.sender = sender /\ d.implementation = NoAddress
           /\ d.admin = NoCode /\ d.lastInitializedRevision = 0
  /\ \A c, status : IsContract(c) => [c EXCEPT !.status = status].sender = c.sender
  /\ \A c, implementation, admin, revision :
       IsContract(c) => AfterSetUp(c, implementation, admin, revision).sender = c.sender
<1>1. \A kind, args, sender :
        LET d == Created(kind, args, sender)
        IN  /\ d.kind = kind /\ d.sender = sender /\ d.implementation = NoAddress
            /\ d.admin = NoCode /\ d.lastInitializedRevision = 0
  BY DEF Created
<1>2. \A c, status : IsContract(c) => [c EXCEPT !.status = status].sender = c.sender
  BY DEF IsContract
<1>3. ASSUME NEW c, IsContract(c), NEW implementation, NEW admin, NEW revision
      PROVE  AfterSetUp(c, implementation, admin, revision).sender = c.sender
  <2> DEFINE d1 == [c EXCEPT !.implementation = implementation]
             d2 == [d1 EXCEPT !.admin = admin]
             d3 == [d2 EXCEPT !.lastInitializedRevision = revision]
  <2>1. IsContract(d1) /\ d1.sender = c.sender
    BY <1>3 DEF IsContract
  <2> HIDE DEF d1
  <2>2. IsContract(d2) /\ d2.sender = c.sender
    BY <2>1 DEF IsContract
  <2> HIDE DEF d2
  <2>3. d3.sender = c.sender
    BY <2>2 DEF IsContract
  <2> QED BY <2>3 DEF d1, d2, AfterSetUp
<1> QED BY <1>1, <1>2, <1>3

LEMMA AppendsTyped == ChainInv /\ ChainTyped /\ TypedAppends => ChainTyped' /\ Grows
<1> SUFFICES ASSUME ChainInv, ChainTyped,
                    NEW kind \in Implementations \union {Proxy}, NEW sender \in Signers, NEW args,
                    contracts' = Append(contracts, Created(kind, args, sender))
             PROVE  ChainTyped' /\ Grows
  BY DEF TypedAppends
<1> DEFINE c == Created(kind, args, sender)
           n == Len(contracts) + 1
<1>1. ContractTyped(c)
  BY NewContract, SenderKept DEF ContractTyped
<1> HIDE DEF c
<1>2. IsSequence(contracts) /\ contracts' = Append(contracts, c)
  BY DEF ChainInv, c
<1>3. /\ IsSequence(contracts') /\ Len(contracts) \in Nat /\ n \in Nat
      /\ DOMAIN contracts = 1 .. Len(contracts) /\ DOMAIN contracts' = 1 .. n
      /\ \A i \in DOMAIN contracts : contracts'[i] = contracts[i]
      /\ contracts'[n] = c
  BY <1>2, AppendToSequence
<1>4. Len(contracts') \in Nat /\ DOMAIN contracts' = 1 .. Len(contracts')
  BY <1>3, SequenceDomain
<1>5. n \in DOMAIN contracts' /\ Len(contracts) <= Len(contracts')
  BY <1>3, <1>4 DEF n
<1>6. \A i \in DOMAIN contracts' : i \in DOMAIN contracts \/ i = n
  BY <1>3 DEF n
<1> HIDE DEF n
<1>7. ChainTyped'
  BY <1>1, <1>3, <1>6 DEF ChainTyped, ContractTyped
<1> QED BY <1>3, <1>4, <1>5, <1>7 DEF Grows

LEMMA MinesTyped == ChainInv /\ ChainTyped /\ Mines => ChainTyped' /\ Grows
<1> SUFFICES ASSUME ChainInv, ChainTyped,
                    NEW a \in DOMAIN contracts, NEW status \in {"mined", "failed"},
                    contracts[a].status = "pending",
                    contracts' = [contracts EXCEPT ![a].status = status]
             PROVE  ChainTyped' /\ Grows
  BY DEF Mines
<1> DEFINE d == [contracts[a] EXCEPT !.status = status]
<1>1. /\ ContractTyped(d) /\ d.kind = contracts[a].kind
  <2>1. /\ IsContract(contracts[a]) /\ ContractTyped(contracts[a])
    BY DEF ChainInv, ChainTyped
  <2>2. /\ d.status = status /\ d.kind = contracts[a].kind /\ d.sender = contracts[a].sender
        /\ d.admin = contracts[a].admin /\ d.implementation = contracts[a].implementation
        /\ d.lastInitializedRevision = contracts[a].lastInitializedRevision
    BY <2>1, MinedContract, SenderKept
  <2> QED BY <2>1, <2>2 DEF ContractTyped
<1>2. contracts' = [contracts EXCEPT ![a] = d] /\ IsSequence(contracts)
  BY DEF ChainInv
<1> HIDE DEF d
<1>3. /\ IsSequence([contracts EXCEPT ![a] = d])
      /\ DOMAIN [contracts EXCEPT ![a] = d] = DOMAIN contracts
      /\ \A i \in DOMAIN contracts :
           [contracts EXCEPT ![a] = d][i] = IF i = a THEN d ELSE contracts[i]
  BY <1>2, ExceptInSequence
<1>4. /\ IsSequence(contracts') /\ DOMAIN contracts' = DOMAIN contracts
      /\ \A i \in DOMAIN contracts : contracts'[i] = IF i = a THEN d ELSE contracts[i]
  BY <1>2, <1>3
<1>5. ChainTyped'
  BY <1>1, <1>4 DEF ChainTyped, ContractTyped
<1>6. \A i \in DOMAIN contracts :
        /\ contracts'[i].kind = contracts[i].kind
        /\ contracts[i].status = "mined" => contracts'[i].status = "mined"
  BY <1>1, <1>4
<1>7. /\ Len(contracts) \in Nat /\ Len(contracts') \in Nat
      /\ DOMAIN contracts = 1 .. Len(contracts) /\ DOMAIN contracts' = 1 .. Len(contracts')
  BY <1>2, <1>4, SequenceDomain
<1>8. Len(contracts) <= Len(contracts')
  BY <1>4, <1>7
<1> QED BY <1>5, <1>6, <1>7, <1>8 DEF Grows

LEMMA SetUpTyped ==
  ASSUME ChainInv, ChainTyped, NEW proxy \in DOMAIN contracts,
         NEW implementation \in DOMAIN contracts,
         NEW admin \in Administrators,
         contracts[implementation].kind \in Implementations,
         contracts' = SetUpProxy(proxy, implementation, admin)
  PROVE  ChainTyped' /\ Grows
<1>1. /\ IsSequence(contracts)' /\ DOMAIN contracts' = DOMAIN contracts
      /\ \A a \in DOMAIN contracts : a # proxy => contracts'[a] = contracts[a]
      /\ contracts'[proxy].status = contracts[proxy].status
      /\ contracts'[proxy].kind = contracts[proxy].kind
      /\ contracts'[proxy].admin = admin /\ contracts'[proxy].implementation = implementation
      /\ contracts'[proxy].lastInitializedRevision = Revision[contracts[implementation].kind]
  BY SetUpChanges
<1>0. implementation # NoAddress
  BY SequenceDomain DEF ChainInv, NoAddress
<1>2. contracts'[proxy].sender = contracts[proxy].sender
  <2> DEFINE d == AfterSetUp(contracts[proxy], implementation, admin,
                             Revision[contracts[implementation].kind])
  <2>1. contracts' = [contracts EXCEPT ![proxy] = d]
    BY DEF SetUpProxy, AfterSetUp
  <2>2. d.sender = contracts[proxy].sender
    BY SenderKept DEF ChainInv
  <2> HIDE DEF d
  <2> QED BY <2>1, <2>2
<1>3. ContractTyped(contracts'[proxy])
  <2>1. ContractTyped(contracts[proxy])
    BY DEF ChainTyped
  <2> QED BY <2>1, <1>0, <1>1, <1>2 DEF ContractTyped
<1>4. ChainTyped'
  BY <1>1, <1>3 DEF ChainTyped, ContractTyped
<1>5. IsSequence(contracts) /\ IsSequence(contracts')
  BY <1>1 DEF ChainInv, IsSequence
<1>6. /\ Len(contracts) \in Nat /\ Len(contracts') \in Nat
      /\ DOMAIN contracts = 1 .. Len(contracts) /\ DOMAIN contracts' = 1 .. Len(contracts')
  BY <1>5, SequenceDomain
<1>7. Len(contracts) <= Len(contracts')
  BY <1>1, <1>6
<1>8. \A i \in DOMAIN contracts :
        /\ contracts'[i].kind = contracts[i].kind
        /\ contracts[i].status = "mined" => contracts'[i].status = "mined"
  BY <1>1
<1> QED BY <1>4, <1>6, <1>7, <1>8 DEF Grows

LEMMA MovesTyped == ChainInv /\ ChainTyped /\ TypedMoves => ChainTyped' /\ Grows
<1> SUFFICES ASSUME ChainInv, ChainTyped, TypedMoves PROVE ChainTyped' /\ Grows
  OBVIOUS
<1>1. CASE TypedAppends
  BY <1>1, AppendsTyped
<1>2. CASE Mines
  BY <1>2, MinesTyped
<1>3. CASE TypedInitializes
  <2>0. PICK proxy, implementation : \E admin \in Administrators :
          /\ InitializeAccepted(proxy, implementation)
          /\ contracts' = SetUpProxy(proxy, implementation, admin)
    BY <1>3 DEF TypedInitializes
  <2>1. PICK admin \in Administrators :
          /\ InitializeAccepted(proxy, implementation)
          /\ contracts' = SetUpProxy(proxy, implementation, admin)
    BY <2>0
  <2>2. /\ proxy \in DOMAIN contracts /\ implementation \in DOMAIN contracts
        /\ contracts[implementation].kind \in Implementations
    BY <2>1, Names DEF InitializeAccepted, InitializerAccepts, IsA, HasCode
  <2> QED BY <2>1, <2>2, SetUpTyped
<1>4. CASE Upgrades
  <2>1. PICK proxy, implementation : \E sender \in Signers :
          /\ UpgradeAccepted(proxy, implementation, sender)
          /\ contracts' = SetUpProxy(proxy, implementation, contracts[proxy].admin)
    BY <1>4 DEF Upgrades
  <2>2. /\ proxy \in DOMAIN contracts /\ implementation \in DOMAIN contracts
        /\ contracts[implementation].kind \in Implementations
    BY <2>1, Names DEF UpgradeAccepted, InitializerAccepts, IsA, HasCode
  <2>3. contracts[proxy].admin \in Administrators
    <3>1. contracts[proxy].admin # NoCode
      BY <2>1, SignersAssumption DEF UpgradeAccepted
    <3> QED BY <2>2, <3>1 DEF ChainTyped, ContractTyped
  <2> QED BY <2>1, <2>2, <2>3, SetUpTyped
<1>5. CASE UNCHANGED contracts
  <2>1. IsSequence(contracts)
    BY DEF ChainInv
  <2> QED BY <1>5, <2>1, SequenceDomain DEF ChainTyped, ContractTyped, Grows
<1> QED BY <1>1, <1>2, <1>3, <1>4, <1>5 DEF TypedMoves

----------------------------------------------------------------------------
(* The types of the file and of the runs.                                  *)

Statuses == {"none", "running", "done", "thrown", "exited", "interrupted"}

RunTyped(r) ==
  /\ r.status \in Statuses /\ IsAddress(r.instance)
  /\ IsScript(r.script)

TypesInv ==
  /\ ChainTyped
  /\ db = [k \in Keys |-> db[k]] /\ \A k \in Keys : IsAddress(db[k])
  /\ \A o \in Operators : RunTyped(runs[o])
  /\ started \in 0 .. MaxRuns

(* What a step of a run may leave in the file and of the run.              *)
StepTyped(r) ==
  /\ r.status \in Statuses /\ IsScript(r.script)
  /\ \/ r.instance = NoAddress
     \/ \E o \in Operators : r.instance = runs[o].instance
     \/ Len(contracts) \in Nat /\ r.instance = Len(contracts) + 1
        /\ r.instance = Len(contracts')

FileTyped ==
  /\ db' = [k \in Keys |-> db'[k]]
  /\ \A k \in Keys : db'[k] = db[k] \/ \E o \in Operators : db'[k] = runs[o].instance

LEMMA ProceedTyped ==
  ASSUME IInv, TypesInv, NEW o \in Operators, NEW run, Proceed(o, run),
         IsRun(run), run.status = runs[o].status, run.script = runs[o].script, run.script # <<>>,
         \/ run.instance = runs[o].instance
         \/ /\ Len(contracts) \in Nat /\ run.instance = Len(contracts) + 1
            /\ run.instance = Len(contracts')
  PROVE  \A x \in Operators : StepTyped(runs'[x])
<1>1. /\ \A x \in Operators : x # o => runs'[x] = runs[x]
      /\ SameButScript(runs'[o], run) /\ runs'[o].script = Tail(run.script)
  BY Proceeds DEF IInv
<1>2. IsScript(runs'[o].script)
  BY <1>1, TailScript DEF TypesInv, RunTyped
<1>3. StepTyped(runs'[o])
  BY <1>1, <1>2 DEF StepTyped, SameButScript, TypesInv, RunTyped
<1>4. ASSUME NEW x \in Operators, x # o PROVE StepTyped(runs'[x])
  BY <1>1, <1>4 DEF StepTyped, TypesInv, RunTyped
<1> QED BY <1>3, <1>4

LEMMA EndTyped ==
  ASSUME IInv, TypesInv, NEW o \in Operators, NEW status \in Statuses, End(o, status)
  PROVE  \A x \in Operators : StepTyped(runs'[x])
<1>1. /\ \A x \in Operators : x # o => runs'[x] = runs[x]
      /\ runs'[o].status = status /\ runs'[o].script = <<>> /\ runs'[o].instance = NoAddress
  BY Ends DEF IInv
<1>2. StepTyped(runs'[o])
  BY <1>1, EmptyScript DEF StepTyped
<1>3. ASSUME NEW x \in Operators, x # o PROVE StepTyped(runs'[x])
  BY <1>1, <1>3 DEF StepTyped, TypesInv, RunTyped
<1> QED BY <1>2, <1>3

LEMMA AdvanceTyped ==
  ASSUME IInv, TypesInv, NEW o \in Operators, Advance(o)
  PROVE  /\ TypedMoves /\ FileTyped /\ UNCHANGED started
         /\ \A x \in Operators : StepTyped(runs'[x])
<1> DEFINE Stepped == \A x \in Operators : StepTyped(runs'[x])
<1>a. IsRun(runs[o]) /\ SignsFor(runs[o])
  BY DEF IInv, RunInv, SignsFor
<1>b. UNCHANGED db => FileTyped
  BY DEF FileTyped, TypesInv
<1>c. AtStep(o, Step(o).op) => /\ runs[o].script # <<>> /\ WellTyped(Step(o))
                               /\ runs[o].signer \in Signers
  BY <1>a, TailScript DEF AtStep, Running, SignsFor, TypesInv, RunTyped, Step
<1>d. /\ Proceed(o, runs[o]) /\ runs[o].script # <<>> => Stepped
      /\ \A status \in Statuses : End(o, status) => Stepped
  BY <1>a, ProceedTyped, EndTyped
<1>1. CASE SendDeployment(o)
  <2>0. AtStep(o, Step(o).op) /\ Step(o).op = "deploy" /\ UNCHANGED <<db, started>>
    BY <1>1 DEF SendDeployment, AtStep
  <2>1. CASE ConstructorAccepts(Step(o).kind, Step(o).args)
    <3>1. /\ contracts' = Append(contracts, Created(Step(o).kind, Step(o).args, runs[o].signer))
          /\ Proceed(o, [runs[o] EXCEPT !.instance = Len(contracts) + 1])
      BY <1>1, <2>1 DEF SendDeployment
    <3>2. Step(o).kind \in Implementations \union {Proxy} /\ runs[o].signer \in Signers
      BY <2>0, <1>c DEF WellTyped
    <3>3. TypedAppends
      BY <3>1, <3>2 DEF TypedAppends
    <3>4. Len(contracts) \in Nat /\ Len(contracts') = Len(contracts) + 1
      <4> DEFINE c == Created(Step(o).kind, Step(o).args, runs[o].signer)
      <4> HIDE DEF c
      <4>1. contracts' = Append(contracts, c) /\ IsSequence(contracts)
        BY <3>1 DEF c, IInv, ChainInv
      <4>2. /\ Len(contracts) \in Nat /\ IsSequence(contracts')
            /\ DOMAIN contracts' = 1 .. (Len(contracts) + 1)
        BY <4>1, AppendToSequence
      <4>3. Len(contracts') \in Nat /\ DOMAIN contracts' = 1 .. Len(contracts')
        BY <4>2, SequenceDomain
      <4>4. Len(contracts) + 1 \in 1 .. Len(contracts')
            /\ Len(contracts') \in 1 .. (Len(contracts) + 1)
        BY <4>2, <4>3
      <4> QED BY <4>2, <4>3, <4>4
    <3>5. Stepped
      <4> DEFINE run == [runs[o] EXCEPT !.instance = Len(contracts) + 1]
      <4>0. run = [runs[o] EXCEPT !.instance = Len(contracts) + 1]
        OBVIOUS
      <4>2. Proceed(o, run) /\ runs[o].script # <<>>
        BY <3>1, <2>0, <1>c
      <4> HIDE DEF run
      <4>1. /\ IsRun(run) /\ run.status = runs[o].status /\ run.script = runs[o].script
            /\ run.instance = Len(contracts) + 1
        BY <4>0, <1>a, InstanceSet
      <4> QED BY <4>1, <4>2, <3>4, ProceedTyped
    <3> QED BY <3>3, <3>5, <2>0, <1>b DEF TypedMoves
  <2>2. CASE ~ConstructorAccepts(Step(o).kind, Step(o).args)
    <3>1. End(o, "thrown") /\ UNCHANGED contracts
      BY <1>1, <2>2 DEF SendDeployment
    <3> QED BY <3>1, <2>0, <1>b, <1>d DEF TypedMoves, Statuses
  <2> QED BY <2>1, <2>2
<1>2. CASE AwaitDeployment(o)
  <2>1. /\ UNCHANGED <<contracts, db, started>> /\ runs[o].script # <<>>
        /\ (Proceed(o, runs[o]) \/ End(o, "thrown"))
    BY <1>2 DEF AwaitDeployment, AtStep
  <2> QED BY <2>1, <1>b, <1>d DEF TypedMoves, Statuses
<1>3. CASE Register(o)
  <2>1. /\ UNCHANGED <<contracts, started>> /\ Proceed(o, runs[o])
        /\ db' = [db EXCEPT ![Step(o).key] = runs[o].instance]
        /\ AtStep(o, Step(o).op) /\ Step(o).op = "register"
    BY <1>3 DEF Register, AtStep
  <2>2. runs[o].script # <<>> /\ Step(o).key \in Keys
    BY <2>1, <1>c DEF WellTyped
  <2>3. FileTyped
    BY <2>1, <2>2 DEF FileTyped, TypesInv
  <2> QED BY <2>1, <2>2, <2>3, <1>d DEF TypedMoves
<1>4. CASE Verify(o)
  <2>1. /\ UNCHANGED <<contracts, db, started>> /\ runs[o].script # <<>>
        /\ (Proceed(o, runs[o]) \/ End(o, "thrown"))
    BY <1>4 DEF Verify, AtStep
  <2> QED BY <2>1, <1>b, <1>d DEF TypedMoves, Statuses
<1>5. CASE GetImplementation(o)
  <2>1. /\ UNCHANGED <<contracts, db, started>> /\ runs[o].script # <<>>
        /\ \/ End(o, "thrown")
           \/ Proceed(o, [runs[o] EXCEPT !.implementation = db[Step(o).key]])
    BY <1>5 DEF GetImplementation, AtStep
  <2>2. ASSUME Proceed(o, [runs[o] EXCEPT !.implementation = db[Step(o).key]]) PROVE Stepped
    <3> DEFINE run == [runs[o] EXCEPT !.implementation = db[Step(o).key]]
    <3>0. run = [runs[o] EXCEPT !.implementation = db[Step(o).key]]
      OBVIOUS
    <3>2. Proceed(o, run)
      BY <2>2
    <3> HIDE DEF run
    <3>1. /\ IsRun(run) /\ run.status = runs[o].status /\ run.script = runs[o].script
          /\ run.instance = runs[o].instance
      BY <1>a, <3>0, ImplementationSet
    <3> QED BY <3>1, <3>2, <2>1, ProceedTyped
  <2> QED BY <2>1, <2>2, <1>b, <1>d DEF TypedMoves, Statuses
<1>6. CASE GetStakedLayProxy(o)
  <2>1. /\ UNCHANGED <<contracts, db, started>> /\ runs[o].script # <<>>
        /\ \/ End(o, "thrown")
           \/ Proceed(o, [runs[o] EXCEPT !.proxy = db["StakedLay"]])
    BY <1>6 DEF GetStakedLayProxy, AtStep
  <2>2. ASSUME Proceed(o, [runs[o] EXCEPT !.proxy = db["StakedLay"]]) PROVE Stepped
    <3> DEFINE run == [runs[o] EXCEPT !.proxy = db["StakedLay"]]
    <3>1. /\ IsRun(run) /\ run.status = runs[o].status /\ run.script = runs[o].script
          /\ run.instance = runs[o].instance
      BY <1>a, ProxySet
    <3>2. Proceed(o, run)
      BY <2>2
    <3> HIDE DEF run
    <3> QED BY <3>1, <3>2, <2>1, ProceedTyped
  <2> QED BY <2>1, <2>2, <1>b, <1>d DEF TypedMoves, Statuses
<1>7. CASE SendInitialize(o)
  <2>1. /\ UNCHANGED <<db, started>> /\ runs[o].script # <<>>
        /\ (Proceed(o, runs[o]) \/ End(o, "thrown"))
        /\ AtStep(o, Step(o).op) /\ Step(o).op = "initialize"
    BY <1>7 DEF SendInitialize, AtStep
  <2>2. Step(o).admin \in Administrators
    BY <2>1, <1>c DEF WellTyped
  <2>3. TypedInitializes \/ UNCHANGED contracts
    BY <1>7, <2>2 DEF SendInitialize, TypedInitializes
  <2> QED BY <2>1, <2>3, <1>b, <1>d DEF TypedMoves, Statuses
<1>8. CASE SendUpgrade(o)
  <2>1. /\ UNCHANGED <<db, started>> /\ runs[o].script # <<>>
        /\ (Proceed(o, runs[o]) \/ End(o, "thrown"))
    BY <1>8 DEF SendUpgrade, AtStep
  <2>2. runs[o].signer \in Signers
    BY <1>8, <1>a DEF SendUpgrade, AtStep, Running, SignsFor
  <2>3. Upgrades \/ UNCHANGED contracts
    BY <1>8, <2>2 DEF SendUpgrade, Upgrades
  <2> QED BY <2>1, <2>3, <1>b, <1>d DEF TypedMoves, Statuses
<1>9. CASE Refuse(o)
  <2>1. UNCHANGED <<contracts, db, started>> /\ (End(o, "exited") \/ End(o, "thrown"))
    BY <1>9 DEF Refuse
  <2> QED BY <2>1, <1>b, <1>d DEF TypedMoves, Statuses
<1>10. CASE Finish(o)
  <2>1. UNCHANGED <<contracts, db, started>> /\ End(o, "done")
    BY <1>10 DEF Finish
  <2> QED BY <2>1, <1>b, <1>d DEF TypedMoves, Statuses
<1> QED
  BY <1>1, <1>2, <1>3, <1>4, <1>5, <1>6, <1>7, <1>8, <1>9, <1>10 DEF Advance

LEMMA NextTyped ==
  ASSUME IInv, TypesInv, [Next]_vars
  PROVE  /\ TypedMoves \/ (Network = "hardhat" /\ contracts' = <<>>)
         /\ FileTyped /\ started' \in 0 .. MaxRuns
         /\ \A x \in Operators : StepTyped(runs'[x])
<1>b. UNCHANGED db => FileTyped
  BY DEF FileTyped, TypesInv
<1>1. CASE \E o \in Operators : \E request \in Requests, signer \in Signers :
             Start(o, request, signer)
  <2>1. PICK o \in Operators, request \in Requests, signer \in Signers :
          Start(o, request, signer)
    BY <1>1
  <2>2. (contracts' = <<>> /\ Network = "hardhat") \/ UNCHANGED contracts
    BY <2>1 DEF Start
  <2>3. UNCHANGED db /\ started < MaxRuns /\ started' = started + 1
    BY <2>1 DEF Start
  <2>4. started' \in 0 .. MaxRuns
    BY <2>3, RequestsAssumption DEF TypesInv
  <2>5. ASSUME NEW x \in Operators PROVE StepTyped(runs'[x])
    <3>1. CASE x = o
      <4>1. /\ runs'[x].status = "running" /\ runs'[x].script = Script(request)
            /\ runs'[x].instance = NoAddress
        BY <2>1, <3>1, Starts DEF IInv
      <4> QED BY <4>1, TasksAreScripts DEF StepTyped, Statuses
    <3>2. CASE x # o
      <4>1. /\ runs'[x].status = runs[x].status /\ runs'[x].script = runs[x].script
            /\ runs'[x].instance = runs[x].instance
        <5>1. SameButAlone(runs'[x], runs[x])
          BY <2>1, <3>2, Starts DEF IInv
        <5> QED BY <5>1 DEF SameButAlone
      <4> QED BY <4>1 DEF StepTyped, TypesInv, RunTyped
    <3> QED BY <3>1, <3>2
  <2> QED BY <2>2, <2>3, <2>4, <2>5, <1>b DEF TypedMoves
<1>2. CASE \E o \in Operators : Advance(o)
  <2>1. UNCHANGED started => started' \in 0 .. MaxRuns
    BY DEF TypesInv
  <2> QED BY <1>2, <2>1, AdvanceTyped
<1>3. CASE \E o \in Operators : Interrupt(o)
  <2>1. PICK o \in Operators : Interrupt(o)
    BY <1>3
  <2>2. UNCHANGED <<contracts, db, started>> /\ End(o, "interrupted")
    BY <2>1 DEF Interrupt
  <2>3. \A x \in Operators : StepTyped(runs'[x])
    BY <2>2, EndTyped DEF Statuses
  <2> QED BY <2>2, <2>3, <1>b DEF TypedMoves, TypesInv
<1>4. CASE \E a \in DOMAIN contracts : Mine(a)
  <2>1. PICK a \in DOMAIN contracts : Mine(a)
    BY <1>4
  <2>2. Mines /\ UNCHANGED <<db, started>>
    BY <2>1 DEF Mine, Mines
  <2>3. ASSUME NEW x \in Operators PROVE StepTyped(runs'[x])
    <3>1. /\ runs'[x].status = runs[x].status /\ runs'[x].script = runs[x].script
          /\ runs'[x].instance = runs[x].instance
      BY <2>1, MineLeaves DEF IInv
    <3> QED BY <3>1 DEF StepTyped, TypesInv, RunTyped
  <2> QED BY <2>2, <2>3, <1>b DEF TypedMoves, TypesInv
<1>5. CASE UNCHANGED vars
  <2>1. UNCHANGED <<contracts, db, runs, started>>
    BY <1>5 DEF vars
  <2>2. ASSUME NEW x \in Operators PROVE StepTyped(runs'[x])
    BY <2>1 DEF StepTyped, TypesInv, RunTyped
  <2> QED BY <2>1, <2>2, <1>b DEF TypedMoves, TypesInv
<1> QED BY <1>1, <1>2, <1>3, <1>4, <1>5 DEF Next

LEMMA StepTypes == IInv /\ TypesInv /\ [Next]_vars => TypesInv'
<1> SUFFICES ASSUME IInv, TypesInv, [Next]_vars PROVE TypesInv'
  OBVIOUS
<1>1. /\ TypedMoves \/ (Network = "hardhat" /\ contracts' = <<>>)
      /\ FileTyped /\ started' \in 0 .. MaxRuns
      /\ \A x \in Operators : StepTyped(runs'[x])
  BY NextTyped
<1>2. ChainTyped' /\ (Grows \/ Network = "hardhat")
  <2>1. CASE TypedMoves
    BY <2>1, MovesTyped DEF IInv, TypesInv
  <2>2. CASE Network = "hardhat" /\ contracts' = <<>>
    <3>1. DOMAIN contracts' = {}
      BY <2>2
    <3> QED BY <2>2, <3>1 DEF ChainTyped
  <2> QED BY <1>1, <2>1, <2>2
<1>4. ASSUME NEW a, IsAddress(a) PROVE a \in Nat /\ (Network # "hardhat" => a <= Len(contracts'))
  BY <1>2, <1>4 DEF IsAddress, Grows
<1>5. \A k \in Keys : IsAddress(db[k])'
  <2> SUFFICES ASSUME NEW k \in Keys
               PROVE  db'[k] \in Nat /\ (Network # "hardhat" => db'[k] <= Len(contracts'))
    BY DEF IsAddress
  <2>1. IsAddress(db[k]) /\ \A o \in Operators : IsAddress(runs[o].instance)
    BY DEF TypesInv, RunTyped
  <2>2. db'[k] = db[k] \/ \E o \in Operators : db'[k] = runs[o].instance
    BY <1>1 DEF FileTyped
  <2> QED BY <2>1, <2>2, <1>4
<1>6. ASSUME NEW x \in Operators PROVE RunTyped(runs[x])'
  <2> DEFINE i == runs'[x].instance
  <2>1. i \in Nat /\ (Network # "hardhat" => i <= Len(contracts'))
    <3>1. \/ i = NoAddress
          \/ \E o \in Operators : i = runs[o].instance
          \/ Len(contracts) \in Nat /\ i = Len(contracts) + 1 /\ i = Len(contracts')
      BY <1>1 DEF StepTyped
    <3>2. \A o \in Operators : IsAddress(runs[o].instance)
      BY DEF TypesInv, RunTyped
    <3> HIDE DEF i
    <3>3. CASE i = NoAddress
      BY <3>3, <1>2 DEF NoAddress, Grows
    <3>4. CASE \E o \in Operators : i = runs[o].instance
      BY <3>2, <3>4, <1>4
    <3>5. CASE Len(contracts) \in Nat /\ i = Len(contracts) + 1 /\ i = Len(contracts')
      BY <3>5
    <3> QED BY <3>1, <3>3, <3>4, <3>5
  <2>2. runs'[x].status \in Statuses /\ IsScript(runs'[x].script)
    BY <1>1 DEF StepTyped
  <2> QED BY <2>1, <2>2 DEF RunTyped, IsAddress
<1> QED BY <1>1, <1>2, <1>5, <1>6 DEF TypesInv, FileTyped

LEMMA InitTypes == Init => TypesInv
<1> SUFFICES ASSUME Init PROVE TypesInv
  OBVIOUS
<1>1. Len(contracts) = 0 /\ DOMAIN contracts = {}
  BY DEF Init
<1>2. IsAddress(NoAddress)
  BY <1>1 DEF IsAddress, NoAddress
<1>3. NoRun.status = "none" /\ NoRun.script = <<>> /\ NoRun.instance = NoAddress
  BY DEF NoRun
<1>4. RunTyped(NoRun)
  BY <1>2, <1>3, EmptyScript DEF RunTyped, Statuses
<1> QED BY <1>1, <1>2, <1>4, RequestsAssumption DEF Init, TypesInv, ChainTyped

LEMMA AlwaysTyped == Spec => [](IInv /\ TypesInv)
BY InitInv, StepInv, InitTypes, StepTypes, PTL DEF Spec

(* The variables keep their types, for any operators, tasks and number of  *)
(* runs.  A proxy has no administrator until it is set up, and then one of *)
(* those the tasks name; the file names only what was sent to the chain.   *)
THEOREM TypeCorrect == Spec => []TypeOK
<1>1. IInv /\ TypesInv => TypeOK
  <2> SUFFICES ASSUME IInv, TypesInv PROVE TypeOK
    OBVIOUS
  <2>1. \A a \in DOMAIN contracts :
          contracts[a].implementation \in {NoAddress} \union DOMAIN contracts
    BY DEF IInv, ChainInv, RunsWhatItWasInitialisedFor, HasCode
  <2> QED BY <2>1 DEF TypeOK, TypesInv, ChainTyped, ContractTyped, RunTyped, Statuses
<1> QED BY <1>1, AlwaysTyped, PTL

----------------------------------------------------------------------------
(* What a run has done so far: the steps of its script that it has taken,  *)
(* and what they left on the chain, in the file and in its variables.      *)

Taken(r) == Len(Script(r.request)) - Len(r.script)

OnScript(r) ==
  LET s == Script(r.request) IN
  /\ Taken(r) \in Nat
  /\ \A i \in 1 .. Len(r.script) : r.script[i] = s[Taken(r) + i]

(* The last creation before step n of the script s. *)
LastDeploy(s, d, n) ==
  d \in 1 .. n /\ s[d].op = "deploy" /\ \A j \in d + 1 .. n : s[j].op # "deploy"

Registers(step, key) == step.op = "register" /\ step.key = key

(* A contract of its kind is there, once it has been waited for. *)
On(chain, a) == a \in DOMAIN chain /\ chain[a].status = "mined"

Made(chain, s, n, instance) ==
  \A d \in 1 .. n : LastDeploy(s, d, n) =>
    /\ instance \in DOMAIN chain /\ chain[instance].kind = s[d].kind
    /\ \A w \in d + 1 .. n : s[w].op = "await" => On(chain, instance)

(* What was registered under a key is the contract made before that. *)
Filed(chain, file, s, n, instance) ==
  \A i \in 1 .. n, d \in 1 .. n :
    /\ LastDeploy(s, d, i) /\ s[i].op = "register"
    /\ \A j \in i + 1 .. n : ~Registers(s[j], s[i].key)
    => LET a == file[s[i].key] IN
       /\ a \in DOMAIN chain /\ chain[a].kind = s[d].kind
       /\ \A w \in d + 1 .. n : s[w].op = "await" /\ LastDeploy(s, d, w) => On(chain, a)
       /\ LastDeploy(s, d, n) => a = instance

(* What was read from the file is what the file has. *)
ReadImplementation(file, s, n, implementation) ==
  \A i \in 1 .. n :
    /\ s[i].op = "get implementation"
    /\ \A j \in i + 1 .. n : s[j].op # "get implementation" /\ ~Registers(s[j], s[i].key)
    => implementation = file[s[i].key]

ReadProxy(file, s, n, proxy) ==
  \A i \in 1 .. n :
    s[i].op = "get proxy" /\ (\A j \in i + 1 .. n : ~Registers(s[j], "StakedLay"))
    => proxy = file["StakedLay"]

Transactions == {"initialize", "upgrade"}

(* Of common-deployment: the proxy is set up, and runs what it was told to *)
(* two steps before.                                                       *)
SetUp(chain, file, s, n) ==
  \A i \in 1 .. n :
    /\ s[i].op = "initialize" =>
         /\ chain[file["StakedLay"]].implementation # NoAddress
         /\ chain[file["StakedLay"]].admin = s[i].admin
    /\ s[i].op \in Transactions /\ (\A j \in i + 1 .. n : s[j].op \notin Transactions) =>
         chain[file["StakedLay"]].implementation = file[s[i - 2].key]

History(chain, file, r) ==
  LET s == Script(r.request)
      n == Taken(r)
  IN /\ Made(chain, s, n, r.instance) /\ Filed(chain, file, s, n, r.instance)
     /\ ReadImplementation(file, s, n, r.implementation) /\ ReadProxy(file, s, n, r.proxy)
     /\ r.request.task = "common-deployment" => SetUp(chain, file, s, n)

Course ==
  \A o \in Operators : Running(o) =>
    /\ runs[o].request \in Requests /\ OnScript(runs[o])
    /\ runs[o].alone => /\ \A x \in Operators \ {o} : ~Running(x)
                       /\ History(contracts, db, runs[o])

(* A chain on which nothing that was there has become something else. *)
Grown(chain, later) ==
  \A a \in DOMAIN chain :
    /\ a \in DOMAIN later /\ later[a].kind = chain[a].kind
    /\ chain[a].status = "mined" => later[a].status = "mined"

----------------------------------------------------------------------------
(* How each of them goes from one step of the script to the next.          *)

LEMMA MadeGrows ==
  ASSUME NEW chain, NEW later, Grown(chain, later), NEW s, NEW n, NEW instance,
         Made(chain, s, n, instance)
  PROVE  Made(later, s, n, instance)
BY DEF Made, Grown, On

LEMMA MadeNext ==
  ASSUME NEW chain, NEW s, NEW n \in Nat, NEW instance, Made(chain, s, n, instance),
         s[n + 1].op # "deploy", s[n + 1].op = "await" => On(chain, instance)
  PROVE  Made(chain, s, n + 1, instance)
<1> SUFFICES ASSUME NEW d \in 1 .. n + 1, LastDeploy(s, d, n + 1)
             PROVE  /\ instance \in DOMAIN chain /\ chain[instance].kind = s[d].kind
                    /\ \A w \in d + 1 .. n + 1 : s[w].op = "await" => On(chain, instance)
  BY DEF Made
<1>1. d \in 1 .. n /\ LastDeploy(s, d, n)
  BY DEF LastDeploy
<1>2. /\ instance \in DOMAIN chain /\ chain[instance].kind = s[d].kind
      /\ \A w \in d + 1 .. n : s[w].op = "await" => On(chain, instance)
  BY <1>1 DEF Made
<1>3. \A w \in d + 1 .. n + 1 : w \in d + 1 .. n \/ w = n + 1
  BY <1>1
<1> QED BY <1>2, <1>3

LEMMA MadeNew ==
  ASSUME NEW chain, NEW s, NEW n \in Nat, NEW instance \in DOMAIN chain,
         s[n + 1].op = "deploy", chain[instance].kind = s[n + 1].kind
  PROVE  Made(chain, s, n + 1, instance)
<1> SUFFICES ASSUME NEW d \in 1 .. n + 1, LastDeploy(s, d, n + 1)
             PROVE  /\ chain[instance].kind = s[d].kind
                    /\ \A w \in d + 1 .. n + 1 : s[w].op = "await" => On(chain, instance)
  BY DEF Made
<1>1. d = n + 1
  BY DEF LastDeploy
<1> QED BY <1>1

LEMMA FiledGrows ==
  ASSUME NEW chain, NEW later, Grown(chain, later), NEW file, NEW s, NEW n, NEW instance,
         Filed(chain, file, s, n, instance)
  PROVE  Filed(later, file, s, n, instance)
BY DEF Filed, Grown, On

LEMMA FiledNext ==
  ASSUME NEW chain, NEW file, NEW s, NEW n \in Nat, NEW instance,
         Filed(chain, file, s, n, instance),
         s[n + 1].op \notin {"deploy", "register"}, s[n + 1].op = "await" => On(chain, instance)
  PROVE  Filed(chain, file, s, n + 1, instance)
<1> SUFFICES ASSUME NEW i \in 1 .. n + 1, NEW d \in 1 .. n + 1,
                    LastDeploy(s, d, i), s[i].op = "register",
                    \A j \in i + 1 .. n + 1 : ~Registers(s[j], s[i].key)
             PROVE  LET a == file[s[i].key] IN
                    /\ a \in DOMAIN chain /\ chain[a].kind = s[d].kind
                    /\ \A w \in d + 1 .. n + 1 :
                         s[w].op = "await" /\ LastDeploy(s, d, w) => On(chain, a)
                    /\ LastDeploy(s, d, n + 1) => a = instance
  BY DEF Filed
<1> DEFINE a == file[s[i].key]
<1>1. i \in 1 .. n /\ d \in 1 .. n /\ \A j \in i + 1 .. n : j \in i + 1 .. n + 1
  BY DEF LastDeploy
<1>2. /\ a \in DOMAIN chain /\ chain[a].kind = s[d].kind
      /\ \A w \in d + 1 .. n : s[w].op = "await" /\ LastDeploy(s, d, w) => On(chain, a)
      /\ LastDeploy(s, d, n) => a = instance
  BY <1>1 DEF Filed
<1> HIDE DEF a
<1>3. LastDeploy(s, d, n + 1) => LastDeploy(s, d, n)
  BY <1>1 DEF LastDeploy
<1>4. \A w \in d + 1 .. n + 1 : w \in d + 1 .. n \/ w = n + 1
  BY <1>1
<1>5. \A w \in d + 1 .. n + 1 : s[w].op = "await" /\ LastDeploy(s, d, w) => On(chain, a)
  BY <1>2, <1>3, <1>4
<1> QED BY <1>2, <1>3, <1>5 DEF a

LEMMA FiledNew ==
  ASSUME NEW chain, NEW file, NEW s, NEW n \in Nat, NEW instance, NEW newer,
         Filed(chain, file, s, n, instance), s[n + 1].op = "deploy"
  PROVE  Filed(chain, file, s, n + 1, newer)
<1> SUFFICES ASSUME NEW i \in 1 .. n + 1, NEW d \in 1 .. n + 1,
                    LastDeploy(s, d, i), s[i].op = "register",
                    \A j \in i + 1 .. n + 1 : ~Registers(s[j], s[i].key)
             PROVE  LET a == file[s[i].key] IN
                    /\ a \in DOMAIN chain /\ chain[a].kind = s[d].kind
                    /\ \A w \in d + 1 .. n + 1 :
                         s[w].op = "await" /\ LastDeploy(s, d, w) => On(chain, a)
                    /\ LastDeploy(s, d, n + 1) => a = newer
  BY DEF Filed
<1> DEFINE a == file[s[i].key]
<1>1. i \in 1 .. n /\ d \in 1 .. n /\ \A j \in i + 1 .. n : j \in i + 1 .. n + 1
  BY DEF LastDeploy
<1>2. /\ a \in DOMAIN chain /\ chain[a].kind = s[d].kind
      /\ \A w \in d + 1 .. n : s[w].op = "await" /\ LastDeploy(s, d, w) => On(chain, a)
  BY <1>1 DEF Filed
<1> HIDE DEF a
<1>3. ~LastDeploy(s, d, n + 1)
  BY <1>1 DEF LastDeploy
<1>4. \A w \in d + 1 .. n + 1 : w \in d + 1 .. n \/ w = n + 1
  BY <1>1
<1>5. \A w \in d + 1 .. n + 1 : s[w].op = "await" /\ LastDeploy(s, d, w) => On(chain, a)
  BY <1>2, <1>4
<1> QED BY <1>2, <1>3, <1>5 DEF a

LEMMA FiledRegister ==
  ASSUME NEW chain, NEW file, file = [k \in Keys |-> file[k]], NEW later,
         NEW s, NEW n \in Nat, NEW instance,
         \A i \in 1 .. n + 1 : WellTyped(s[i]),
         Made(chain, s, n, instance), Filed(chain, file, s, n, instance),
         s[n + 1].op = "register", later = [file EXCEPT ![s[n + 1].key] = instance]
  PROVE  Filed(chain, later, s, n + 1, instance)
<1> SUFFICES ASSUME NEW i \in 1 .. n + 1, NEW d \in 1 .. n + 1,
                    LastDeploy(s, d, i), s[i].op = "register",
                    \A j \in i + 1 .. n + 1 : ~Registers(s[j], s[i].key)
             PROVE  LET a == later[s[i].key] IN
                    /\ a \in DOMAIN chain /\ chain[a].kind = s[d].kind
                    /\ \A w \in d + 1 .. n + 1 :
                         s[w].op = "await" /\ LastDeploy(s, d, w) => On(chain, a)
                    /\ LastDeploy(s, d, n + 1) => a = instance
  BY DEF Filed
<1> DEFINE a == later[s[i].key]
<1>0. /\ \A k \in Keys : later[k] = IF k = s[n + 1].key THEN instance ELSE file[k]
      /\ s[i].key \in Keys /\ n + 1 \in 1 .. n + 1
  <2>1. \A k \in Keys : later[k] = IF k = s[n + 1].key THEN instance ELSE file[k]
    OBVIOUS
  <2>2. s[i].key \in Keys
    BY DEF WellTyped
  <2> QED BY <2>1, <2>2
<1>1. d \in 1 .. n /\ \A w \in d + 1 .. n + 1 : w \in d + 1 .. n \/ w = n + 1
  <2>1. d # n + 1
    BY DEF LastDeploy
  <2> QED BY <2>1
<1>2. LastDeploy(s, d, n + 1) => LastDeploy(s, d, n)
  BY <1>1 DEF LastDeploy
<1>3. CASE i = n + 1
  <2>1. a = instance /\ LastDeploy(s, d, n)
    BY <1>0, <1>2, <1>3
  <2>2. /\ instance \in DOMAIN chain /\ chain[instance].kind = s[d].kind
        /\ \A w \in d + 1 .. n : s[w].op = "await" => On(chain, instance)
    BY <1>1, <2>1 DEF Made
  <2> QED BY <1>1, <2>1, <2>2
<1>4. CASE i # n + 1
  <2>1. i \in 1 .. n /\ n + 1 \in i + 1 .. n + 1 /\ \A j \in i + 1 .. n : j \in i + 1 .. n + 1
    BY <1>4
  <2>2. a = file[s[i].key]
    BY <1>0, <2>1 DEF Registers
  <2>3. /\ a \in DOMAIN chain /\ chain[a].kind = s[d].kind
        /\ \A w \in d + 1 .. n : s[w].op = "await" /\ LastDeploy(s, d, w) => On(chain, a)
        /\ LastDeploy(s, d, n) => a = instance
    BY <1>1, <2>1, <2>2 DEF Filed
  <2> HIDE DEF a
  <2>4. \A w \in d + 1 .. n + 1 : s[w].op = "await" /\ LastDeploy(s, d, w) => On(chain, a)
    BY <1>1, <2>3
  <2> QED BY <1>2, <2>3, <2>4 DEF a
<1> QED BY <1>3, <1>4

LEMMA ReadNext ==
  ASSUME NEW file, NEW s, NEW n \in Nat, s[n + 1].op # "register"
  PROVE  /\ \A implementation :
              /\ ReadImplementation(file, s, n, implementation)
              /\ s[n + 1].op # "get implementation"
              => ReadImplementation(file, s, n + 1, implementation)
         /\ \A proxy : ReadProxy(file, s, n, proxy) /\ s[n + 1].op # "get proxy"
                        => ReadProxy(file, s, n + 1, proxy)
         /\ s[n + 1].op = "get implementation"
              => ReadImplementation(file, s, n + 1, file[s[n + 1].key])
         /\ ReadProxy(file, s, n + 1, file["StakedLay"])
<1>0. \A i \in 1 .. n + 1 :
        /\ i \in 1 .. n \/ i = n + 1
        /\ i # n + 1 => n + 1 \in i + 1 .. n + 1
        /\ \A j \in i + 1 .. n : j \in i + 1 .. n + 1
  OBVIOUS
<1>1. ASSUME NEW implementation, ReadImplementation(file, s, n, implementation),
             s[n + 1].op # "get implementation"
      PROVE  ReadImplementation(file, s, n + 1, implementation)
  BY <1>0, <1>1 DEF ReadImplementation
<1>2. ASSUME NEW proxy, ReadProxy(file, s, n, proxy), s[n + 1].op # "get proxy"
      PROVE  ReadProxy(file, s, n + 1, proxy)
  BY <1>0, <1>2 DEF ReadProxy
<1>3. s[n + 1].op = "get implementation"
      => ReadImplementation(file, s, n + 1, file[s[n + 1].key])
  BY <1>0 DEF ReadImplementation
<1>4. ReadProxy(file, s, n + 1, file["StakedLay"])
  BY DEF ReadProxy
<1> QED BY <1>1, <1>2, <1>3, <1>4

LEMMA ReadRegister ==
  ASSUME NEW file, file = [k \in Keys |-> file[k]], NEW later, NEW instance,
         NEW s, NEW n \in Nat, \A i \in 1 .. n + 1 : WellTyped(s[i]),
         s[n + 1].op = "register", later = [file EXCEPT ![s[n + 1].key] = instance]
  PROVE  /\ \A implementation : ReadImplementation(file, s, n, implementation)
                                 => ReadImplementation(later, s, n + 1, implementation)
         /\ \A proxy : ReadProxy(file, s, n, proxy) => ReadProxy(later, s, n + 1, proxy)
<1>0. /\ \A i \in 1 .. n + 1 :
           /\ i \in 1 .. n \/ i = n + 1
           /\ i # n + 1 => n + 1 \in i + 1 .. n + 1
           /\ \A j \in i + 1 .. n : j \in i + 1 .. n + 1
      /\ \A k \in Keys : later[k] = IF k = s[n + 1].key THEN instance ELSE file[k]
  OBVIOUS
<1>1. ASSUME NEW implementation, ReadImplementation(file, s, n, implementation)
      PROVE  ReadImplementation(later, s, n + 1, implementation)
  <2> SUFFICES ASSUME NEW i \in 1 .. n + 1, s[i].op = "get implementation",
                      \A j \in i + 1 .. n + 1 :
                        s[j].op # "get implementation" /\ ~Registers(s[j], s[i].key)
               PROVE  implementation = later[s[i].key]
    BY DEF ReadImplementation
  <2>1. i \in 1 .. n /\ n + 1 \in i + 1 .. n + 1 /\ s[i].key \in Keys
    BY <1>0 DEF WellTyped
  <2>2. implementation = file[s[i].key]
    BY <1>0, <1>1, <2>1 DEF ReadImplementation
  <2> QED BY <1>0, <2>1, <2>2 DEF Registers
<1>2. ASSUME NEW proxy, ReadProxy(file, s, n, proxy) PROVE ReadProxy(later, s, n + 1, proxy)
  <2> SUFFICES ASSUME NEW i \in 1 .. n + 1, s[i].op = "get proxy",
                      \A j \in i + 1 .. n + 1 : ~Registers(s[j], "StakedLay")
               PROVE  proxy = later["StakedLay"]
    BY DEF ReadProxy
  <2>1. i \in 1 .. n /\ n + 1 \in i + 1 .. n + 1 /\ "StakedLay" \in Keys
    BY <1>0, Names
  <2>2. proxy = file["StakedLay"]
    BY <1>0, <1>2, <2>1 DEF ReadProxy
  <2> QED BY <1>0, <2>1, <2>2 DEF Registers
<1> QED BY <1>1, <1>2

----------------------------------------------------------------------------
(* The scripts: which creation is registered under which name, whatever    *)
(* steps that change nothing are between.  Those of a task come one after  *)
(* the other, so that what is known of a part is known of the whole.       *)

Without(s, ops) == IsSequence(s) /\ \A i \in 1 .. Len(s) : s[i].op \notin ops

Leaves(s, key) == IsSequence(s) /\ \A i \in 1 .. Len(s) : ~Registers(s[i], key)

(* The last creation of the script is of a contract of that kind; and the  *)
(* script has waited for it.                                               *)
Makes(s, kind) ==
  IsSequence(s) /\ \E d \in 1 .. Len(s) : LastDeploy(s, d, Len(s)) /\ s[d].kind = kind

MakesOne(s, kind) ==
  /\ IsSequence(s)
  /\ \E d, w \in 1 .. Len(s) :
       LastDeploy(s, d, Len(s)) /\ s[d].kind = kind /\ d < w /\ s[w].op = "await"

(* After n steps the key stands for such a contract. *)
FilesBy(s, n, key, kind) ==
  \E d, i, w \in 1 .. n :
    /\ LastDeploy(s, d, i) /\ Registers(s[i], key) /\ s[d].kind = kind
    /\ LastDeploy(s, d, w) /\ d < w /\ s[w].op = "await"
    /\ \A j \in i + 1 .. n : ~Registers(s[j], key)

Files(s, key, kind) == IsSequence(s) /\ FilesBy(s, Len(s), key, kind)

LEMMA FiledMeans ==
  ASSUME NEW chain, NEW file, NEW s, NEW n \in Nat, NEW instance, NEW key, NEW kind,
         Filed(chain, file, s, n, instance), FilesBy(s, n, key, kind)
  PROVE  On(chain, file[key]) /\ chain[file[key]].kind = kind
<1>1. PICK d, i, w \in 1 .. n :
        /\ LastDeploy(s, d, i) /\ Registers(s[i], key) /\ s[d].kind = kind
        /\ LastDeploy(s, d, w) /\ d < w /\ s[w].op = "await"
        /\ \A j \in i + 1 .. n : ~Registers(s[j], key)
  BY DEF FilesBy
<1>2. s[i].op = "register" /\ s[i].key = key /\ w \in d + 1 .. n
  BY <1>1 DEF Registers
<1>3. /\ file[key] \in DOMAIN chain /\ chain[file[key]].kind = s[d].kind
      /\ \A x \in d + 1 .. n : s[x].op = "await" /\ LastDeploy(s, d, x) => On(chain, file[key])
  BY <1>1, <1>2 DEF Filed
<1> QED BY <1>1, <1>2, <1>3

(* A script and what follows. *)
Followed(s, t, u) ==
  /\ IsSequence(u) /\ Len(s) \in Nat /\ Len(t) \in Nat /\ Len(u) = Len(s) + Len(t)
  /\ \A i \in 1 .. Len(s) : u[i] = s[i]
  /\ \A i \in 1 .. Len(t) : u[Len(s) + i] = t[i]
  /\ \A i \in Len(s) + 1 .. Len(u) : i - Len(s) \in 1 .. Len(t) /\ u[i] = t[i - Len(s)]

LEMMA ConcatFollows ==
  ASSUME NEW s, IsSequence(s), NEW t, IsSequence(t)
  PROVE  Followed(s, t, s \o t)
<1> DEFINE u == s \o t
           m == Len(s)
           n == Len(t)
<1>1. /\ IsSequence(u) /\ m \in Nat /\ n \in Nat /\ Len(u) = m + n
      /\ \A i \in 1 .. m : u[i] = s[i]
      /\ \A i \in 1 .. n : u[m + i] = t[i]
  BY ConcatSequences
<1> HIDE DEF u, m, n
<1>2. ASSUME NEW i \in m + 1 .. Len(u) PROVE i - m \in 1 .. n /\ u[i] = t[i - m]
  <2>1. i - m \in 1 .. n /\ i = m + (i - m)
    BY <1>1
  <2> QED BY <1>1, <2>1
<1> QED BY <1>1, <1>2 DEF Followed, u, m, n

LEMMA WithoutInBoth ==
  ASSUME NEW ops, NEW s, Without(s, ops), NEW t, Without(t, ops)
  PROVE  Without(s \o t, ops)
<1>1. Followed(s, t, s \o t)
  BY ConcatFollows DEF Without
<1> DEFINE u == s \o t
           m == Len(s)
           n == Len(t)
           l == Len(u)
<1>2. /\ m \in Nat /\ n \in Nat /\ l = m + n /\ IsSequence(u)
      /\ \A i \in 1 .. m : u[i] = s[i]
      /\ \A i \in m + 1 .. l : i - m \in 1 .. n /\ u[i] = t[i - m]
  BY <1>1 DEF Followed
<1>3. (\A i \in 1 .. m : s[i].op \notin ops) /\ (\A i \in 1 .. n : t[i].op \notin ops)
  BY DEF Without
<1> HIDE DEF u, m, n, l
<1>4. \A i \in 1 .. l : i \in 1 .. m \/ i \in m + 1 .. l
  BY <1>2
<1>5. \A i \in 1 .. l : u[i].op \notin ops
  BY <1>2, <1>3, <1>4
<1> QED BY <1>2, <1>5 DEF Without, u, l

LEMMA LeftByBoth ==
  ASSUME NEW key, NEW s, Leaves(s, key), NEW t, Leaves(t, key)
  PROVE  Leaves(s \o t, key)
<1>1. Followed(s, t, s \o t)
  BY ConcatFollows DEF Leaves
<1> DEFINE u == s \o t
           m == Len(s)
           n == Len(t)
           l == Len(u)
<1>2. /\ m \in Nat /\ n \in Nat /\ l = m + n /\ IsSequence(u)
      /\ \A i \in 1 .. m : u[i] = s[i]
      /\ \A i \in m + 1 .. l : i - m \in 1 .. n /\ u[i] = t[i - m]
  BY <1>1 DEF Followed
<1>3. (\A i \in 1 .. m : ~Registers(s[i], key)) /\ (\A i \in 1 .. n : ~Registers(t[i], key))
  BY DEF Leaves
<1> HIDE DEF u, m, n, l
<1>4. \A i \in 1 .. l : i \in 1 .. m \/ i \in m + 1 .. l
  BY <1>2
<1>5. \A i \in 1 .. l : ~Registers(u[i], key)
  BY <1>2, <1>3, <1>4
<1> QED BY <1>2, <1>5 DEF Leaves, u, l

LEMMA LeavesWithoutRegister ==
  ASSUME NEW s, Without(s, {"register"}), NEW key
  PROVE  Leaves(s, key)
BY DEF Without, Leaves, Registers

(* The last creation of a script stays the last one, and what follows may  *)
(* have its own.                                                           *)
LEMMA LastDeployBefore ==
  ASSUME NEW s, NEW t, NEW u, Followed(s, t, u), NEW d, NEW n \in 1 .. Len(s),
         LastDeploy(s, d, n)
  PROVE  LastDeploy(u, d, n)
<1>1. \A i \in 1 .. n : i \in 1 .. Len(s) /\ u[i] = s[i]
  BY DEF Followed
<1>2. d \in 1 .. n /\ s[d].op = "deploy" /\ \A j \in d + 1 .. n : j \in 1 .. n /\ s[j].op # "deploy"
  BY DEF LastDeploy, Followed
<1> QED BY <1>1, <1>2 DEF LastDeploy

LEMMA LastDeployAfter ==
  ASSUME NEW s, NEW t, NEW u, Followed(s, t, u), NEW d, NEW n \in 1 .. Len(t),
         LastDeploy(t, d, n)
  PROVE  LastDeploy(u, Len(s) + d, Len(s) + n)
<1> DEFINE m == Len(s)
           l == Len(u)
<1>1. /\ m \in Nat /\ l = m + Len(t) /\ Len(t) \in Nat
      /\ \A i \in 1 .. Len(t) : u[m + i] = t[i]
      /\ \A i \in m + 1 .. l : u[i] = t[i - m]
  BY DEF Followed
<1>2. d \in 1 .. n /\ t[d].op = "deploy" /\ \A j \in d + 1 .. n : t[j].op # "deploy"
  BY DEF LastDeploy
<1> HIDE DEF m, l
<1>3. m + d \in 1 .. m + n /\ u[m + d].op = "deploy"
  BY <1>1, <1>2
<1>4. ASSUME NEW j \in (m + d) + 1 .. m + n PROVE u[j].op # "deploy"
  <2>1. j \in m + 1 .. l /\ j - m \in d + 1 .. n
    BY <1>1, <1>2
  <2> QED BY <1>1, <1>2, <2>1
<1> QED BY <1>3, <1>4 DEF LastDeploy, m

LEMMA LastDeployKept ==
  ASSUME NEW s, NEW t, NEW u, Followed(s, t, u), Without(t, {"deploy"}), NEW d,
         LastDeploy(s, d, Len(s))
  PROVE  LastDeploy(u, d, Len(u))
<1> DEFINE m == Len(s)
           n == Len(t)
           l == Len(u)
<1>1. /\ m \in Nat /\ n \in Nat /\ l = m + n
      /\ \A i \in 1 .. m : u[i] = s[i]
      /\ \A i \in m + 1 .. l : i - m \in 1 .. n /\ u[i] = t[i - m]
  BY DEF Followed
<1>2. d \in 1 .. m /\ s[d].op = "deploy" /\ \A j \in d + 1 .. m : s[j].op # "deploy"
  BY DEF LastDeploy
<1>3. \A i \in 1 .. n : t[i].op # "deploy"
  BY DEF Without
<1> HIDE DEF m, n, l
<1>4. ASSUME NEW j \in d + 1 .. l PROVE u[j].op # "deploy"
  <2>1. (j \in d + 1 .. m /\ j \in 1 .. m) \/ j \in m + 1 .. l
    BY <1>1, <1>2
  <2> QED BY <1>1, <1>2, <1>3, <2>1
<1>5. d \in 1 .. l /\ u[d].op = "deploy"
  BY <1>1, <1>2
<1> QED BY <1>4, <1>5 DEF LastDeploy, l

LEMMA MakesLater ==
  ASSUME NEW s, IsSequence(s), NEW t, NEW kind, Makes(t, kind)
  PROVE  Makes(s \o t, kind)
<1> DEFINE u == s \o t
<1>1. Followed(s, t, u)
  BY ConcatFollows DEF Makes
<1>2. PICK d \in 1 .. Len(t) : LastDeploy(t, d, Len(t)) /\ t[d].kind = kind
  BY DEF Makes
<1> HIDE DEF u
<1>3. /\ Len(s) \in Nat /\ Len(t) \in 1 .. Len(t) /\ Len(u) = Len(s) + Len(t)
      /\ u[Len(s) + d] = t[d] /\ Len(s) + d \in 1 .. Len(u) /\ IsSequence(u)
  BY <1>1 DEF Followed
<1>4. LastDeploy(u, Len(s) + d, Len(u))
  BY <1>1, <1>2, <1>3, LastDeployAfter
<1>5. Makes(u, kind)
  BY <1>2, <1>3, <1>4 DEF Makes
<1> QED BY <1>5 DEF u

LEMMA MakesStill ==
  ASSUME NEW s, NEW t, NEW kind, Makes(s, kind), Without(t, {"deploy"})
  PROVE  Makes(s \o t, kind)
<1> DEFINE u == s \o t
<1>1. Followed(s, t, u)
  BY ConcatFollows DEF Makes, Without
<1>2. PICK d \in 1 .. Len(s) : LastDeploy(s, d, Len(s)) /\ s[d].kind = kind
  BY DEF Makes
<1> HIDE DEF u
<1>3. u[d] = s[d] /\ d \in 1 .. Len(u) /\ IsSequence(u)
  BY <1>1 DEF Followed
<1>4. LastDeploy(u, d, Len(u))
  BY <1>1, <1>2, LastDeployKept
<1>5. Makes(u, kind)
  BY <1>2, <1>3, <1>4 DEF Makes
<1> QED BY <1>5 DEF u

LEMMA MakesOneStill ==
  ASSUME NEW s, NEW t, NEW kind, MakesOne(s, kind), Without(t, {"deploy"})
  PROVE  MakesOne(s \o t, kind)
<1> DEFINE u == s \o t
<1>1. Followed(s, t, u)
  BY ConcatFollows DEF MakesOne, Without
<1>2. PICK d, w \in 1 .. Len(s) :
        LastDeploy(s, d, Len(s)) /\ s[d].kind = kind /\ d < w /\ s[w].op = "await"
  BY DEF MakesOne
<1> HIDE DEF u
<1>3. /\ u[d] = s[d] /\ d \in 1 .. Len(u) /\ IsSequence(u)
      /\ u[w] = s[w] /\ w \in 1 .. Len(u)
  BY <1>1 DEF Followed
<1>4. LastDeploy(u, d, Len(u))
  BY <1>1, <1>2, LastDeployKept
<1>5. MakesOne(u, kind)
  BY <1>2, <1>3, <1>4 DEF MakesOne
<1> QED BY <1>5 DEF u

LEMMA MakesOneLater ==
  ASSUME NEW s, IsSequence(s), NEW t, NEW kind, MakesOne(t, kind)
  PROVE  MakesOne(s \o t, kind)
<1> DEFINE u == s \o t
<1>1. Followed(s, t, u)
  BY ConcatFollows DEF MakesOne
<1>2. PICK d, w \in 1 .. Len(t) :
        LastDeploy(t, d, Len(t)) /\ t[d].kind = kind /\ d < w /\ t[w].op = "await"
  BY DEF MakesOne
<1> HIDE DEF u
<1>3. /\ Len(s) \in Nat /\ Len(t) \in 1 .. Len(t) /\ Len(u) = Len(s) + Len(t)
      /\ u[Len(s) + d] = t[d] /\ u[Len(s) + w] = t[w] /\ IsSequence(u)
  BY <1>1 DEF Followed
<1>4. LastDeploy(u, Len(s) + d, Len(u))
  BY <1>1, <1>2, <1>3, LastDeployAfter
<1>5. /\ Len(s) + d \in 1 .. Len(u) /\ Len(s) + w \in 1 .. Len(u)
      /\ Len(s) + d < Len(s) + w
  BY <1>2, <1>3
<1>6. MakesOne(u, kind)
  BY <1>2, <1>3, <1>4, <1>5 DEF MakesOne
<1> QED BY <1>6 DEF u

(* Waiting, with or without a verification before. *)
LEMMA MakesOneWaiting ==
  ASSUME NEW s, NEW kind, Makes(s, kind)
  PROVE  MakesOne(s \o Await, kind)
<1> DEFINE t == Await
           u == s \o t
<1>1. /\ IsSequence(t) /\ Len(t) = 1 /\ t[1].op = "await"
  <2> DEFINE step == [op |-> "await"]
  <2>1. /\ Len(<<step>>) = 1 /\ <<step>>[1] = step /\ step.op = "await"
    OBVIOUS
  <2>2. Await = <<step>> /\ IsSequence(Await)
    BY Pieces DEF Await, IsScript
  <2> HIDE DEF step
  <2> QED BY <2>1, <2>2
<1>2. Without(t, {"deploy"})
  <2>1. \A i \in 1 .. 1 : i = 1
    OBVIOUS
  <2> QED BY <1>1, <2>1 DEF Without
<1>3. Followed(s, t, u)
  BY <1>1, ConcatFollows DEF Makes
<1>4. PICK d \in 1 .. Len(s) : LastDeploy(s, d, Len(s)) /\ s[d].kind = kind
  BY DEF Makes
<1> HIDE DEF u, t
<1>5. /\ u[d] = s[d] /\ d \in 1 .. Len(u) /\ IsSequence(u)
      /\ u[Len(u)] = t[1] /\ Len(u) \in 1 .. Len(u) /\ d < Len(u)
  BY <1>1, <1>3 DEF Followed
<1>6. LastDeploy(u, d, Len(u))
  BY <1>2, <1>3, <1>4, LastDeployKept
<1>7. MakesOne(u, kind)
  BY <1>1, <1>4, <1>5, <1>6 DEF MakesOne
<1> QED BY <1>7 DEF u, t

(* What has been made and is registered is filed, and stays so.            *)
LEMMA RegisterStep ==
  ASSUME NEW key \in Keys
  PROVE  /\ IsSequence(RegisterContractInJsonDb(key)) /\ Len(RegisterContractInJsonDb(key)) = 1
         /\ Registers(RegisterContractInJsonDb(key)[1], key)
<1> DEFINE step == [op |-> "register", key |-> key]
<1>1. /\ Len(<<step>>) = 1 /\ <<step>>[1] = step /\ step.op = "register" /\ step.key = key
  OBVIOUS
<1>2. RegisterContractInJsonDb(key) = <<step>> /\ IsSequence(RegisterContractInJsonDb(key))
  BY Pieces DEF RegisterContractInJsonDb, IsScript
<1> HIDE DEF step
<1> QED BY <1>1, <1>2 DEF Registers

LEMMA FilesNow ==
  ASSUME NEW s, NEW kind, MakesOne(s, kind), NEW key \in Keys
  PROVE  Files(s \o RegisterContractInJsonDb(key), key, kind)
<1> DEFINE t == RegisterContractInJsonDb(key)
           u == s \o t
<1>1. IsSequence(t) /\ Len(t) = 1 /\ Registers(t[1], key)
  BY RegisterStep
<1>2. Without(t, {"deploy"})
  <2>1. \A i \in 1 .. 1 : i = 1
    OBVIOUS
  <2> QED BY <1>1, <2>1 DEF Without, Registers
<1>3. Followed(s, t, u)
  BY <1>1, ConcatFollows DEF MakesOne
<1>4. PICK d, w \in 1 .. Len(s) :
        LastDeploy(s, d, Len(s)) /\ s[d].kind = kind /\ d < w /\ s[w].op = "await"
  BY DEF MakesOne
<1> HIDE DEF u, t
<1>5. /\ Len(s) \in Nat /\ Len(u) = Len(s) + 1 /\ IsSequence(u) /\ u[Len(u)] = t[1]
      /\ u[d] = s[d] /\ u[w] = s[w]
  BY <1>1, <1>3 DEF Followed
<1>6. /\ d \in 1 .. Len(u) /\ w \in 1 .. Len(u) /\ Len(u) \in 1 .. Len(u)
      /\ \A j \in Len(u) + 1 .. Len(u) : FALSE
  BY <1>5
<1>7. LastDeploy(u, d, Len(u))
  BY <1>2, <1>3, <1>4, LastDeployKept
<1>8. LastDeploy(u, d, w)
  BY <1>6, <1>7, <1>4 DEF LastDeploy
<1>9. Files(u, key, kind)
  BY <1>1, <1>4, <1>5, <1>6, <1>7, <1>8 DEF Files, FilesBy
<1> QED BY <1>9 DEF u, t

LEMMA FilesBefore ==
  ASSUME NEW s, NEW t, NEW u, Followed(s, t, u), NEW key, NEW kind, NEW n \in 1 .. Len(s),
         FilesBy(s, n, key, kind)
  PROVE  FilesBy(u, n, key, kind)
<1>1. PICK d, i, w \in 1 .. n :
        /\ LastDeploy(s, d, i) /\ Registers(s[i], key) /\ s[d].kind = kind
        /\ LastDeploy(s, d, w) /\ d < w /\ s[w].op = "await"
        /\ \A j \in i + 1 .. n : ~Registers(s[j], key)
  BY DEF FilesBy
<1>2. /\ \A j \in 1 .. n : j \in 1 .. Len(s) /\ u[j] = s[j]
      /\ \A j \in i + 1 .. n : j \in 1 .. n
  BY DEF Followed
<1>3. LastDeploy(u, d, i) /\ LastDeploy(u, d, w)
  BY <1>1, <1>2, LastDeployBefore
<1> QED BY <1>1, <1>2, <1>3 DEF FilesBy

LEMMA FilesUntil ==
  ASSUME NEW s, NEW n \in Nat, NEW l \in Nat, n <= l, NEW key, NEW kind,
         FilesBy(s, n, key, kind), \A j \in n + 1 .. l : ~Registers(s[j], key)
  PROVE  FilesBy(s, l, key, kind)
<1>1. PICK d, i, w \in 1 .. n :
        /\ LastDeploy(s, d, i) /\ Registers(s[i], key) /\ s[d].kind = kind
        /\ LastDeploy(s, d, w) /\ d < w /\ s[w].op = "await"
        /\ \A j \in i + 1 .. n : ~Registers(s[j], key)
  BY DEF FilesBy
<1>2. /\ d \in 1 .. l /\ i \in 1 .. l /\ w \in 1 .. l
      /\ \A j \in i + 1 .. l : j \in i + 1 .. n \/ j \in n + 1 .. l
  OBVIOUS
<1> QED BY <1>1, <1>2 DEF FilesBy

LEMMA FilesFrom ==
  ASSUME NEW s, NEW t, NEW u, Followed(s, t, u), NEW key, NEW kind, NEW n \in 1 .. Len(t),
         FilesBy(t, n, key, kind)
  PROVE  FilesBy(u, Len(s) + n, key, kind)
<1>1. PICK d, i, w \in 1 .. n :
        /\ LastDeploy(t, d, i) /\ Registers(t[i], key) /\ t[d].kind = kind
        /\ LastDeploy(t, d, w) /\ d < w /\ t[w].op = "await"
        /\ \A j \in i + 1 .. n : ~Registers(t[j], key)
  BY DEF FilesBy
<1> DEFINE m == Len(s)
<1>2. /\ m \in Nat /\ Len(t) \in Nat /\ Len(u) = m + Len(t)
      /\ \A j \in 1 .. Len(t) : u[m + j] = t[j]
      /\ \A j \in m + 1 .. Len(u) : u[j] = t[j - m]
  BY DEF Followed
<1>3. i \in 1 .. Len(t) /\ w \in 1 .. Len(t) /\ d \in 1 .. Len(t)
  BY <1>2
<1>4. LastDeploy(u, m + d, m + i) /\ LastDeploy(u, m + d, m + w)
  BY <1>1, <1>3, LastDeployAfter
<1> HIDE DEF m
<1>5. ASSUME NEW j \in (m + i) + 1 .. m + n PROVE ~Registers(u[j], key)
  <2>1. j - m \in i + 1 .. n /\ j \in m + 1 .. Len(u)
    BY <1>2
  <2> QED BY <1>1, <1>2, <2>1
<1>6. /\ m + d \in 1 .. m + n /\ m + i \in 1 .. m + n /\ m + w \in 1 .. m + n
      /\ m + d < m + w
  <2>1. m \in Nat /\ d < w /\ d \in 1 .. n /\ i \in 1 .. n /\ w \in 1 .. n
    BY <1>1, <1>2
  <2>2. n \in Nat
    BY <1>2
  <2> QED BY <2>1, <2>2
<1>7. u[m + d] = t[d] /\ u[m + i] = t[i] /\ u[m + w] = t[w]
  BY <1>2, <1>3
<1> QED BY <1>1, <1>4, <1>5, <1>6, <1>7 DEF FilesBy, m

LEMMA FilesNonempty ==
  ASSUME NEW s, NEW n, NEW key, NEW kind, FilesBy(s, n, key, kind)
  PROVE  \E i \in 1 .. n : TRUE
BY DEF FilesBy

LEMMA FilesStill ==
  ASSUME NEW s, NEW t, NEW key, NEW kind, Files(s, key, kind), Leaves(t, key)
  PROVE  Files(s \o t, key, kind)
<1> DEFINE u == s \o t
<1>1. Followed(s, t, u)
  BY ConcatFollows DEF Files, Leaves
<1> HIDE DEF u
<1>2. /\ Len(s) \in Nat /\ Len(u) \in Nat /\ Len(s) <= Len(u) /\ IsSequence(u)
      /\ \A j \in Len(s) + 1 .. Len(u) : j - Len(s) \in 1 .. Len(t) /\ u[j] = t[j - Len(s)]
  BY <1>1 DEF Followed
<1>3. Len(s) \in 1 .. Len(s)
  BY <1>2, FilesNonempty DEF Files
<1>4. FilesBy(u, Len(s), key, kind)
  BY <1>1, <1>3, FilesBefore DEF Files
<1>5. \A j \in Len(s) + 1 .. Len(u) : ~Registers(u[j], key)
  BY <1>2 DEF Leaves
<1>6. FilesBy(u, Len(u), key, kind)
  BY <1>2, <1>4, <1>5, FilesUntil
<1>7. Files(u, key, kind)
  BY <1>2, <1>6 DEF Files
<1> QED BY <1>7 DEF u

LEMMA FilesLater ==
  ASSUME NEW s, IsSequence(s), NEW t, NEW key, NEW kind, Files(t, key, kind)
  PROVE  Files(s \o t, key, kind)
<1> DEFINE u == s \o t
<1>1. Followed(s, t, u)
  BY ConcatFollows DEF Files
<1> HIDE DEF u
<1>2. Len(u) = Len(s) + Len(t) /\ Len(t) \in Nat /\ IsSequence(u)
  BY <1>1 DEF Followed
<1>3. Len(t) \in 1 .. Len(t)
  BY <1>2, FilesNonempty DEF Files
<1>4. FilesBy(u, Len(u), key, kind)
  BY <1>1, <1>2, <1>3, FilesFrom DEF Files
<1>5. Files(u, key, kind)
  BY <1>2, <1>4 DEF Files
<1> QED BY <1>5 DEF u

----------------------------------------------------------------------------
(* The tasks.  Checks, waiting and verification change nothing.            *)

Changes == {"deploy", "register", "get implementation", "get proxy", "initialize", "upgrade"}
Speaking == {"get implementation", "get proxy", "initialize", "upgrade"}

LEMMA WithoutFewer ==
  ASSUME NEW s, NEW ops, Without(s, ops), NEW fewer \in SUBSET ops
  PROVE  Without(s, fewer)
BY DEF Without

LEMMA WithoutOne ==
  ASSUME NEW s, IsSequence(s), NEW ops, Len(s) \in Nat,
         Len(s) = 0 \/ (Len(s) = 1 /\ s[1].op \notin ops)
  PROVE  Without(s, ops)
<1> DEFINE n == Len(s)
<1>1. n \in Nat /\ (n = 0 \/ (n = 1 /\ s[1].op \notin ops))
  OBVIOUS
<1> HIDE DEF n
<1>2. \A i \in 1 .. n : i = 1 /\ n # 0
  BY <1>1
<1> QED BY <1>1, <1>2 DEF Without, n

LEMMA UnchangingPieces ==
  /\ \A ok \in BOOLEAN : Without(Check(ok), Changes)
  /\ \A p : Without(CheckVerification(p), Changes)
  /\ \A verify : Without(VerifyContract(verify), Changes)
  /\ Without(Await, Changes)
<1>0. ASSUME NEW step, step.op \notin Changes, IsSequence(<<step>>)
      PROVE  Without(<<step>>, Changes)
  <2> DEFINE s == <<step>>
  <2>1. Len(s) = 1 /\ s[1] = step
    OBVIOUS
  <2>2. IsSequence(s)
    BY <1>0
  <2> HIDE DEF s
  <2>3. Without(s, Changes)
    BY <1>0, <2>1, <2>2, WithoutOne
  <2> QED BY <2>3 DEF s
<1>00. Without(<<>>, Changes)
  <2>1. IsSequence(<<>>)
    BY EmptyScript DEF IsScript
  <2>2. Len(<<>>) = 0
    OBVIOUS
  <2> QED BY <2>1, <2>2, WithoutOne
<1>1. ASSUME NEW op, op \notin Changes, WellTyped([op |-> op])
      PROVE  Without(<<[op |-> op]>>, Changes)
  <2>1. IsSequence(<<[op |-> op]>>)
    BY <1>1, ScriptOfOne DEF IsScript
  <2> QED BY <1>0, <1>1, <2>1
<1>2. \A op \in {"throw", "exit", "verify", "await"} :
        op \notin Changes /\ WellTyped([op |-> op])
  BY DEF Changes, WellTyped
<1>3. \A op \in {"throw", "exit", "verify", "await"} : Without(<<[op |-> op]>>, Changes)
  BY <1>1, <1>2
<1> QED BY <1>3, <1>00 DEF Check, CheckVerification, VerifyContract, Await

LEMMA RegisterWithout ==
  ASSUME NEW key \in Keys, NEW ops, "register" \notin ops
  PROVE  Without(RegisterContractInJsonDb(key), ops)
<1>1. /\ IsSequence(RegisterContractInJsonDb(key)) /\ Len(RegisterContractInJsonDb(key)) = 1
      /\ Registers(RegisterContractInJsonDb(key)[1], key)
  BY RegisterStep
<1> QED BY <1>1, WithoutOne DEF Registers

LEMMA RegisterLeaves ==
  ASSUME NEW key \in Keys, NEW other, other # key
  PROVE  Leaves(RegisterContractInJsonDb(key), other)
<1>1. /\ IsSequence(RegisterContractInJsonDb(key)) /\ Len(RegisterContractInJsonDb(key)) = 1
      /\ Registers(RegisterContractInJsonDb(key)[1], key)
  BY RegisterStep
<1>2. \A i \in 1 .. 1 : i = 1
  OBVIOUS
<1> QED BY <1>1, <1>2 DEF Leaves, Registers

LEMMA Deploys ==
  ASSUME NEW kind \in Implementations \union {Proxy}, NEW args
  PROVE  LET s == DeployContract(kind, args) IN
         /\ Makes(s, kind) /\ Without(s, Speaking)
         /\ \A key : key # kind => Leaves(s, key)
<1> DEFINE step == [op |-> "deploy", kind |-> kind, args |-> args]
           a == <<step>>
           b == RegisterContractInJsonDb(kind)
<1>1. IsSequence(a)
  <2>1. WellTyped(step)
    BY DEF WellTyped
  <2> QED BY <2>1, ScriptOfOne DEF IsScript
<1>2. Len(a) = 1 /\ a[1] = step /\ step.op = "deploy" /\ step.kind = kind
  OBVIOUS
<1>3. DeployContract(kind, args) = a \o b /\ kind \in Keys
  BY Names DEF DeployContract
<1>4. Without(b, {"deploy"}) /\ Without(b, Speaking)
  BY <1>3, RegisterWithout DEF Speaking
<1>5. \A key : key # kind => Leaves(b, key)
  BY <1>3, RegisterLeaves
<1> HIDE DEF a, b, step
<1>6. \A i \in 1 .. Len(a) : i = 1
  BY <1>2
<1>7. Makes(a, kind)
  <2>1. 1 \in 1 .. Len(a) /\ \A j \in 1 + 1 .. Len(a) : FALSE
    BY <1>2
  <2>2. LastDeploy(a, 1, Len(a))
    BY <1>2, <2>1 DEF LastDeploy
  <2> QED BY <1>1, <1>2, <2>1, <2>2 DEF Makes
<1>8. Without(a, Speaking) /\ \A key : Leaves(a, key)
  BY <1>1, <1>2, <1>6 DEF Without, Leaves, Registers, Speaking
<1>9. Makes(a \o b, kind)
  BY <1>4, <1>7, MakesStill
<1>10. Without(a \o b, Speaking)
  BY <1>4, <1>8, WithoutInBoth
<1>11. \A key : key # kind => Leaves(a \o b, key)
  BY <1>5, <1>8, LeftByBoth
<1> QED BY <1>3, <1>9, <1>10, <1>11

LEMMA Inert ==
  ASSUME NEW s, Without(s, Changes)
  PROVE  /\ IsSequence(s)
         /\ Without(s, {"deploy"}) /\ Without(s, Speaking)
         /\ Without(s, {"deploy", "register"})
         /\ \A key : Leaves(s, key)
<1>1. /\ {"deploy"} \in SUBSET Changes /\ Speaking \in SUBSET Changes
      /\ {"deploy", "register"} \in SUBSET Changes /\ {"register"} \in SUBSET Changes
  BY DEF Changes, Speaking
<1>2. /\ Without(s, {"deploy"}) /\ Without(s, Speaking)
      /\ Without(s, {"deploy", "register"}) /\ Without(s, {"register"})
  BY <1>1, WithoutFewer
<1> QED BY <1>2, LeavesWithoutRegister DEF Without

LEMMA DeployStakedLayFiles ==
  ASSUME NEW p
  PROVE  /\ Files(DeployStakedLayTask(p), "StakedLay", Proxy)
         /\ Files(DeployStakedLayTask(p), "StakedLayImpl", "StakedLay")
         /\ Without(DeployStakedLayTask(p), Speaking)
<1> DEFINE args == Arguments(Default(p.tokenAddress, GetTokenPerNetwork(Network)),
                             Default(p.vaultAddress, GetIncentivesVaultPerNetwork(Network)),
                             "emissionManager")
           a == CheckVerification(p)
           b == Check(HasChainId(Network))
           d == DeployStakedLay(args, FALSE)
           i == RegisterContractInJsonDb("StakedLayImpl")
           x == DeployInitializableAdminUpgradeabilityProxy(p.verify)
           r == RegisterContractInJsonDb("StakedLay")
           ops == Speaking
<1>1. DeployStakedLayTask(p) = a \o b \o d \o Await \o i \o x \o r
  BY DEF DeployStakedLayTask
<1>2. Without(a, Changes) /\ Without(b, Changes) /\ Without(Await, Changes)
  BY UnchangingPieces DEF HasChainId
<1>3. Makes(d, "StakedLay") /\ Without(d, ops)
  <2> DEFINE e == DeployContract("StakedLay", args)
             v == VerifyContract(FALSE)
  <2>1. Makes(e, "StakedLay") /\ Without(e, ops)
    BY Deploys, Names
  <2>2. Without(v, Changes)
    BY UnchangingPieces
  <2>3. Without(v, {"deploy"}) /\ Without(v, ops)
    BY <2>2, Inert
  <2>4. Makes(e \o v, "StakedLay")
    BY <2>1, <2>3, MakesStill
  <2>5. Without(e \o v, ops)
    BY <2>1, <2>3, WithoutInBoth
  <2> QED BY <2>4, <2>5 DEF DeployStakedLay
<1>4. MakesOne(x, Proxy) /\ Without(x, ops) /\ Leaves(x, "StakedLayImpl") /\ Leaves(x, "StakedLay")
  <2> DEFINE e == DeployContract(Proxy, NoArguments)
             v == VerifyContract(p.verify)
  <2>1. Makes(e, Proxy) /\ Without(e, ops) /\ Leaves(e, "StakedLayImpl") /\ Leaves(e, "StakedLay")
    BY Deploys, Names DEF Proxy
  <2>2. Without(v, Changes)
    BY UnchangingPieces
  <2>3. Without(v, {"deploy"}) /\ Without(v, ops) /\ \A key : Leaves(v, key)
    BY <2>2, Inert
  <2>4. Without(Await, ops) /\ \A key : Leaves(Await, key)
    BY <1>2, Inert
  <2>5. MakesOne(e \o Await \o v, Proxy)
    BY <2>1, <2>3, MakesOneWaiting, MakesOneStill
  <2>6. Without(e \o Await \o v, ops)
    BY <2>1, <2>3, <2>4, WithoutInBoth
  <2>7. \A key \in {"StakedLayImpl", "StakedLay"} : Leaves(e \o Await \o v, key)
    BY <2>1, <2>3, <2>4, LeftByBoth
  <2> QED BY <2>5, <2>6, <2>7 DEF DeployInitializableAdminUpgradeabilityProxy
<1>5. /\ Without(i, ops) /\ Without(r, ops)
      /\ Leaves(r, "StakedLayImpl") /\ IsSequence(i)
  <2>1. "register" \notin ops /\ {"StakedLayImpl", "StakedLay"} \subseteq Keys
    BY Names DEF Speaking
  <2>2. Without(i, ops) /\ Without(r, ops) /\ Leaves(r, "StakedLayImpl")
    BY <2>1, RegisterWithout, RegisterLeaves
  <2> QED BY <2>2 DEF Without
<1> HIDE DEF a, b, d, i, x, r
<1>6. /\ Without(a, ops) /\ Without(b, ops) /\ Without(Await, ops)
      /\ IsSequence(a) /\ IsSequence(b)
  BY <1>2, Inert
<1>7. IsSequence(a \o b) /\ Without(a \o b, ops)
  BY <1>6, WithoutInBoth DEF Without
<1>8. Makes(a \o b \o d, "StakedLay") /\ Without(a \o b \o d, ops)
  <2>1. Makes(a \o b \o d, "StakedLay")
    BY <1>3, <1>7, MakesLater
  <2>2. Without(a \o b \o d, ops)
    BY <1>3, <1>7, WithoutInBoth
  <2> QED BY <2>1, <2>2
<1> DEFINE s1 == a \o b \o d \o Await
           s2 == s1 \o i
           s3 == s2 \o x
           s4 == s3 \o r
<1>9. MakesOne(s1, "StakedLay") /\ Without(s1, ops)
  <2>1. MakesOne(s1, "StakedLay")
    BY <1>8, MakesOneWaiting
  <2>2. Without(s1, ops)
    BY <1>6, <1>8, WithoutInBoth
  <2> QED BY <2>1, <2>2
<1> HIDE DEF s1
<1>10. Files(s2, "StakedLayImpl", "StakedLay") /\ Without(s2, ops)
  <2>1. Files(s2, "StakedLayImpl", "StakedLay")
    BY <1>9, Names, FilesNow DEF i
  <2>2. Without(s2, ops)
    BY <1>5, <1>9, WithoutInBoth
  <2> QED BY <2>1, <2>2
<1> HIDE DEF s2
<1>11. /\ Files(s3, "StakedLayImpl", "StakedLay") /\ Without(s3, ops)
       /\ MakesOne(s3, Proxy)
  <2>1. Files(s3, "StakedLayImpl", "StakedLay")
    BY <1>4, <1>10, FilesStill
  <2>2. Without(s3, ops)
    BY <1>4, <1>10, WithoutInBoth
  <2>3. MakesOne(s3, Proxy)
    BY <1>4, <1>10, MakesOneLater DEF Files
  <2> QED BY <2>1, <2>2, <2>3
<1> HIDE DEF s3
<1>12. Files(s4, "StakedLay", Proxy)
  BY <1>11, Names, FilesNow DEF r
<1>13. Files(s4, "StakedLayImpl", "StakedLay")
  BY <1>5, <1>11, FilesStill
<1>14. Without(s4, ops)
  BY <1>5, <1>11, WithoutInBoth
<1> QED BY <1>1, <1>12, <1>13, <1>14 DEF s4, s3, s2, s1

(* Of the two later revisions. *)
LEMMA RevisionFiles ==
  ASSUME NEW kind \in {"StakedTokenV2Rev3", "StakedTokenV2Rev4"}, NEW args, NEW verify,
         NEW s, Without(s, Changes)
  PROVE  LET t == s \o (DeployContract(kind, args) \o VerifyContract(verify))
                    \o Await \o RegisterContractInJsonDb(kind)
         IN  /\ Files(t, kind, kind) /\ Without(t, Speaking)
             /\ Leaves(t, "StakedLay") /\ Leaves(t, "StakedLayImpl")
<1> DEFINE e == DeployContract(kind, args)
           v == VerifyContract(verify)
           r == RegisterContractInJsonDb(kind)
           ops == Speaking
           keys == {"StakedLay", "StakedLayImpl"}
           t == s \o (e \o v) \o Await \o r
<1>1. /\ Makes(e, kind) /\ Without(e, ops) /\ \A key \in keys : Leaves(e, key)
  BY Deploys, Names
<1>2. Without(v, Changes) /\ Without(Await, Changes)
  BY UnchangingPieces
<1>3. Without(r, ops) /\ \A key \in keys : Leaves(r, key)
  BY RegisterWithout, RegisterLeaves, Names DEF Speaking
<1> HIDE DEF e, v
<1>4. /\ Without(v, {"deploy"}) /\ Without(v, ops) /\ Without(Await, ops) /\ Without(s, ops)
      /\ IsSequence(s)
      /\ \A key : Leaves(v, key) /\ Leaves(Await, key) /\ Leaves(s, key)
  BY <1>2, Inert
<1>5. Makes(s \o (e \o v), kind)
  BY <1>1, <1>4, MakesStill, MakesLater
<1>6. MakesOne(s \o (e \o v) \o Await, kind)
  BY <1>5, MakesOneWaiting
<1>7. Files(t, kind, kind)
  BY <1>6, FilesNow, Names
<1> HIDE DEF r
<1>8. Without(t, ops)
  BY <1>1, <1>3, <1>4, WithoutInBoth
<1>9. \A key \in keys : Leaves(t, key)
  BY <1>1, <1>3, <1>4, LeftByBoth
<1> QED BY <1>7, <1>8, <1>9 DEF e, v, r

LEMMA DeployRevisionsFile ==
  ASSUME NEW p
  PROVE  /\ Files(DeployStakedTokenV2Rev3Task(p), "StakedTokenV2Rev3", "StakedTokenV2Rev3")
         /\ Files(DeployStakedTokenV2Rev4Task(p), "StakedTokenV2Rev4", "StakedTokenV2Rev4")
         /\ Without(DeployStakedTokenV2Rev3Task(p), Speaking)
         /\ Leaves(DeployStakedTokenV2Rev3Task(p), "StakedLay")
         /\ Leaves(DeployStakedTokenV2Rev3Task(p), "StakedLayImpl")
<1> DEFINE token == Default(p.tokenAddress, GetTokenPerNetwork(Network))
           vault == Default(p.vaultAddress, GetIncentivesVaultPerNetwork(Network))
           em == Default(p.emissionManager, GetAdminPerNetwork(Network))
           args == Arguments(token, vault, em)
           valid3 == \A address \in {token, vault, em} : NotFalsyOrZeroAddress(address)
           valid4 == \A address \in {token, vault, p.emissionManager} :
                       NotFalsyOrZeroAddress(address)
           a == CheckVerification(p)
           b == Check(HasChainId(Network))
<1>1. valid3 \in BOOLEAN /\ valid4 \in BOOLEAN
  OBVIOUS
<1>2. /\ DeployStakedTokenV2Rev3Task(p) =
           a \o b \o Check(valid3)
           \o (DeployContract("StakedTokenV2Rev3", args) \o VerifyContract(p.verify))
           \o Await \o RegisterContractInJsonDb("StakedTokenV2Rev3")
      /\ DeployStakedTokenV2Rev4Task(p) =
           a \o b \o Check(valid4)
           \o (DeployContract("StakedTokenV2Rev4", args) \o VerifyContract(p.verify))
           \o Await \o RegisterContractInJsonDb("StakedTokenV2Rev4")
  BY DEF DeployStakedTokenV2Rev3Task, DeployStakedTokenV2Rev4Task,
         DeployStakedTokenV2Revision3, DeployStakedTokenV2Revision4
<1> HIDE DEF valid3, valid4, args
<1>3. /\ Without(a, Changes) /\ Without(b, Changes)
      /\ Without(Check(valid3), Changes) /\ Without(Check(valid4), Changes)
  BY <1>1, UnchangingPieces DEF HasChainId
<1> HIDE DEF a, b
<1>4. Without(a \o b \o Check(valid3), Changes) /\ Without(a \o b \o Check(valid4), Changes)
  BY <1>3, WithoutInBoth
<1> QED BY <1>2, <1>4, RevisionFiles

(* The task ends with the transaction to the proxy that the file names,    *)
(* for the implementation it names under that key.                         *)
EndsWith(t, key, op) ==
  /\ IsSequence(t) /\ Len(t) - 2 \in 1 .. Len(t)
  /\ t[Len(t) - 2].op = "get implementation" /\ t[Len(t) - 2].key = key
  /\ t[Len(t) - 1].op = "get proxy" /\ t[Len(t)].op = op
  /\ Without(t, {"register", "deploy"})
  /\ \A i \in 1 .. Len(t) : /\ t[i].op \in {"initialize", "upgrade"} => i = Len(t)
                            /\ t[i].op = "get implementation" => i = Len(t) - 2
                            /\ t[i].op = "get proxy" => i = Len(t) - 1

IsCall(t, key, op) ==
  /\ Len(t) = 3 /\ IsSequence(t)
  /\ t[1].op = "get implementation" /\ t[1].key = key
  /\ t[2].op = "get proxy" /\ t[3].op = op /\ op \in {"initialize", "upgrade"}

LEMMA SequenceOfThree ==
  ASSUME NEW a, NEW b, NEW c
  PROVE  /\ IsSequence(<<a, b, c>>) /\ Len(<<a, b, c>>) = 3
         /\ <<a, b, c>>[1] = a /\ <<a, b, c>>[2] = b /\ <<a, b, c>>[3] = c
<1> DEFINE s == <<a, b, c>>
<1>1. /\ s[1] = a /\ s[2] = b /\ s[3] = c /\ DOMAIN s = 1 .. 3 /\ Len(s) = 3
      /\ s \in [1 .. 3 -> {a, b, c}]
  OBVIOUS
<1>2. s \in [1 .. 3 -> {s[i] : i \in DOMAIN s}]
  BY <1>1
<1> QED BY <1>1, <1>2 DEF IsSequence

LEMMA Calls ==
  ASSUME NEW a, NEW b, NEW c, NEW key, NEW op,
         a.op = "get implementation", a.key = key, b.op = "get proxy",
         c.op = op, op \in {"initialize", "upgrade"}
  PROVE  IsCall(<<a, b, c>>, key, op) /\ <<a, b, c>>[3] = c
BY SequenceOfThree DEF IsCall

LEMMA CallEnds ==
  ASSUME NEW s, Without(s, Changes), NEW t, NEW key, NEW op, IsCall(t, key, op)
  PROVE  EndsWith(s \o t, key, op) /\ (s \o t)[Len(s \o t)] = t[3]
<1> DEFINE u == s \o t
           m == Len(s)
           l == Len(u)
<1>1. /\ Len(t) = 3 /\ IsSequence(t)
      /\ t[1].op = "get implementation" /\ t[1].key = key
      /\ t[2].op = "get proxy" /\ t[3].op = op /\ op \in {"initialize", "upgrade"}
  BY DEF IsCall
<1>2. /\ IsSequence(s) /\ \A i \in 1 .. m : s[i].op \notin Changes
  BY DEF Without
<1>3. Followed(s, t, u)
  BY <1>1, <1>2, ConcatFollows
<1> HIDE DEF u
<1>4. /\ IsSequence(u) /\ m \in Nat /\ l = m + 3
      /\ \A i \in 1 .. m : u[i] = s[i]
      /\ \A i \in 1 .. 3 : u[m + i] = t[i]
  BY <1>1, <1>3 DEF Followed
<1> HIDE DEF m, l
<1>5. /\ l - 2 = m + 1 /\ l - 1 = m + 2 /\ l - 2 \in 1 .. l
      /\ \A i \in 1 .. l : i \in 1 .. m \/ i \in {l - 2, l - 1, l}
  BY <1>4
<1>6. u[l - 2] = t[1] /\ u[l - 1] = t[2] /\ u[l] = t[3]
  <2>1. 1 \in 1 .. 3 /\ 2 \in 1 .. 3 /\ 3 \in 1 .. 3
    OBVIOUS
  <2>2. u[m + 1] = t[1] /\ u[m + 2] = t[2] /\ u[m + 3] = t[3]
    BY <1>4, <2>1
  <2> QED BY <1>4, <1>5, <2>2
<1>7. ASSUME NEW i \in 1 .. l
      PROVE  /\ u[i].op \notin {"register", "deploy"}
             /\ u[i].op \in {"initialize", "upgrade"} => i = l
             /\ u[i].op = "get implementation" => i = l - 2
             /\ u[i].op = "get proxy" => i = l - 1
  <2>1. CASE i \in 1 .. m
    BY <1>2, <1>4, <2>1 DEF Changes
  <2>2. CASE i \in {l - 2, l - 1, l}
    BY <1>1, <1>6, <2>2
  <2> QED BY <1>5, <2>1, <2>2
<1>8. EndsWith(u, key, op)
  <2>1. Without(u, {"register", "deploy"})
    BY <1>4, <1>7 DEF Without, l
  <2> QED BY <1>1, <1>4, <1>5, <1>6, <1>7, <2>1 DEF EndsWith, l
<1> QED BY <1>6, <1>8 DEF u, l

LEMMA InitializeTasksEnd ==
  /\ \A admin \in Administrators : LET t == InitializeStakedLayTask(admin) IN
       EndsWith(t, "StakedLayImpl", "initialize") /\ t[Len(t)].admin = admin
  /\ EndsWith(InitializeStakedTokenV2Rev3Task, "StakedTokenV2Rev3", "upgrade")
  /\ EndsWith(InitializeStakedTokenV2Rev4Task, "StakedTokenV2Rev4", "upgrade")
<1> DEFINE get(key) == [op |-> "get implementation", key |-> key]
           proxy == [op |-> "get proxy"]
           init(admin) == [op |-> "initialize", admin |-> admin]
           upgrade == [op |-> "upgrade"]
           b == Check(HasChainId(Network))
<1>1. /\ \A key : get(key).op = "get implementation" /\ get(key).key = key
      /\ proxy.op = "get proxy" /\ upgrade.op = "upgrade"
      /\ \A admin : init(admin).op = "initialize" /\ init(admin).admin = admin
  OBVIOUS
<1>2. Without(b, Changes) /\ \A admin : Without(Check(admin # NotGiven) \o b, Changes)
  <2>1. Without(b, Changes) /\ \A admin : Without(Check(admin # NotGiven), Changes)
    BY UnchangingPieces DEF HasChainId
  <2> QED BY <2>1, WithoutInBoth
<1> HIDE DEF b
<1>3. ASSUME NEW admin \in Administrators
      PROVE  LET t == InitializeStakedLayTask(admin) IN
             EndsWith(t, "StakedLayImpl", "initialize") /\ t[Len(t)].admin = admin
  <2> DEFINE c == init(admin)
             k == "StakedLayImpl"
             g == get(k)
             s == Check(admin # NotGiven) \o b
             t == <<g, proxy, c>>
             u == s \o t
  <2>1. InitializeStakedLayTask(admin) = u
    BY DEF InitializeStakedLayTask, b
  <2>2. c.op = "initialize" /\ c.admin = admin /\ Without(s, Changes)
    BY <1>1, <1>2
  <2>3. IsCall(t, k, "initialize") /\ t[3] = c
    <3>1. g.op = "get implementation" /\ g.key = k /\ proxy.op = "get proxy"
      BY <1>1
    <3> HIDE DEF g, proxy, c
    <3> QED BY <2>2, <3>1, Calls
  <2> HIDE DEF t, c, s
  <2>4. EndsWith(u, k, "initialize") /\ u[Len(u)] = c
    BY <2>2, <2>3, CallEnds
  <2> QED BY <2>1, <2>2, <2>4
<1>4. ASSUME NEW k PROVE EndsWith(b \o <<get(k), proxy, upgrade>>, k, "upgrade")
  <2> DEFINE g == get(k)
             t == <<g, proxy, upgrade>>
  <2>1. IsCall(t, k, "upgrade")
    <3>1. /\ g.op = "get implementation" /\ g.key = k /\ proxy.op = "get proxy"
          /\ upgrade.op = "upgrade"
      BY <1>1
    <3> HIDE DEF g, proxy, upgrade
    <3> QED BY <3>1, Calls
  <2> HIDE DEF t
  <2>2. EndsWith(b \o t, k, "upgrade")
    BY <1>2, <2>1, CallEnds
  <2> QED BY <2>2 DEF t
<1>5. /\ InitializeStakedTokenV2Rev3Task = b \o <<get("StakedTokenV2Rev3"), proxy, upgrade>>
      /\ InitializeStakedTokenV2Rev4Task = b \o <<get("StakedTokenV2Rev4"), proxy, upgrade>>
  BY DEF InitializeStakedTokenV2Rev3Task, InitializeStakedTokenV2Rev4Task, b
<1> HIDE DEF get, proxy, upgrade
<1>6. /\ EndsWith(InitializeStakedTokenV2Rev3Task, "StakedTokenV2Rev3", "upgrade")
      /\ EndsWith(InitializeStakedTokenV2Rev4Task, "StakedTokenV2Rev4", "upgrade")
  BY <1>4, <1>5
<1> QED BY <1>3, <1>6

(* common-deployment: everything is made before it is used, and nothing    *)
(* that is used is registered again.  Its transactions to the proxy are    *)
(* its steps k, u and the last one; each comes after the two steps that    *)
(* read the file for it.                                                   *)
Commonly(s, admin, k, u) ==
  LET l == Len(s) IN
  /\ IsSequence(s) /\ k \in 3 .. l /\ u \in k + 1 .. l - 1
  /\ s[k].op = "initialize" /\ s[k].admin = admin
  /\ s[l].op = "upgrade" /\ s[l - 2].key = "StakedTokenV2Rev4"
  /\ s[k - 2].key = "StakedLayImpl"
  /\ \A i \in 1 .. l :
       /\ s[i].op = "initialize" => i = k
       /\ s[i].op = "upgrade" => i \in {u, l}
       /\ i \in {k, u, l} => /\ i - 2 \in 1 .. l /\ s[i - 2].op = "get implementation"
                             /\ s[i - 1].op = "get proxy"
       /\ i > k => ~Registers(s[i], "StakedLay") /\ ~Registers(s[i], "StakedLayImpl")
       /\ i > u => s[i].op # "register"
  /\ \A n \in k - 3 .. l : FilesBy(s, n, "StakedLay", Proxy)

(* What is to be read from the file is there before.                       *)
Staged(s, k, u) ==
  LET l == Len(s) IN
  /\ u - 3 >= k /\ s[u].op = "upgrade" /\ s[u - 2].key = "StakedTokenV2Rev3"
  /\ \A i \in 1 .. l : /\ s[i].op = "get implementation" => i \in {k - 2, u - 2, l - 2}
                       /\ s[i].op = "get proxy" => i \in {k - 1, u - 1, l - 1}
  /\ \A n \in k - 3 .. l : FilesBy(s, n, "StakedLayImpl", "StakedLay")
  /\ \A n \in u - 3 .. l : FilesBy(s, n, "StakedTokenV2Rev3", "StakedTokenV2Rev3")

(* Where a part of a script is: after its step m, up to its step e.        *)
Part(u, m, e, t) ==
  /\ m \in Nat /\ e \in Nat /\ m <= e /\ e <= Len(u) /\ Len(t) = e - m
  /\ \A i \in m + 1 .. e : i - m \in 1 .. Len(t) /\ u[i] = t[i - m]

LEMMA PartsOf ==
  ASSUME NEW s, IsSequence(s), NEW t, IsSequence(t)
  PROVE  /\ Len(s) \in Nat /\ Len(s \o t) \in Nat /\ Len(s \o t) = Len(s) + Len(t)
         /\ Part(s \o t, 0, Len(s), s) /\ Part(s \o t, Len(s), Len(s \o t), t)
         /\ \A m, e, x : Part(s, m, e, x) => Part(s \o t, m, e, x)
<1> DEFINE u == s \o t
           a == Len(s)
           b == Len(t)
           l == Len(u)
<1>1. Followed(s, t, u)
  BY ConcatFollows
<1>2. /\ a \in Nat /\ b \in Nat /\ l = a + b
      /\ \A i \in 1 .. a : u[i] = s[i]
      /\ \A i \in a + 1 .. l : i - a \in 1 .. b /\ u[i] = t[i - a]
  BY <1>1 DEF Followed
<1> HIDE DEF u, a, b, l
<1>3. Part(u, 0, a, s)
  <2>1. ASSUME NEW i \in 0 + 1 .. a PROVE i - 0 \in 1 .. a /\ u[i] = s[i - 0]
    <3>1. i - 0 = i /\ i \in 1 .. a
      BY <1>2
    <3> QED BY <1>2, <3>1
  <2>2. 0 \in Nat /\ 0 <= a /\ a <= l /\ a = a - 0
    BY <1>2
  <2> QED BY <1>2, <2>1, <2>2 DEF Part, a, l
<1>4. Part(u, a, l, t)
  <2>1. l \in Nat /\ a <= l /\ l <= l /\ b = l - a
    BY <1>2
  <2> QED BY <1>2, <2>1 DEF Part, b, l
<1>5. ASSUME NEW m, NEW e, NEW x, Part(s, m, e, x) PROVE Part(u, m, e, x)
  <2>1. /\ m \in Nat /\ e \in Nat /\ m <= e /\ e <= a /\ Len(x) = e - m
        /\ \A i \in m + 1 .. e : i - m \in 1 .. Len(x) /\ s[i] = x[i - m]
    BY <1>5 DEF Part, a
  <2>2. e <= l /\ \A i \in m + 1 .. e : i \in 1 .. a
    BY <1>2, <2>1
  <2>3. \A i \in m + 1 .. e : u[i] = x[i - m]
    BY <1>2, <2>1, <2>2
  <2> QED BY <2>1, <2>2, <2>3 DEF Part, l
<1>6. l \in Nat
  BY <1>2
<1> QED BY <1>2, <1>3, <1>4, <1>5, <1>6 DEF u, a, b, l

LEMMA PartWithout ==
  ASSUME NEW u, NEW m, NEW e, NEW t, Part(u, m, e, t)
  PROVE  /\ \A ops : Without(t, ops) => \A i \in m + 1 .. e : u[i].op \notin ops
         /\ \A key : Leaves(t, key) => \A i \in m + 1 .. e : ~Registers(u[i], key)
BY DEF Part, Without, Leaves

Calling(u, m, e, key, op) ==
  /\ e - 2 \in m + 1 .. e
  /\ u[e - 2].op = "get implementation" /\ u[e - 2].key = key
  /\ u[e - 1].op = "get proxy" /\ u[e].op = op
  /\ \A i \in m + 1 .. e :
       /\ u[i].op \notin {"register", "deploy"}
       /\ u[i].op \in {"initialize", "upgrade"} => i = e
       /\ u[i].op = "get implementation" => i = e - 2
       /\ u[i].op = "get proxy" => i = e - 1

LEMMA PartEnds ==
  ASSUME NEW u, NEW m, NEW e, NEW t, Part(u, m, e, t), NEW key, NEW op, EndsWith(t, key, op)
  PROVE  Calling(u, m, e, key, op) /\ u[e] = t[Len(t)]
<1> DEFINE n == Len(t)
<1>1. /\ m \in Nat /\ e \in Nat /\ m <= e /\ n = e - m
      /\ \A i \in m + 1 .. e : i - m \in 1 .. n /\ u[i] = t[i - m]
  BY DEF Part
<1>2. /\ n - 2 \in 1 .. n
      /\ t[n - 2].op = "get implementation" /\ t[n - 2].key = key
      /\ t[n - 1].op = "get proxy" /\ t[n].op = op
      /\ \A i \in 1 .. n : t[i].op \notin {"register", "deploy"}
      /\ \A i \in 1 .. n : /\ t[i].op \in {"initialize", "upgrade"} => i = n
                           /\ t[i].op = "get implementation" => i = n - 2
                           /\ t[i].op = "get proxy" => i = n - 1
  BY DEF EndsWith, Without
<1> HIDE DEF n
<1>3. /\ e - 2 \in m + 1 .. e /\ e - 1 \in m + 1 .. e /\ e \in m + 1 .. e
      /\ (e - 2) - m = n - 2 /\ (e - 1) - m = n - 1 /\ e - m = n
  <2>1. m \in Nat /\ e \in Nat /\ m <= e /\ n = e - m /\ n - 2 \in 1 .. n
    BY <1>1, <1>2
  <2> QED BY <2>1
<1>4. u[e - 2] = t[n - 2] /\ u[e - 1] = t[n - 1] /\ u[e] = t[n]
  BY <1>1, <1>3
<1>5. ASSUME NEW i \in m + 1 .. e
      PROVE  /\ u[i].op \notin {"register", "deploy"}
             /\ u[i].op \in {"initialize", "upgrade"} => i = e
             /\ u[i].op = "get implementation" => i = e - 2
             /\ u[i].op = "get proxy" => i = e - 1
  <2>1. i - m \in 1 .. n /\ u[i] = t[i - m]
    BY <1>1
  <2>2. u[i].op \notin {"register", "deploy"}
    BY <1>2, <2>1
  <2>3. /\ i - m = n => i = e
        /\ i - m = n - 2 => i = e - 2
        /\ i - m = n - 1 => i = e - 1
    <3>1. m \in Nat /\ e \in Nat /\ n = e - m /\ i \in m + 1 .. e
      BY <1>1
    <3> QED BY <3>1
  <2> QED BY <1>2, <2>1, <2>2, <2>3
<1> QED BY <1>2, <1>3, <1>4, <1>5 DEF Calling, n

LEMMA FilesInPart ==
  ASSUME NEW s, NEW u, NEW a \in Nat, Part(u, 0, a, s), NEW key, NEW kind,
         FilesBy(s, a, key, kind)
  PROVE  FilesBy(u, a, key, kind)
<1>1. PICK d, i, w \in 1 .. a :
        /\ LastDeploy(s, d, i) /\ Registers(s[i], key) /\ s[d].kind = kind
        /\ LastDeploy(s, d, w) /\ d < w /\ s[w].op = "await"
        /\ \A j \in i + 1 .. a : ~Registers(s[j], key)
  BY DEF FilesBy
<1>2. \A j \in 1 .. a : u[j] = s[j]
  <2> SUFFICES ASSUME NEW j \in 1 .. a PROVE u[j] = s[j]
    OBVIOUS
  <2>1. j \in 0 + 1 .. a /\ j - 0 = j
    OBVIOUS
  <2> QED BY <2>1 DEF Part
<1>3. LastDeploy(u, d, i) /\ LastDeploy(u, d, w)
  BY <1>1, <1>2 DEF LastDeploy
<1>4. \A j \in i + 1 .. a : j \in 1 .. a
  OBVIOUS
<1> QED BY <1>1, <1>2, <1>3, <1>4 DEF FilesBy

(* The parts of common-deployment: it deploys the proxy and the first      *)
(* implementation by step a, and initialises the proxy with it by k; it    *)
(* deploys revision 3 by b, upgrades to it by u, and to revision 4 at the  *)
(* end.                                                                    *)
Laid(s, admin, a, k, b, u) ==
  LET l == Len(s) IN
  /\ IsSequence(s) /\ l \in Nat /\ a \in Nat /\ k \in Nat /\ b \in Nat /\ u \in Nat
  /\ 1 <= a /\ a <= k /\ k <= b /\ b <= u /\ u <= l
  /\ \A i \in 1 .. a : s[i].op \notin Speaking
  /\ Calling(s, a, k, "StakedLayImpl", "initialize") /\ s[k].admin = admin
  /\ \A i \in k + 1 .. b : /\ s[i].op \notin Speaking
                          /\ ~Registers(s[i], "StakedLay") /\ ~Registers(s[i], "StakedLayImpl")
  /\ Calling(s, b, u, "StakedTokenV2Rev3", "upgrade")
  /\ Calling(s, u, l, "StakedTokenV2Rev4", "upgrade")
  /\ FilesBy(s, a, "StakedLay", Proxy) /\ FilesBy(s, a, "StakedLayImpl", "StakedLay")
  /\ FilesBy(s, b, "StakedTokenV2Rev3", "StakedTokenV2Rev3")

LEMMA CommonlyLaid ==
  ASSUME NEW p
  PROVE  LET s == CommonDeploymentTask(p)
             admin == GetAdminPerNetwork(Network)
         IN  /\ \E a, k, b, u : Laid(s, admin, a, k, b, u)
             /\ Files(s, "StakedLay", Proxy) /\ Files(s, "StakedLayImpl", "StakedLay")
             /\ Files(s, "StakedTokenV2Rev3", "StakedTokenV2Rev3")
<1> DEFINE admin == GetAdminPerNetwork(Network)
           checks == Check(admin # NotGiven) \o CheckVerification(p)
           deploy == DeployStakedLayTask(p)
           init == InitializeStakedLayTask(admin)
           rev3 == DeployStakedTokenV2Rev3Task(NoParameters)
           up3 == InitializeStakedTokenV2Rev3Task
           up4 == InitializeStakedTokenV2Rev4Task
           s0 == checks \o deploy
           s1 == s0 \o init
           s2 == s1 \o rev3
           s3 == s2 \o up3
           s == s3 \o up4
<1>1. CommonDeploymentTask(p) = s
  BY DEF CommonDeploymentTask
<1>2. Without(checks, Changes)
  <2>1. Without(Check(admin # NotGiven), Changes) /\ Without(CheckVerification(p), Changes)
    BY UnchangingPieces
  <2> QED BY <2>1, WithoutInBoth
<1>3. /\ Files(deploy, "StakedLay", Proxy) /\ Files(deploy, "StakedLayImpl", "StakedLay")
      /\ Without(deploy, Speaking)
  BY DeployStakedLayFiles
<1>4. /\ Files(rev3, "StakedTokenV2Rev3", "StakedTokenV2Rev3")
      /\ Without(rev3, Speaking)
      /\ Leaves(rev3, "StakedLay") /\ Leaves(rev3, "StakedLayImpl")
  BY DeployRevisionsFile
<1>5. /\ EndsWith(init, "StakedLayImpl", "initialize") /\ init[Len(init)].admin = admin
      /\ EndsWith(up3, "StakedTokenV2Rev3", "upgrade")
      /\ EndsWith(up4, "StakedTokenV2Rev4", "upgrade")
  <2>1. admin \in Administrators
    BY DEF Administrators
  <2> QED BY <2>1, InitializeTasksEnd
<1>6. ASSUME NEW t, NEW key, NEW op, EndsWith(t, key, op)
      PROVE  IsSequence(t) /\ \A k : Leaves(t, k)
  BY <1>6 DEF EndsWith, Leaves, Without, Registers
<1> HIDE DEF admin, checks, deploy, init, rev3, up3, up4
<1>7. IsSequence(init) /\ IsSequence(up3) /\ IsSequence(up4)
      /\ \A k : Leaves(init, k) /\ Leaves(up3, k) /\ Leaves(up4, k)
  BY <1>5, <1>6
<1>8. /\ Files(s0, "StakedLay", Proxy) /\ Files(s0, "StakedLayImpl", "StakedLay")
      /\ Without(s0, Speaking)
  <2>1. IsSequence(checks) /\ Without(checks, Speaking)
    BY <1>2, Inert
  <2>2. Files(s0, "StakedLay", Proxy)
    BY <1>3, <2>1, FilesLater
  <2>3. Files(s0, "StakedLayImpl", "StakedLay")
    BY <1>3, <2>1, FilesLater
  <2>4. Without(s0, Speaking)
    BY <1>3, <2>1, WithoutInBoth
  <2> QED BY <2>2, <2>3, <2>4
<1> HIDE DEF s0
<1>9. Files(s1, "StakedLay", Proxy) /\ Files(s1, "StakedLayImpl", "StakedLay")
  BY <1>7, <1>8, FilesStill
<1> HIDE DEF s1
<1>10. /\ Files(s2, "StakedLay", Proxy) /\ Files(s2, "StakedLayImpl", "StakedLay")
       /\ Files(s2, "StakedTokenV2Rev3", "StakedTokenV2Rev3")
  <2>1. Files(s2, "StakedLay", Proxy) /\ Files(s2, "StakedLayImpl", "StakedLay")
    BY <1>4, <1>9, FilesStill
  <2>2. Files(s2, "StakedTokenV2Rev3", "StakedTokenV2Rev3")
    BY <1>4, <1>9, FilesLater DEF Files
  <2> QED BY <2>1, <2>2
<1> HIDE DEF s2
<1>11. /\ Files(s3, "StakedLay", Proxy) /\ Files(s3, "StakedLayImpl", "StakedLay")
       /\ Files(s3, "StakedTokenV2Rev3", "StakedTokenV2Rev3")
  BY <1>7, <1>10, FilesStill
<1> HIDE DEF s3
<1>12. /\ Files(s, "StakedLay", Proxy) /\ Files(s, "StakedLayImpl", "StakedLay")
       /\ Files(s, "StakedTokenV2Rev3", "StakedTokenV2Rev3")
  BY <1>7, <1>11, FilesStill
<1>13. IsSequence(s0) /\ IsSequence(s1) /\ IsSequence(s2) /\ IsSequence(s3) /\ IsSequence(rev3)
       /\ IsSequence(s)
  BY <1>4, <1>8, <1>9, <1>10, <1>11, <1>12 DEF Files
<1> HIDE DEF s
<1> DEFINE a == Len(s0)
           k == Len(s1)
           b == Len(s2)
           u == Len(s3)
           l == Len(s)
<1>14. /\ Part(s, 0, a, s0) /\ Part(s, a, k, init) /\ Part(s, k, b, rev3)
       /\ Part(s, b, u, up3) /\ Part(s, u, l, up4)
       /\ Part(s, 0, b, s2)
  <2>1. Part(s1, 0, a, s0) /\ Part(s1, a, k, init)
    BY <1>7, <1>13, PartsOf DEF s1
  <2>2. /\ Part(s2, 0, a, s0) /\ Part(s2, a, k, init) /\ Part(s2, k, b, rev3)
    BY <1>13, <2>1, PartsOf DEF s2
  <2>3. /\ Part(s3, 0, a, s0) /\ Part(s3, a, k, init) /\ Part(s3, k, b, rev3)
        /\ Part(s3, b, u, up3) /\ Part(s3, 0, b, s2)
    BY <1>7, <1>13, <2>2, PartsOf DEF s3
  <2> QED BY <1>7, <1>13, <2>3, PartsOf DEF s
<1> HIDE DEF a, k, b, u, l
<1>15. /\ a \in Nat /\ k \in Nat /\ b \in Nat /\ u \in Nat /\ l \in Nat
       /\ a <= k /\ k <= b /\ b <= u /\ u <= l
  BY <1>14 DEF Part, l
<1>16. \A i \in 0 + 1 .. a : s[i].op \notin Speaking
  BY <1>8, <1>14, PartWithout
<1>17. Calling(s, a, k, "StakedLayImpl", "initialize") /\ s[k].admin = admin
  <2>1. Calling(s, a, k, "StakedLayImpl", "initialize") /\ s[k] = init[Len(init)]
    BY <1>5, <1>14, PartEnds
  <2> QED BY <1>5, <2>1
<1>18. /\ \A i \in k + 1 .. b : s[i].op \notin Speaking
       /\ \A i \in k + 1 .. b : ~Registers(s[i], "StakedLay")
       /\ \A i \in k + 1 .. b : ~Registers(s[i], "StakedLayImpl")
  BY <1>4, <1>14, PartWithout
<1>19. Calling(s, b, u, "StakedTokenV2Rev3", "upgrade")
  BY <1>5, <1>14, PartEnds
<1>20. Calling(s, u, l, "StakedTokenV2Rev4", "upgrade")
  BY <1>5, <1>14, PartEnds
<1>21. /\ FilesBy(s, a, "StakedLay", Proxy) /\ FilesBy(s, a, "StakedLayImpl", "StakedLay")
       /\ 1 <= a
  <2>1. FilesBy(s0, a, "StakedLay", Proxy) /\ FilesBy(s0, a, "StakedLayImpl", "StakedLay")
    BY <1>8 DEF Files, a
  <2>2. FilesBy(s, a, "StakedLay", Proxy) /\ FilesBy(s, a, "StakedLayImpl", "StakedLay")
    BY <1>14, <1>15, <2>1, FilesInPart
  <2>3. PICK i \in 1 .. a : TRUE
    BY <2>1, FilesNonempty
  <2> QED BY <1>15, <2>2, <2>3
<1>22. FilesBy(s, b, "StakedTokenV2Rev3", "StakedTokenV2Rev3")
  <2>1. FilesBy(s2, b, "StakedTokenV2Rev3", "StakedTokenV2Rev3")
    BY <1>10 DEF Files, b
  <2> QED BY <1>14, <1>15, <2>1, FilesInPart
<1>23. \A i \in 1 .. a : s[i].op \notin Speaking
  <2>1. 0 + 1 = 1
    OBVIOUS
  <2> QED BY <1>16, <2>1
<1>24. Laid(s, admin, a, k, b, u)
  BY <1>13, <1>15, <1>17, <1>18, <1>19, <1>20, <1>21, <1>22, <1>23 DEF Laid, l
<1> QED BY <1>1, <1>12, <1>24 DEF s, admin

(* Where everything is in such a script.                                   *)
LEMMA LaidOut ==
  ASSUME NEW s, NEW admin, NEW a, NEW k, NEW b, NEW u, Laid(s, admin, a, k, b, u)
  PROVE  Commonly(s, admin, k, u) /\ Staged(s, k, u)
<1> DEFINE l == Len(s)
<1>1. /\ IsSequence(s) /\ l \in Nat /\ a \in Nat /\ k \in Nat /\ b \in Nat /\ u \in Nat
      /\ 1 <= a /\ a <= k /\ k <= b /\ b <= u /\ u <= l
      /\ s[k].admin = admin
  BY DEF Laid
<1>2. \A i \in 1 .. a : s[i].op \notin Speaking
  BY DEF Laid
<1>3. Calling(s, a, k, "StakedLayImpl", "initialize")
  BY DEF Laid
<1>4. \A i \in k + 1 .. b : /\ s[i].op \notin Speaking
                          /\ ~Registers(s[i], "StakedLay") /\ ~Registers(s[i], "StakedLayImpl")
  BY DEF Laid
<1>5. Calling(s, b, u, "StakedTokenV2Rev3", "upgrade")
  BY DEF Laid
<1>6. Calling(s, u, l, "StakedTokenV2Rev4", "upgrade")
  BY DEF Laid
<1>7. /\ FilesBy(s, a, "StakedLay", Proxy) /\ FilesBy(s, a, "StakedLayImpl", "StakedLay")
      /\ FilesBy(s, b, "StakedTokenV2Rev3", "StakedTokenV2Rev3")
  BY DEF Laid
<1> HIDE DEF l
<1>8. k - 2 \in a + 1 .. k /\ u - 2 \in b + 1 .. u /\ l - 2 \in u + 1 .. l
  BY <1>3, <1>5, <1>6 DEF Calling
<1>9. /\ k \in 3 .. l /\ u \in k + 1 .. l - 1 /\ u - 3 >= k /\ a <= k - 3 /\ b <= u - 3
       /\ k - 2 \in 1 .. l /\ u - 2 \in 1 .. l /\ l - 2 \in 1 .. l
  BY <1>1, <1>8
<1>10. /\ s[k - 2].op = "get implementation" /\ s[k - 2].key = "StakedLayImpl"
       /\ s[k - 1].op = "get proxy" /\ s[k].op = "initialize"
  BY <1>3 DEF Calling
<1>11. /\ s[u - 2].op = "get implementation" /\ s[u - 2].key = "StakedTokenV2Rev3"
       /\ s[u - 1].op = "get proxy" /\ s[u].op = "upgrade"
  BY <1>5 DEF Calling
<1>12. /\ s[l - 2].op = "get implementation" /\ s[l - 2].key = "StakedTokenV2Rev4"
       /\ s[l - 1].op = "get proxy" /\ s[l].op = "upgrade"
  BY <1>6 DEF Calling
<1>13. \A i \in 1 .. l : \/ i \in 1 .. a \/ i \in a + 1 .. k \/ i \in k + 1 .. b
                         \/ i \in b + 1 .. u \/ i \in u + 1 .. l
  BY <1>1
<1> DEFINE Right(i) == /\ s[i].op = "initialize" => i = k
                       /\ s[i].op = "upgrade" => i \in {u, l}
                       /\ s[i].op = "get implementation" => i \in {k - 2, u - 2, l - 2}
                       /\ s[i].op = "get proxy" => i \in {k - 1, u - 1, l - 1}
<1>14. ASSUME NEW i \in 1 .. l PROVE Right(i)
  <2>1. CASE i \in 1 .. a
    BY <1>2, <2>1 DEF Speaking
  <2>2. CASE i \in a + 1 .. k
    <3>1. /\ s[i].op \in {"initialize", "upgrade"} => i = k
          /\ s[i].op = "get implementation" => i = k - 2
          /\ s[i].op = "get proxy" => i = k - 1
      BY <1>3, <2>2 DEF Calling
    <3> QED BY <1>10, <3>1
  <2>3. CASE i \in k + 1 .. b
    BY <1>4, <2>3 DEF Speaking
  <2>4. CASE i \in b + 1 .. u
    <3>1. /\ s[i].op \in {"initialize", "upgrade"} => i = u
          /\ s[i].op = "get implementation" => i = u - 2
          /\ s[i].op = "get proxy" => i = u - 1
      BY <1>5, <2>4 DEF Calling
    <3> QED BY <1>11, <3>1
  <2>5. CASE i \in u + 1 .. l
    <3>1. /\ s[i].op \in {"initialize", "upgrade"} => i = l
          /\ s[i].op = "get implementation" => i = l - 2
          /\ s[i].op = "get proxy" => i = l - 1
      BY <1>6, <2>5 DEF Calling
    <3> QED BY <1>12, <3>1
  <2> QED BY <1>13, <2>1, <2>2, <2>3, <2>4, <2>5
<1>15. /\ \A i \in a + 1 .. k : s[i].op # "register"
       /\ \A i \in b + 1 .. u : s[i].op # "register"
       /\ \A i \in u + 1 .. l : s[i].op # "register"
  BY <1>3, <1>5, <1>6 DEF Calling
<1>16. ASSUME NEW i \in 1 .. l, i > u PROVE s[i].op # "register"
  <2>1. i \in u + 1 .. l
    BY <1>1, <1>16
  <2> QED BY <1>15, <2>1
<1>17. ASSUME NEW i \in 1 .. l, i > a
       PROVE  ~Registers(s[i], "StakedLay") /\ ~Registers(s[i], "StakedLayImpl")
  <2>1. i \in a + 1 .. k \/ i \in k + 1 .. b \/ i \in b + 1 .. u \/ i \in u + 1 .. l
    BY <1>1, <1>17
  <2> QED BY <1>4, <1>15, <2>1 DEF Registers
<1>18. ASSUME NEW n \in k - 3 .. l
       PROVE  FilesBy(s, n, "StakedLay", Proxy) /\ FilesBy(s, n, "StakedLayImpl", "StakedLay")
  <2>1. n \in Nat /\ a <= n /\ \A j \in a + 1 .. n : j \in 1 .. l /\ j > a
    BY <1>1, <1>9
  <2>2. \A j \in a + 1 .. n :
          ~Registers(s[j], "StakedLay") /\ ~Registers(s[j], "StakedLayImpl")
    BY <1>17, <2>1
  <2> QED BY <1>1, <1>7, <2>1, <2>2, FilesUntil
<1>19. ASSUME NEW n \in u - 3 .. l PROVE FilesBy(s, n, "StakedTokenV2Rev3", "StakedTokenV2Rev3")
  <2>1. n \in Nat /\ b <= n
    BY <1>1, <1>9
  <2>2. \A j \in b + 1 .. n : j \in b + 1 .. u \/ j \in u + 1 .. l
    BY <1>1
  <2>3. \A j \in b + 1 .. n : ~Registers(s[j], "StakedTokenV2Rev3")
    BY <1>15, <2>2 DEF Registers
  <2> QED BY <1>1, <1>7, <2>1, <2>3, FilesUntil
<1>20. \A i \in 1 .. l :
        /\ s[i].op = "initialize" => i = k
        /\ s[i].op = "upgrade" => i \in {u, l}
        /\ i \in {k, u, l} => /\ i - 2 \in 1 .. l /\ s[i - 2].op = "get implementation"
                              /\ s[i - 1].op = "get proxy"
  BY <1>9, <1>10, <1>11, <1>12, <1>14
<1>21. \A i \in 1 .. l : i > k =>
         ~Registers(s[i], "StakedLay") /\ ~Registers(s[i], "StakedLayImpl")
  <2>1. \A i \in 1 .. l : i > k => i > a
    BY <1>1
  <2> QED BY <1>17, <2>1
<1>22. Commonly(s, admin, k, u)
  BY <1>1, <1>9, <1>10, <1>12, <1>16, <1>18, <1>20, <1>21 DEF Commonly, l
<1>23. Staged(s, k, u)
  BY <1>9, <1>11, <1>14, <1>18, <1>19 DEF Staged, l
<1> QED BY <1>22, <1>23

LEMMA CommonDeployment ==
  ASSUME NEW p
  PROVE  LET s == CommonDeploymentTask(p)
             admin == GetAdminPerNetwork(Network)
         IN  /\ \E k, u : Commonly(s, admin, k, u) /\ Staged(s, k, u)
             /\ Files(s, "StakedLay", Proxy) /\ Files(s, "StakedLayImpl", "StakedLay")
             /\ Files(s, "StakedTokenV2Rev3", "StakedTokenV2Rev3")
BY CommonlyLaid, LaidOut

----------------------------------------------------------------------------
(* What a run that goes on by one step leaves of all this.                 *)

LEMMA Onward ==
  ASSUME NEW r, r.request \in Requests, IsScript(r.script), OnScript(r), r.script # <<>>
  PROVE  LET s == Script(r.request)
             n == Taken(r)
         IN  /\ n \in Nat /\ n + 1 \in 1 .. Len(s) /\ n + 1 <= Len(s) /\ Len(s) \in Nat
             /\ Head(r.script) = s[n + 1]
             /\ \A i \in 1 .. n + 1 : WellTyped(s[i])
             /\ \A q : q.request = r.request /\ q.script = Tail(r.script)
                         => Taken(q) = n + 1 /\ OnScript(q)
<1> DEFINE s == Script(r.request)
           n == Taken(r)
           l == Len(s)
           t == r.script
           e == Len(t)
<1>1. /\ l \in Nat /\ \A i \in 1 .. l : WellTyped(s[i])
  BY TasksAreScripts, SequenceDomain DEF IsScript
<1>2. /\ Len(Tail(t)) = e - 1 /\ Head(t) = t[1] /\ e \in Nat \ {0}
      /\ \A i \in 1 .. e - 1 : Tail(t)[i] = t[i + 1]
  BY TailSequence DEF IsScript
<1>3. n \in Nat /\ n = l - e /\ \A i \in 1 .. e : t[i] = s[n + i]
  BY DEF OnScript, Taken
<1> HIDE DEF s, n, l, t, e
<1>4. n + 1 \in 1 .. l /\ n + 1 <= l /\ 1 \in 1 .. e /\ \A i \in 1 .. n + 1 : i \in 1 .. l
  BY <1>1, <1>2, <1>3
<1>5. Head(t) = s[n + 1] /\ \A i \in 1 .. n + 1 : WellTyped(s[i])
  BY <1>1, <1>2, <1>3, <1>4
<1>6. ASSUME NEW q, q.request = r.request, q.script = Tail(t)
      PROVE  Taken(q) = n + 1 /\ OnScript(q)
  <2>1. Taken(q) = n + 1
    <3>1. Taken(q) = l - (e - 1)
      BY <1>2, <1>6 DEF Taken, s, l
    <3>2. l - (e - 1) = n + 1
      BY <1>1, <1>2, <1>3
    <3> QED BY <3>1, <3>2
  <2>2. Len(q.script) = e - 1 /\ Script(q.request) = s
    BY <1>2, <1>6 DEF s
  <2>3. ASSUME NEW i \in 1 .. e - 1 PROVE q.script[i] = s[(n + 1) + i]
    <3>1. i + 1 \in 1 .. e /\ n + (i + 1) = (n + 1) + i
      BY <1>2, <1>3
    <3>2. q.script[i] = t[i + 1]
      BY <1>2, <1>6
    <3> QED BY <1>3, <3>1, <3>2
  <2>4. n + 1 \in Nat
    BY <1>3
  <2> QED BY <2>1, <2>2, <2>3, <2>4 DEF OnScript
<1> QED BY <1>1, <1>4, <1>5, <1>6, <1>3 DEF s, n, l, t

(* A chain on which the proxies run what they ran.                         *)
Quietly(chain, later) ==
  /\ Grown(chain, later)
  /\ \A a \in DOMAIN chain : /\ later[a].implementation = chain[a].implementation
                             /\ later[a].admin = chain[a].admin
                             /\ later[a].lastInitializedRevision = chain[a].lastInitializedRevision

LEMMA CommonRequest ==
  ASSUME NEW request, request.task = "common-deployment"
  PROVE  LET s == Script(request) IN
         /\ \E k, u : Commonly(s, GetAdminPerNetwork(Network), k, u) /\ Staged(s, k, u)
         /\ Files(s, "StakedLay", Proxy) /\ Files(s, "StakedLayImpl", "StakedLay")
         /\ Files(s, "StakedTokenV2Rev3", "StakedTokenV2Rev3")
<1>1. Script(request) = CommonDeploymentTask(request.params)
  BY DEF Script
<1> QED BY <1>1, CommonDeployment

(* By the first transaction to the proxy, the file names it.               *)
LEMMA ProxyFiled ==
  ASSUME NEW s, NEW admin, NEW k, NEW u, Commonly(s, admin, k, u),
         NEW n \in Nat, n <= Len(s), k - 3 <= n,
         NEW chain, NEW file, NEW instance, Filed(chain, file, s, n, instance)
  PROVE  On(chain, file["StakedLay"]) /\ chain[file["StakedLay"]].kind = Proxy
<1> DEFINE l == Len(s)
<1>1. k \in 3 .. l /\ u \in k + 1 .. l - 1 /\ \A j \in k - 3 .. l : FilesBy(s, j, "StakedLay", Proxy)
  BY DEF Commonly
<1>2. n <= l
  OBVIOUS
<1>3. l \in Nat
  BY SequenceDomain DEF Commonly
<1> HIDE DEF l
<1>4. FilesBy(s, n, "StakedLay", Proxy)
  BY <1>1, <1>2, <1>3
<1> QED BY <1>4, FiledMeans

LEMMA SetUpGrows ==
  ASSUME NEW s, NEW admin, NEW k, NEW u, Commonly(s, admin, k, u),
         NEW n \in Nat, n <= Len(s), NEW chain, NEW later, Quietly(chain, later),
         NEW file, NEW instance, Filed(chain, file, s, n, instance), SetUp(chain, file, s, n)
  PROVE  SetUp(later, file, s, n)
<1> SUFFICES ASSUME NEW i \in 1 .. n, s[i].op \in {"initialize", "upgrade"}
             PROVE  /\ s[i].op = "initialize" =>
                         /\ later[file["StakedLay"]].implementation # NoAddress
                         /\ later[file["StakedLay"]].admin = s[i].admin
                    /\ (\A j \in i + 1 .. n : s[j].op \notin Transactions) =>
                         later[file["StakedLay"]].implementation = file[s[i - 2].key]
  BY DEF SetUp, Transactions
<1>1. k - 3 <= n
  <2> DEFINE l == Len(s)
  <2>1. /\ k \in 3 .. l /\ u \in k + 1 .. l - 1
        /\ \A j \in 1 .. l : s[j].op \in {"initialize", "upgrade"} => j \in {k, u, l}
    BY DEF Commonly
  <2>2. n <= l /\ l \in Nat
    BY SequenceDomain DEF Commonly
  <2> HIDE DEF l
  <2>3. i \in {k, u, l}
    <3>1. i \in 1 .. l
      BY <2>2
    <3> QED BY <2>1, <3>1
  <2> QED BY <2>1, <2>3
<1>2. file["StakedLay"] \in DOMAIN chain
  BY <1>1, ProxyFiled DEF On
<1> QED BY <1>2 DEF SetUp, Quietly, Transactions

LEMMA SetUpNext ==
  ASSUME NEW s, NEW admin, NEW k, NEW u, Commonly(s, admin, k, u),
         NEW n \in Nat, n + 1 <= Len(s), NEW chain, NEW file, SetUp(chain, file, s, n),
         s[n + 1].op \notin {"initialize", "upgrade"}
  PROVE  SetUp(chain, file, s, n + 1)
<1>1. \A i \in 1 .. n + 1 : /\ i \in 1 .. n \/ i = n + 1
                            /\ \A j \in i + 1 .. n : j \in i + 1 .. n + 1
  OBVIOUS
<1> QED BY <1>1 DEF SetUp, Transactions

LEMMA SetUpRegister ==
  ASSUME NEW s, NEW admin, NEW k, NEW u, Commonly(s, admin, k, u),
         NEW n \in Nat, n + 1 <= Len(s), NEW chain, NEW file, SetUp(chain, file, s, n),
         file = [key \in Keys |-> file[key]], WellTyped(s[n + 1]),
         s[n + 1].op = "register", NEW v, NEW later, later = [file EXCEPT ![s[n + 1].key] = v]
  PROVE  SetUp(chain, later, s, n + 1)
<1> SUFFICES ASSUME NEW i \in 1 .. n + 1, s[i].op \in {"initialize", "upgrade"}
             PROVE  /\ s[i].op = "initialize" =>
                         /\ chain[later["StakedLay"]].implementation # NoAddress
                         /\ chain[later["StakedLay"]].admin = s[i].admin
                    /\ (\A j \in i + 1 .. n + 1 : s[j].op \notin Transactions) =>
                         chain[later["StakedLay"]].implementation = later[s[i - 2].key]
  BY DEF SetUp, Transactions
<1> DEFINE l == Len(s)
<1>1. /\ k \in 3 .. l /\ u \in k + 1 .. l - 1 /\ n + 1 <= l
      /\ \A j \in 1 .. l : /\ s[j].op = "initialize" => j = k
                           /\ s[j].op = "upgrade" => j \in {u, l}
                           /\ j > k => /\ ~Registers(s[j], "StakedLay")
                                       /\ ~Registers(s[j], "StakedLayImpl")
                           /\ j > u => s[j].op # "register"
      /\ s[k - 2].key = "StakedLayImpl"
  BY DEF Commonly
<1>0. l \in Nat
  BY SequenceDomain DEF Commonly
<1> HIDE DEF l
<1>2. l \in Int /\ i \in 1 .. l /\ n + 1 \in 1 .. l /\ i # n + 1
  <2>1. i # n + 1
    OBVIOUS
  <2> QED BY <1>0, <1>1, <2>1
<1>3. s[i].op = "initialize"
  <2> SUFFICES ASSUME s[i].op = "upgrade" PROVE FALSE
    OBVIOUS
  <2>1. i \in {u, l}
    BY <1>1, <1>2
  <2>2. n + 1 > u
    BY <1>1, <1>2, <2>1
  <2> QED BY <1>1, <1>2, <2>2
<1>4. i = k /\ i \in 1 .. n /\ n + 1 > k
  BY <1>1, <1>2, <1>3
<1>5. s[n + 1].key \notin {"StakedLay", "StakedLayImpl"}
  BY <1>1, <1>2, <1>4 DEF Registers
<1>6. /\ later["StakedLay"] = file["StakedLay"]
      /\ later["StakedLayImpl"] = file["StakedLayImpl"]
  BY <1>5, Names
<1>7. chain[file["StakedLay"]].implementation # NoAddress
      /\ chain[file["StakedLay"]].admin = s[i].admin
  BY <1>3, <1>4 DEF SetUp
<1>8. ASSUME \A j \in i + 1 .. n + 1 : s[j].op \notin Transactions
      PROVE  chain[file["StakedLay"]].implementation = file[s[i - 2].key]
  <2>1. \A j \in i + 1 .. n : s[j].op \notin Transactions
    <3>1. \A j \in i + 1 .. n : j \in i + 1 .. n + 1
      OBVIOUS
    <3> QED BY <1>8, <3>1
  <2>2. i \in 1 .. n /\ s[i].op \in Transactions
    BY <1>4 DEF Transactions
  <2> QED BY <2>1, <2>2 DEF SetUp
<1> QED BY <1>1, <1>3, <1>4, <1>6, <1>7, <1>8

LEMMA SetUpInitialize ==
  ASSUME NEW s, NEW admin, NEW k, NEW u, Commonly(s, admin, k, u),
         NEW n \in Nat, n + 1 <= Len(s), s[n + 1].op = "initialize", NEW chain, NEW file,
         chain[file["StakedLay"]].implementation = file[s[(n + 1) - 2].key],
         chain[file["StakedLay"]].implementation # NoAddress,
         chain[file["StakedLay"]].admin = s[n + 1].admin
  PROVE  SetUp(chain, file, s, n + 1)
<1> DEFINE l == Len(s)
<1>1. /\ k \in 3 .. l /\ u \in k + 1 .. l - 1 /\ n + 1 <= l
      /\ \A j \in 1 .. l : /\ s[j].op = "initialize" => j = k
                           /\ s[j].op = "upgrade" => j \in {u, l}
  BY DEF Commonly
<1>0. l \in Nat
  BY SequenceDomain DEF Commonly
<1> HIDE DEF l
<1>2. l \in Int /\ n + 1 = k /\ \A i \in 1 .. n + 1 : i \in 1 .. l
  BY <1>0, <1>1
<1>3. ASSUME NEW i \in 1 .. n + 1 PROVE s[i].op # "upgrade" /\ (s[i].op = "initialize" => i = n + 1)
  <2>1. i \notin {u, l}
    BY <1>1, <1>2
  <2> QED BY <1>1, <1>2, <2>1
<1> QED BY <1>3 DEF SetUp, Transactions

LEMMA SetUpUpgrade ==
  ASSUME NEW s, NEW n \in Nat, s[n + 1].op = "upgrade", NEW chain, NEW later, NEW file,
         SetUp(chain, file, s, n),
         later[file["StakedLay"]].implementation = file[s[(n + 1) - 2].key],
         later[file["StakedLay"]].implementation # NoAddress,
         later[file["StakedLay"]].admin = chain[file["StakedLay"]].admin
  PROVE  SetUp(later, file, s, n + 1)
<1>1. \A i \in 1 .. n + 1 : /\ i \in 1 .. n \/ i = n + 1
                            /\ i # n + 1 => n + 1 \in i + 1 .. n + 1
  OBVIOUS
<1> QED BY <1>1 DEF SetUp, Transactions

(* A run at a step of its script, and the same run after it.               *)
Ready(r) ==
  r.request \in Requests /\ IsScript(r.script) /\ OnScript(r) /\ r.script # <<>>

Advanced(r, q) == q.request = r.request /\ q.script = Tail(r.script)

LEMMA HistoryBegins ==
  ASSUME NEW r, r.request \in Requests, r.script = Script(r.request), NEW chain, NEW file
  PROVE  OnScript(r) /\ History(chain, file, r)
<1> DEFINE s == Script(r.request)
           l == Len(s)
<1>1. l \in Nat
  BY TasksAreScripts, SequenceDomain DEF IsScript
<1>2. Taken(r) = l - l
  BY DEF Taken
<1> HIDE DEF s, l
<1>3. Taken(r) = 0 /\ Taken(r) \in Nat
  BY <1>1, <1>2
<1>4. OnScript(r)
  <2>1. ASSUME NEW i \in 1 .. Len(r.script) PROVE r.script[i] = Script(r.request)[Taken(r) + i]
    <3>1. 0 + i = i
      OBVIOUS
    <3> QED BY <1>3, <3>1
  <2> QED BY <1>3, <2>1 DEF OnScript
<1>5. \A i \in 1 .. Taken(r) : FALSE
  BY <1>3
<1>6. History(chain, file, r)
  BY <1>5 DEF History, Made, Filed, ReadImplementation, ReadProxy, SetUp
<1> QED BY <1>4, <1>6

LEMMA TakenBound ==
  ASSUME NEW r, r.request \in Requests, IsScript(r.script), OnScript(r)
  PROVE  /\ Taken(r) \in Nat /\ Taken(r) <= Len(Script(r.request))
         /\ r.script = <<>> => Taken(r) = Len(Script(r.request))
<1> DEFINE l == Len(Script(r.request))
           e == Len(r.script)
<1>1. l \in Nat /\ e \in Nat /\ (r.script = <<>> => e = 0)
  BY TasksAreScripts, SequenceDomain DEF IsScript
<1>2. Taken(r) = l - e /\ Taken(r) \in Nat
  BY DEF Taken, OnScript
<1> HIDE DEF l, e
<1>3. Taken(r) <= l /\ (e = 0 => Taken(r) = l)
  BY <1>1, <1>2
<1> QED BY <1>1, <1>2, <1>3 DEF l

LEMMA HistoryGrows ==
  ASSUME NEW r, r.request \in Requests, IsScript(r.script), OnScript(r),
         NEW chain, NEW later, Quietly(chain, later), NEW file, History(chain, file, r)
  PROVE  History(later, file, r)
<1> DEFINE s == Script(r.request)
           n == Taken(r)
<1>1. /\ Made(chain, s, n, r.instance) /\ Filed(chain, file, s, n, r.instance)
      /\ ReadImplementation(file, s, n, r.implementation) /\ ReadProxy(file, s, n, r.proxy)
      /\ r.request.task = "common-deployment" => SetUp(chain, file, s, n)
  BY DEF History
<1>2. n \in Nat /\ n <= Len(s) /\ Grown(chain, later)
  BY TakenBound DEF Quietly
<1>3. ASSUME r.request.task = "common-deployment" PROVE SetUp(later, file, s, n)
  <2>1. PICK k, u : Commonly(s, GetAdminPerNetwork(Network), k, u)
    BY <1>3, CommonRequest
  <2> HIDE DEF s, n
  <2> QED BY <1>1, <1>2, <1>3, <2>1, SetUpGrows
<1>4. Made(later, s, n, r.instance)
  BY <1>1, <1>2, MadeGrows
<1>5. Filed(later, file, s, n, r.instance)
  BY <1>1, <1>2, FiledGrows
<1> QED BY <1>1, <1>3, <1>4, <1>5 DEF History

(* Steps that neither create, register nor speak to the proxy.             *)
LEMMA HistoryReads ==
  ASSUME NEW r, Ready(r), NEW chain, NEW file, History(chain, file, r),
         NEW step, step = Head(r.script),
         step.op \notin {"deploy", "register", "initialize", "upgrade"},
         step.op = "await" => On(chain, r.instance),
         NEW q, Advanced(r, q), q.instance = r.instance,
         IF step.op = "get implementation" THEN q.implementation = file[step.key]
                                           ELSE q.implementation = r.implementation,
         IF step.op = "get proxy" THEN q.proxy = file["StakedLay"] ELSE q.proxy = r.proxy
  PROVE  OnScript(q) /\ History(chain, file, q)
<1> DEFINE s == Script(r.request)
           n == Taken(r)
<1>1. /\ Made(chain, s, n, r.instance) /\ Filed(chain, file, s, n, r.instance)
      /\ ReadImplementation(file, s, n, r.implementation) /\ ReadProxy(file, s, n, r.proxy)
      /\ r.request.task = "common-deployment" => SetUp(chain, file, s, n)
  BY DEF History
<1>2. /\ n \in Nat /\ n + 1 \in 1 .. Len(s) /\ step = s[n + 1] /\ n + 1 <= Len(s)
      /\ Taken(q) = n + 1 /\ OnScript(q)
  BY Onward DEF Ready, Advanced
<1>3. q.request = r.request
  BY DEF Advanced
<1> HIDE DEF s, n
<1>4. Made(chain, s, n + 1, q.instance)
  BY <1>1, <1>2, MadeNext
<1>5. Filed(chain, file, s, n + 1, q.instance)
  BY <1>1, <1>2, FiledNext
<1>6. ReadImplementation(file, s, n + 1, q.implementation)
  BY <1>1, <1>2, ReadNext
<1>7. ReadProxy(file, s, n + 1, q.proxy)
  BY <1>1, <1>2, ReadNext
<1>8. ASSUME r.request.task = "common-deployment" PROVE SetUp(chain, file, s, n + 1)
  <2>1. PICK k, u : Commonly(s, GetAdminPerNetwork(Network), k, u)
    BY <1>8, CommonRequest DEF s
  <2>2. n + 1 <= Len(s)
    BY <1>2
  <2> QED BY <1>1, <1>2, <1>8, <2>1, <2>2, SetUpNext
<1> QED BY <1>2, <1>3, <1>4, <1>5, <1>6, <1>7, <1>8 DEF History, s

LEMMA HistoryDeploy ==
  ASSUME NEW r, Ready(r), NEW chain, NEW later, Quietly(chain, later),
         NEW file, History(chain, file, r), Head(r.script).op = "deploy",
         NEW q, Advanced(r, q), q.instance \in DOMAIN later,
         later[q.instance].kind = Head(r.script).kind,
         q.implementation = r.implementation, q.proxy = r.proxy
  PROVE  OnScript(q) /\ History(later, file, q)
<1> DEFINE s == Script(r.request)
           n == Taken(r)
<1>1. History(later, file, r)
  BY HistoryGrows DEF Ready
<1>2. /\ Made(later, s, n, r.instance) /\ Filed(later, file, s, n, r.instance)
      /\ ReadImplementation(file, s, n, r.implementation) /\ ReadProxy(file, s, n, r.proxy)
      /\ r.request.task = "common-deployment" => SetUp(later, file, s, n)
  BY <1>1 DEF History
<1>3. /\ n \in Nat /\ n + 1 \in 1 .. Len(s) /\ Head(r.script) = s[n + 1] /\ n + 1 <= Len(s)
      /\ Taken(q) = n + 1 /\ OnScript(q)
  BY Onward DEF Ready, Advanced
<1>4. q.request = r.request
  BY DEF Advanced
<1> HIDE DEF s, n
<1>5. Made(later, s, n + 1, q.instance)
  BY <1>3, MadeNew
<1>6. Filed(later, file, s, n + 1, q.instance)
  BY <1>2, <1>3, FiledNew
<1>7. ReadImplementation(file, s, n + 1, q.implementation)
  BY <1>2, <1>3, ReadNext
<1>8. ReadProxy(file, s, n + 1, q.proxy)
  BY <1>2, <1>3, ReadNext
<1>9. ASSUME r.request.task = "common-deployment" PROVE SetUp(later, file, s, n + 1)
  <2>1. PICK k, u : Commonly(s, GetAdminPerNetwork(Network), k, u)
    BY <1>9, CommonRequest DEF s
  <2>2. n + 1 <= Len(s)
    BY <1>3
  <2> QED BY <1>2, <1>3, <1>9, <2>1, <2>2, SetUpNext
<1> QED BY <1>3, <1>4, <1>5, <1>6, <1>7, <1>8, <1>9 DEF History, s

LEMMA HistoryRegister ==
  ASSUME NEW r, Ready(r), NEW chain, NEW file, file = [key \in Keys |-> file[key]],
         History(chain, file, r), Head(r.script).op = "register",
         NEW later, later = [file EXCEPT ![Head(r.script).key] = r.instance],
         NEW q, Advanced(r, q), q.instance = r.instance,
         q.implementation = r.implementation, q.proxy = r.proxy
  PROVE  OnScript(q) /\ History(chain, later, q)
<1> DEFINE s == Script(r.request)
           n == Taken(r)
<1>2. /\ Made(chain, s, n, r.instance) /\ Filed(chain, file, s, n, r.instance)
      /\ ReadImplementation(file, s, n, r.implementation) /\ ReadProxy(file, s, n, r.proxy)
      /\ r.request.task = "common-deployment" => SetUp(chain, file, s, n)
  BY DEF History
<1>3. /\ n \in Nat /\ n + 1 \in 1 .. Len(s) /\ Head(r.script) = s[n + 1] /\ n + 1 <= Len(s)
      /\ Taken(q) = n + 1 /\ OnScript(q)
  BY Onward DEF Ready, Advanced
<1>4. \A i \in 1 .. n + 1 : WellTyped(s[i])
  BY Onward DEF Ready
<1>5. q.request = r.request
  BY DEF Advanced
<1> HIDE DEF s, n
<1>6. Made(chain, s, n + 1, q.instance)
  BY <1>2, <1>3, MadeNext
<1>7. Filed(chain, later, s, n + 1, q.instance)
  BY <1>2, <1>3, <1>4, FiledRegister
<1>8. ReadImplementation(later, s, n + 1, q.implementation)
  BY <1>2, <1>3, <1>4, ReadRegister
<1>9. ReadProxy(later, s, n + 1, q.proxy)
  BY <1>2, <1>3, <1>4, ReadRegister
<1>10. ASSUME r.request.task = "common-deployment" PROVE SetUp(chain, later, s, n + 1)
  <2>1. PICK k, u : Commonly(s, GetAdminPerNetwork(Network), k, u)
    BY <1>10, CommonRequest DEF s
  <2>2. n + 1 <= Len(s) /\ WellTyped(s[n + 1])
    BY <1>3, <1>4
  <2> QED BY <1>2, <1>3, <1>10, <2>1, <2>2, SetUpRegister
<1> QED BY <1>3, <1>5, <1>6, <1>7, <1>8, <1>9, <1>10 DEF History, s

(* A transaction to the proxy: of common-deployment it is known to which   *)
(* proxy it goes, and for which implementation.                            *)
LEMMA CallKnows ==
  ASSUME NEW r, Ready(r), r.request.task = "common-deployment",
         NEW chain, NEW file, History(chain, file, r),
         Head(r.script).op \in {"initialize", "upgrade"}
  PROVE  /\ r.proxy = file["StakedLay"] /\ On(chain, r.proxy) /\ chain[r.proxy].kind = Proxy
         /\ r.implementation = file[Script(r.request)[(Taken(r) + 1) - 2].key]
         /\ Head(r.script).op = "upgrade" => chain[r.proxy].implementation # NoAddress
<1> DEFINE s == Script(r.request)
           n == Taken(r)
           l == Len(s)
<1>1. /\ Filed(chain, file, s, n, r.instance)
      /\ ReadImplementation(file, s, n, r.implementation) /\ ReadProxy(file, s, n, r.proxy)
      /\ SetUp(chain, file, s, n)
  BY DEF History
<1>2. n \in Nat /\ n + 1 \in 1 .. l /\ Head(r.script) = s[n + 1] /\ l \in Nat
  BY Onward DEF Ready
<1>3. PICK k, u : Commonly(s, GetAdminPerNetwork(Network), k, u)
  BY CommonRequest
<1>4. /\ k \in 3 .. l /\ u \in k + 1 .. l - 1 /\ s[k].op = "initialize"
      /\ \A i \in 1 .. l :
           /\ s[i].op = "initialize" => i = k
           /\ s[i].op = "upgrade" => i \in {u, l}
           /\ i \in {k, u, l} => /\ i - 2 \in 1 .. l /\ s[i - 2].op = "get implementation"
                                 /\ s[i - 1].op = "get proxy"
  BY <1>3 DEF Commonly
<1> HIDE DEF s, n
<1>5. n <= l /\ k - 3 <= n /\ n + 1 \in {k, u, l} /\ (s[n + 1].op = "upgrade" => k \in 1 .. n)
  <2> HIDE DEF l
  <2>0. k \in 3 .. l /\ u \in k + 1 .. l - 1 /\ n \in Nat /\ l \in Nat /\ n + 1 \in 1 .. l
    BY <1>2, <1>4
  <2>1. n + 1 = k => n <= l /\ k - 3 <= n
    BY <2>0
  <2>2. n + 1 \in {u, l} => n <= l /\ k - 3 <= n /\ k \in 1 .. n
    BY <2>0
  <2>3. n + 1 = k \/ n + 1 \in {u, l}
    BY <1>2, <1>4
  <2>4. s[n + 1].op = "upgrade" => n + 1 \in {u, l}
    BY <1>4, <2>0
  <2> QED BY <2>1, <2>2, <2>3, <2>4
<1>6. /\ (n + 1) - 2 \in 1 .. l /\ s[(n + 1) - 2].op = "get implementation"
      /\ s[(n + 1) - 1].op = "get proxy"
  BY <1>2, <1>4, <1>5
<1> HIDE DEF l
<1>7. /\ (n + 1) - 1 = n /\ n \in 1 .. n /\ (n + 1) - 2 \in 1 .. n
      /\ \A j \in ((n + 1) - 2) + 1 .. n : j = n
      /\ \A j \in n + 1 .. n : FALSE
  <2>1. (n + 1) - 2 \in 1 .. l /\ n \in Nat /\ l \in Nat
    BY <1>2, <1>6
  <2> QED BY <2>1
<1>8. s[n].op = "get proxy"
  BY <1>6, <1>7
<1>9. r.proxy = file["StakedLay"]
  BY <1>1, <1>7, <1>8 DEF ReadProxy
<1>10. r.implementation = file[s[(n + 1) - 2].key]
  <2> DEFINE i == (n + 1) - 2
  <2>1. i \in 1 .. n /\ \A j \in i + 1 .. n : j = n
    BY <1>7
  <2>2. s[i].op = "get implementation"
    BY <1>6
  <2> HIDE DEF i
  <2>3. r.implementation = file[s[i].key]
    BY <1>1, <1>8, <2>1, <2>2 DEF ReadImplementation, Registers
  <2> QED BY <2>3 DEF i
<1>11. On(chain, file["StakedLay"]) /\ chain[file["StakedLay"]].kind = Proxy
  BY <1>1, <1>2, <1>3, <1>5, ProxyFiled DEF l
<1>12. s[n + 1].op = "upgrade" => chain[file["StakedLay"]].implementation # NoAddress
  BY <1>1, <1>4, <1>5 DEF SetUp
<1> QED BY <1>2, <1>9, <1>10, <1>11, <1>12 DEF s, n

LEMMA HistoryCalls ==
  ASSUME NEW r, Ready(r), NEW chain, NEW later, Grown(chain, later),
         NEW file, History(chain, file, r),
         NEW step, step = Head(r.script), step.op \in {"initialize", "upgrade"},
         NEW q, Advanced(r, q), q.instance = r.instance,
         q.implementation = r.implementation, q.proxy = r.proxy,
         r.request.task = "common-deployment" =>
           /\ later[r.proxy].implementation = r.implementation
           /\ later[r.proxy].implementation # NoAddress
           /\ step.op = "initialize" => later[r.proxy].admin = step.admin
           /\ step.op = "upgrade" => later[r.proxy].admin = chain[r.proxy].admin
  PROVE  OnScript(q) /\ History(later, file, q)
<1> DEFINE s == Script(r.request)
           n == Taken(r)
<1>1. /\ Made(chain, s, n, r.instance) /\ Filed(chain, file, s, n, r.instance)
      /\ ReadImplementation(file, s, n, r.implementation) /\ ReadProxy(file, s, n, r.proxy)
      /\ r.request.task = "common-deployment" => SetUp(chain, file, s, n)
  BY DEF History
<1>2. /\ n \in Nat /\ n + 1 \in 1 .. Len(s) /\ step = s[n + 1] /\ n + 1 <= Len(s)
      /\ Taken(q) = n + 1 /\ OnScript(q)
  BY Onward DEF Ready, Advanced
<1>3. q.request = r.request
  BY DEF Advanced
<1>4. r.request.task = "common-deployment" =>
        /\ r.proxy = file["StakedLay"]
        /\ r.implementation = file[s[(n + 1) - 2].key]
  BY CallKnows
<1> HIDE DEF s, n
<1>5. Made(later, s, n, r.instance) /\ Filed(later, file, s, n, r.instance)
  BY <1>1, MadeGrows, FiledGrows
<1>6. Made(later, s, n + 1, q.instance)
  BY <1>2, <1>5, MadeNext
<1>7. Filed(later, file, s, n + 1, q.instance)
  BY <1>2, <1>5, FiledNext
<1>8. ReadImplementation(file, s, n + 1, q.implementation)
  BY <1>1, <1>2, ReadNext
<1>9. ReadProxy(file, s, n + 1, q.proxy)
  BY <1>1, <1>2, ReadNext
<1>10. ASSUME r.request.task = "common-deployment" PROVE SetUp(later, file, s, n + 1)
  <2>1. PICK k, u : Commonly(s, GetAdminPerNetwork(Network), k, u)
    BY <1>10, CommonRequest DEF s
  <2>2. n + 1 <= Len(s)
    BY <1>2
  <2>3. CASE step.op = "initialize"
    BY <1>2, <1>4, <1>10, <2>1, <2>2, <2>3, SetUpInitialize
  <2>4. CASE step.op = "upgrade"
    BY <1>1, <1>2, <1>4, <1>10, <2>4, SetUpUpgrade
  <2> QED BY <2>3, <2>4
<1> QED BY <1>2, <1>3, <1>6, <1>7, <1>8, <1>9, <1>10 DEF History, s

----------------------------------------------------------------------------
(* Every action, and the theorem.                                          *)

LEMMA AppendsQuietly ==
  ASSUME ChainInv, NEW c, contracts' = Append(contracts, c)
  PROVE  /\ Quietly(contracts, contracts')
         /\ Len(contracts) + 1 \in DOMAIN contracts' /\ contracts'[Len(contracts) + 1] = c
<1>1. /\ Len(contracts) \in Nat /\ DOMAIN contracts = 1 .. Len(contracts)
      /\ DOMAIN contracts' = 1 .. (Len(contracts) + 1)
      /\ \A i \in DOMAIN contracts : contracts'[i] = contracts[i]
      /\ contracts'[Len(contracts) + 1] = c
  BY AppendToSequence DEF ChainInv
<1>2. \A i \in DOMAIN contracts : i \in DOMAIN contracts'
  BY <1>1
<1>3. Len(contracts) + 1 \in DOMAIN contracts'
  BY <1>1
<1> QED BY <1>1, <1>2, <1>3 DEF Quietly, Grown

LEMMA MinesQuietly ==
  ASSUME ChainInv, Mines
  PROVE  Quietly(contracts, contracts')
<1>1. PICK a \in DOMAIN contracts, status \in {"mined", "failed"} :
        /\ contracts[a].status = "pending"
        /\ contracts' = [contracts EXCEPT ![a].status = status]
  BY DEF Mines
<1> DEFINE d == [contracts[a] EXCEPT !.status = status]
<1>2. /\ d.kind = contracts[a].kind /\ d.implementation = contracts[a].implementation
      /\ d.admin = contracts[a].admin
      /\ d.lastInitializedRevision = contracts[a].lastInitializedRevision
  BY MinedContract DEF ChainInv
<1>3. contracts' = [contracts EXCEPT ![a] = d] /\ IsSequence(contracts)
  BY <1>1 DEF ChainInv
<1> HIDE DEF d
<1>4. /\ DOMAIN contracts' = DOMAIN contracts
      /\ \A i \in DOMAIN contracts : contracts'[i] = IF i = a THEN d ELSE contracts[i]
  BY <1>3, ExceptInSequence
<1> QED BY <1>1, <1>2, <1>4 DEF Quietly, Grown

LEMMA SetUpGrown ==
  ASSUME ChainInv, NEW proxy \in DOMAIN contracts, NEW implementation \in DOMAIN contracts,
         NEW admin, contracts' = SetUpProxy(proxy, implementation, admin)
  PROVE  /\ Grown(contracts, contracts')
         /\ contracts'[proxy].implementation = implementation /\ implementation # NoAddress
         /\ contracts'[proxy].admin = admin
<1>1. /\ DOMAIN contracts' = DOMAIN contracts
      /\ \A a \in DOMAIN contracts : a # proxy => contracts'[a] = contracts[a]
      /\ contracts'[proxy].status = contracts[proxy].status
      /\ contracts'[proxy].kind = contracts[proxy].kind
      /\ contracts'[proxy].implementation = implementation
      /\ contracts'[proxy].admin = admin
  BY SetUpChanges
<1>2. implementation # NoAddress
  BY ExceptInSequence DEF ChainInv
<1> QED BY <1>1, <1>2 DEF Grown

(* What there is to show of the run that takes a step.                     *)
Kept(o) ==
  runs'[o].status = "running" =>
    /\ runs'[o].request \in Requests /\ OnScript(runs'[o])
    /\ runs'[o].alone => runs[o].alone /\ History(contracts', db', runs'[o])

LEMMA OthersCourse ==
  ASSUME Course, NEW o \in Operators, Running(o), Kept(o),
         \A x \in Operators : x # o => runs'[x] = runs[x]
  PROVE  Course'
<1> SUFFICES ASSUME NEW x \in Operators, runs'[x].status = "running"
             PROVE  /\ runs'[x].request \in Requests /\ OnScript(runs'[x])
                    /\ runs'[x].alone => /\ \A y \in Operators \ {x} : runs'[y].status # "running"
                                         /\ History(contracts', db', runs'[x])
  BY DEF Course, Running, OnScript, History, Taken
<1>1. CASE x = o
  BY <1>1 DEF Kept, Course, Running
<1>2. CASE x # o
  <2>1. runs'[x] = runs[x] /\ Running(x) /\ o \in Operators \ {x}
    BY <1>2 DEF Running
  <2> QED BY <2>1 DEF Course
<1> QED BY <1>1, <1>2

LEMMA EndCourse ==
  ASSUME RunInv, Course, NEW o \in Operators, Running(o), NEW status, status # "running",
         End(o, status)
  PROVE  Course'
<1>1. (\A x \in Operators : x # o => runs'[x] = runs[x]) /\ runs'[o].status = status
  BY Ends
<1> QED BY <1>1, OthersCourse DEF Kept

LEMMA AtStepReady ==
  ASSUME TypesInv, Course, NEW o \in Operators, NEW op, AtStep(o, op)
  PROVE  /\ Running(o) /\ Ready(runs[o]) /\ Step(o).op = op /\ Step(o) = Head(runs[o].script)
         /\ runs[o].alone => History(contracts, db, runs[o])
BY DEF TypesInv, RunTyped, Course, AtStep, Ready, Step

LEMMA ProceedCourse ==
  ASSUME RunInv, Course, NEW o \in Operators, Running(o), Ready(runs[o]),
         NEW run, IsRun(run), Proceed(o, run), run.request = runs[o].request,
         run.script = runs[o].script, run.alone = runs[o].alone,
         \A q : Advanced(runs[o], q) /\ q.instance = run.instance
                  /\ q.implementation = run.implementation /\ q.proxy = run.proxy
                  /\ runs[o].alone
                => History(contracts', db', q)
  PROVE  Course'
<1>1. /\ \A x \in Operators : x # o => runs'[x] = runs[x]
      /\ SameButScript(runs'[o], run) /\ runs'[o].script = Tail(run.script)
  BY Proceeds
<1>2. Advanced(runs[o], runs'[o])
  BY <1>1 DEF Advanced, SameButScript
<1>3. OnScript(runs'[o])
  BY <1>2, Onward DEF Ready, Advanced
<1>4. Kept(o)
  BY <1>1, <1>2, <1>3 DEF Kept, SameButScript, Ready, Advanced
<1> QED BY <1>1, <1>4, OthersCourse

LEMMA AdvanceCourse ==
  ASSUME IInv, TypesInv, Course, NEW o \in Operators, Advance(o)
  PROVE  Course'
<1> DEFINE r == runs[o]
<1>a. IsRun(r) /\ RunInv /\ ChainInv
  BY DEF IInv, RunInv, SignsFor
<1>b. ASSUME NEW status \in {"thrown", "exited", "done"}, Running(o), End(o, status) PROVE Course'
  BY <1>a, <1>b, EndCourse
<1>1. CASE SendDeployment(o)
  <2>0. AtStep(o, "deploy") /\ UNCHANGED db
    BY <1>1 DEF SendDeployment
  <2>1. /\ Running(o) /\ Ready(r) /\ Step(o).op = "deploy" /\ Step(o) = Head(r.script)
        /\ r.alone => History(contracts, db, r)
    BY <2>0, AtStepReady
  <2>2. CASE ConstructorAccepts(Step(o).kind, Step(o).args)
    <3> DEFINE c == Created(Step(o).kind, Step(o).args, r.signer)
               i == Len(contracts) + 1
               run == [r EXCEPT !.instance = i]
    <3>1. contracts' = Append(contracts, c) /\ Proceed(o, run)
      BY <1>1, <2>2 DEF SendDeployment
    <3>0. run = [r EXCEPT !.instance = i] /\ IsRun(r)
      BY <1>a
    <3>3. c.kind = Step(o).kind
      BY DEF Created
    <3> HIDE DEF c, run
    <3>2. /\ IsRun(run) /\ run.request = r.request /\ run.script = r.script
          /\ run.alone = r.alone /\ run.instance = i
          /\ run.implementation = r.implementation /\ run.proxy = r.proxy
      <4> HIDE DEF r, i
      <4> QED BY <3>0, InstanceSet
    <3>4. Quietly(contracts, contracts') /\ i \in DOMAIN contracts' /\ contracts'[i] = c
      BY <1>a, <3>1, AppendsQuietly
    <3> HIDE DEF i, r
    <3>5. ASSUME NEW q, Advanced(r, q), q.instance = run.instance,
                 q.implementation = run.implementation, q.proxy = run.proxy, r.alone
          PROVE  History(contracts', db', q)
      BY <2>0, <2>1, <3>2, <3>3, <3>4, <3>5, HistoryDeploy
    <3> QED BY <1>a, <2>1, <3>1, <3>2, <3>5, ProceedCourse DEF r
  <2>3. CASE ~ConstructorAccepts(Step(o).kind, Step(o).args)
    <3>1. End(o, "thrown")
      BY <1>1, <2>3 DEF SendDeployment
    <3> QED BY <1>b, <2>1, <3>1
  <2> QED BY <2>2, <2>3
<1>2. CASE AwaitDeployment(o)
  <2>0. AtStep(o, "await") /\ UNCHANGED <<contracts, db>>
    BY <1>2 DEF AwaitDeployment
  <2>1. /\ Running(o) /\ Ready(r) /\ Step(o).op = "await" /\ Step(o) = Head(r.script)
        /\ r.alone => History(contracts, db, r)
    BY <2>0, AtStepReady
  <2>2. CASE HasCode(r.instance)
    <3>1. Proceed(o, r) /\ On(contracts, r.instance)
      BY <1>2, <2>2 DEF AwaitDeployment, HasCode, On
    <3> HIDE DEF r
    <3>2. ASSUME NEW q, Advanced(r, q), q.instance = r.instance,
                 q.implementation = r.implementation, q.proxy = r.proxy, r.alone
          PROVE  History(contracts', db', q)
      <4>1. History(contracts, db, q)
        BY <2>1, <3>1, <3>2, HistoryReads
      <4> QED BY <2>0, <4>1
    <3> QED BY <1>a, <2>1, <3>1, <3>2, ProceedCourse DEF r
  <2>3. CASE ~HasCode(r.instance)
    <3>1. End(o, "thrown")
      BY <1>2, <2>3 DEF AwaitDeployment
    <3> QED BY <1>b, <2>1, <3>1
  <2> QED BY <2>2, <2>3
<1>3. CASE Register(o)
  <2>0. AtStep(o, "register") /\ UNCHANGED contracts
    BY <1>3 DEF Register
  <2>1. /\ Running(o) /\ Ready(r) /\ Step(o).op = "register" /\ Step(o) = Head(r.script)
        /\ r.alone => History(contracts, db, r)
    BY <2>0, AtStepReady
  <2>2. Proceed(o, r) /\ db' = [db EXCEPT ![Step(o).key] = r.instance]
    BY <1>3 DEF Register
  <2>3. db = [key \in Keys |-> db[key]]
    BY DEF TypesInv
  <2> HIDE DEF r
  <2>4. ASSUME NEW q, Advanced(r, q), q.instance = r.instance,
               q.implementation = r.implementation, q.proxy = r.proxy, r.alone
        PROVE  History(contracts', db', q)
    <3>1. History(contracts, db', q)
      BY <2>1, <2>2, <2>3, <2>4, HistoryRegister
    <3> QED BY <2>0, <3>1
  <2> QED BY <1>a, <2>1, <2>2, <2>4, ProceedCourse DEF r
<1>4. CASE Verify(o)
  <2>0. AtStep(o, "verify") /\ UNCHANGED <<contracts, db>>
    BY <1>4 DEF Verify
  <2>1. /\ Running(o) /\ Ready(r) /\ Step(o).op = "verify" /\ Step(o) = Head(r.script)
        /\ r.alone => History(contracts, db, r)
    BY <2>0, AtStepReady
  <2>2. CASE Proceed(o, r)
    <3> HIDE DEF r
    <3>1. ASSUME NEW q, Advanced(r, q), q.instance = r.instance,
                 q.implementation = r.implementation, q.proxy = r.proxy, r.alone
          PROVE  History(contracts', db', q)
      <4>1. History(contracts, db, q)
        BY <2>1, <3>1, HistoryReads
      <4> QED BY <2>0, <4>1
    <3> QED BY <1>a, <2>1, <2>2, <3>1, ProceedCourse DEF r
  <2>3. Proceed(o, r) \/ End(o, "thrown")
    BY <1>4 DEF Verify
  <2> QED BY <1>b, <2>1, <2>2, <2>3
<1>5. CASE GetImplementation(o)
  <2>0. AtStep(o, "get implementation") /\ UNCHANGED <<contracts, db>>
    BY <1>5 DEF GetImplementation
  <2>1. /\ Running(o) /\ Ready(r) /\ Step(o).op = "get implementation"
        /\ Step(o) = Head(r.script) /\ (r.alone => History(contracts, db, r))
    BY <2>0, AtStepReady
  <2> DEFINE v == db[Step(o).key]
             run == [r EXCEPT !.implementation = v]
  <2>2. CASE Proceed(o, run)
    <3>0. run = [r EXCEPT !.implementation = v] /\ IsRun(r)
      BY <1>a
    <3> HIDE DEF run, r
    <3>1. /\ IsRun(run) /\ run.request = r.request /\ run.script = r.script
          /\ run.alone = r.alone /\ run.instance = r.instance
          /\ run.implementation = v /\ run.proxy = r.proxy
      BY <3>0, ImplementationSet
    <3>2. ASSUME NEW q, Advanced(r, q), q.instance = run.instance,
                 q.implementation = run.implementation, q.proxy = run.proxy, r.alone
          PROVE  History(contracts', db', q)
      <4>1. History(contracts, db, q)
        BY <2>1, <3>1, <3>2, HistoryReads
      <4> QED BY <2>0, <4>1
    <3> QED BY <1>a, <2>1, <2>2, <3>1, <3>2, ProceedCourse DEF r
  <2>3. Proceed(o, run) \/ End(o, "thrown")
    BY <1>5 DEF GetImplementation
  <2> QED BY <1>b, <2>1, <2>2, <2>3
<1>6. CASE GetStakedLayProxy(o)
  <2>0. AtStep(o, "get proxy") /\ UNCHANGED <<contracts, db>>
    BY <1>6 DEF GetStakedLayProxy
  <2>1. /\ Running(o) /\ Ready(r) /\ Step(o).op = "get proxy" /\ Step(o) = Head(r.script)
        /\ r.alone => History(contracts, db, r)
    BY <2>0, AtStepReady
  <2> DEFINE v == db["StakedLay"]
             run == [r EXCEPT !.proxy = v]
  <2>2. CASE Proceed(o, run)
    <3>0. run = [r EXCEPT !.proxy = v] /\ IsRun(r)
      BY <1>a
    <3> HIDE DEF run, r
    <3>1. /\ IsRun(run) /\ run.request = r.request /\ run.script = r.script
          /\ run.alone = r.alone /\ run.instance = r.instance
          /\ run.implementation = r.implementation /\ run.proxy = v
      BY <3>0, ProxySet
    <3>2. ASSUME NEW q, Advanced(r, q), q.instance = run.instance,
                 q.implementation = run.implementation, q.proxy = run.proxy, r.alone
          PROVE  History(contracts', db', q)
      <4>1. History(contracts, db, q)
        BY <2>1, <3>1, <3>2, HistoryReads
      <4> QED BY <2>0, <4>1
    <3> QED BY <1>a, <2>1, <2>2, <3>1, <3>2, ProceedCourse DEF r
  <2>3. Proceed(o, run) \/ End(o, "thrown")
    BY <1>6 DEF GetStakedLayProxy
  <2> QED BY <1>b, <2>1, <2>2, <2>3
<1>7. CASE SendInitialize(o)
  <2>0. AtStep(o, "initialize") /\ UNCHANGED db
    BY <1>7 DEF SendInitialize
  <2>1. /\ Running(o) /\ Ready(r) /\ Step(o).op = "initialize" /\ Step(o) = Head(r.script)
        /\ r.alone => History(contracts, db, r)
    BY <2>0, AtStepReady
  <2>2. CASE InitializeAccepted(r.proxy, r.implementation)
    <3>1. /\ contracts' = SetUpProxy(r.proxy, r.implementation, Step(o).admin)
          /\ Proceed(o, r)
      BY <1>7, <2>2 DEF SendInitialize
    <3>2. r.proxy \in DOMAIN contracts /\ r.implementation \in DOMAIN contracts
      BY <2>2 DEF InitializeAccepted, IsA, HasCode, InitializerAccepts
    <3> HIDE DEF r
    <3>3. /\ Grown(contracts, contracts')
          /\ contracts'[r.proxy].implementation = r.implementation
          /\ r.implementation # NoAddress /\ contracts'[r.proxy].admin = Step(o).admin
      BY <1>a, <3>1, <3>2, SetUpGrown
    <3>4. ASSUME NEW q, Advanced(r, q), q.instance = r.instance,
                 q.implementation = r.implementation, q.proxy = r.proxy, r.alone
          PROVE  History(contracts', db', q)
      BY <2>0, <2>1, <3>3, <3>4, HistoryCalls
    <3> QED BY <1>a, <2>1, <3>1, <3>4, ProceedCourse DEF r
  <2>3. CASE ~InitializeAccepted(r.proxy, r.implementation)
    <3>0. UNCHANGED contracts
      BY <1>7, <2>3 DEF SendInitialize
    <3>1. CASE InitializeIgnored(r.proxy)
      <4>1. Proceed(o, r)
        BY <1>7, <2>3, <3>1 DEF SendInitialize
      <4>2. ~On(contracts, r.proxy)
        BY <3>1 DEF InitializeIgnored, HasCode, On
      <4>3. Grown(contracts, contracts')
        BY <3>0 DEF Grown
      <4> HIDE DEF r
      <4>4. ASSUME NEW q, Advanced(r, q), q.instance = r.instance,
                   q.implementation = r.implementation, q.proxy = r.proxy, r.alone
            PROVE  History(contracts', db', q)
        <5>1. r.request.task # "common-deployment"
          BY <2>1, <4>2, <4>4, CallKnows
        <5> QED BY <2>0, <2>1, <4>3, <4>4, <5>1, HistoryCalls
      <4> QED BY <1>a, <2>1, <4>1, <4>4, ProceedCourse DEF r
    <3>2. CASE ~InitializeIgnored(r.proxy)
      <4>1. End(o, "thrown")
        BY <1>7, <2>3, <3>2 DEF SendInitialize
      <4> QED BY <1>b, <2>1, <4>1
    <3> QED BY <3>1, <3>2
  <2> QED BY <2>2, <2>3
<1>8. CASE SendUpgrade(o)
  <2>0. AtStep(o, "upgrade") /\ UNCHANGED db
    BY <1>8 DEF SendUpgrade
  <2>1. /\ Running(o) /\ Ready(r) /\ Step(o).op = "upgrade" /\ Step(o) = Head(r.script)
        /\ r.alone => History(contracts, db, r)
    BY <2>0, AtStepReady
  <2>2. CASE UpgradeAccepted(r.proxy, r.implementation, r.signer)
    <3>1. /\ contracts' = SetUpProxy(r.proxy, r.implementation, contracts[r.proxy].admin)
          /\ Proceed(o, r)
      BY <1>8, <2>2 DEF SendUpgrade
    <3>2. r.proxy \in DOMAIN contracts /\ r.implementation \in DOMAIN contracts
      BY <2>2 DEF UpgradeAccepted, IsA, HasCode, InitializerAccepts
    <3> HIDE DEF r
    <3>3. /\ Grown(contracts, contracts')
          /\ contracts'[r.proxy].implementation = r.implementation
          /\ r.implementation # NoAddress
          /\ contracts'[r.proxy].admin = contracts[r.proxy].admin
      BY <1>a, <3>1, <3>2, SetUpGrown
    <3>4. ASSUME NEW q, Advanced(r, q), q.instance = r.instance,
                 q.implementation = r.implementation, q.proxy = r.proxy, r.alone
          PROVE  History(contracts', db', q)
      BY <2>0, <2>1, <3>3, <3>4, HistoryCalls
    <3> QED BY <1>a, <2>1, <3>1, <3>4, ProceedCourse DEF r
  <2>3. CASE ~UpgradeAccepted(r.proxy, r.implementation, r.signer)
    <3>0. UNCHANGED contracts
      BY <1>8, <2>3 DEF SendUpgrade
    <3>1. CASE UpgradeIgnored(r.proxy)
      <4>1. Proceed(o, r)
        BY <1>8, <2>3, <3>1 DEF SendUpgrade
      <4>2. ~On(contracts, r.proxy) \/ contracts[r.proxy].implementation = NoAddress
        BY <3>1 DEF UpgradeIgnored, HasCode, On
      <4>3. Grown(contracts, contracts')
        BY <3>0 DEF Grown
      <4> HIDE DEF r
      <4>4. ASSUME NEW q, Advanced(r, q), q.instance = r.instance,
                   q.implementation = r.implementation, q.proxy = r.proxy, r.alone
            PROVE  History(contracts', db', q)
        <5>1. r.request.task # "common-deployment"
          BY <2>1, <4>2, <4>4, CallKnows
        <5> QED BY <2>0, <2>1, <4>3, <4>4, <5>1, HistoryCalls
      <4> QED BY <1>a, <2>1, <4>1, <4>4, ProceedCourse DEF r
    <3>2. CASE ~UpgradeIgnored(r.proxy)
      <4>1. End(o, "thrown")
        BY <1>8, <2>3, <3>2 DEF SendUpgrade
      <4> QED BY <1>b, <2>1, <4>1
    <3> QED BY <3>1, <3>2
  <2> QED BY <2>2, <2>3
<1>9. CASE Refuse(o)
  <2>1. Running(o) /\ (End(o, "exited") \/ End(o, "thrown"))
    BY <1>9 DEF Refuse, AtStep
  <2> QED BY <2>1, <1>b
<1>10. CASE Finish(o)
  <2>1. Running(o) /\ End(o, "done")
    BY <1>10 DEF Finish
  <2> QED BY <2>1, <1>b
<1> QED
  BY <1>1, <1>2, <1>3, <1>4, <1>5, <1>6, <1>7, <1>8, <1>9, <1>10 DEF Advance

LEMMA SameHistory ==
  ASSUME NEW r, NEW q, q.request = r.request, q.script = r.script, q.instance = r.instance,
         q.implementation = r.implementation, q.proxy = r.proxy
  PROVE  /\ OnScript(r) => OnScript(q)
         /\ \A chain, file : History(chain, file, r) => History(chain, file, q)
<1>1. Taken(q) = Taken(r)
  BY DEF Taken
<1>2. OnScript(r) => OnScript(q)
  BY <1>1 DEF OnScript
<1>3. ASSUME NEW chain, NEW file PROVE History(chain, file, r) => History(chain, file, q)
  BY <1>1 DEF History
<1> QED BY <1>2, <1>3

LEMMA StartCourse ==
  ASSUME RunInv, Course, NEW o \in Operators, NEW request \in Requests, NEW signer,
         Start(o, request, signer)
  PROVE  Course'
<1> SUFFICES ASSUME NEW x \in Operators, runs'[x].status = "running"
             PROVE  /\ runs'[x].request \in Requests /\ OnScript(runs'[x])
                    /\ runs'[x].alone => /\ \A y \in Operators \ {x} : runs'[y].status # "running"
                                         /\ History(contracts', db', runs'[x])
  BY DEF Course, Running, OnScript, History, Taken
<1>1. CASE x = o
  <2>1. /\ runs'[o].request = request /\ runs'[o].script = Script(request)
        /\ runs'[o].alone = \A other \in Operators : ~Running(other)
        /\ \A y \in Operators : y # o => runs'[y].status = runs[y].status
    BY Starts DEF SameButAlone
  <2>2. OnScript(runs'[o]) /\ History(contracts', db', runs'[o])
    BY <2>1, HistoryBegins
  <2> QED BY <1>1, <2>1, <2>2 DEF Running
<1>2. CASE x # o
  <2>0. /\ SameButAlone(runs'[x], runs[x])
        /\ runs'[x].alone = (runs[x].alone /\ ~Running(x))
    BY <1>2, Starts
  <2>1. /\ runs'[x].status = runs[x].status /\ runs'[x].request = runs[x].request
        /\ runs'[x].script = runs[x].script /\ runs'[x].alone = (runs[x].alone /\ ~Running(x))
    BY <2>0 DEF SameButAlone
  <2>2. Running(x) /\ ~runs'[x].alone
    BY <2>1 DEF Running
  <2>3. runs[x].request \in Requests /\ OnScript(runs[x])
    BY <2>2 DEF Course
  <2> QED BY <2>1, <2>2, <2>3 DEF OnScript, Taken
<1> QED BY <1>1, <1>2

LEMMA MineCourse ==
  ASSUME IInv, TypesInv, Course, NEW a \in DOMAIN contracts, Mine(a)
  PROVE  Course'
<1> SUFFICES ASSUME NEW x \in Operators, runs'[x].status = "running"
             PROVE  /\ runs'[x].request \in Requests /\ OnScript(runs'[x])
                    /\ runs'[x].alone => /\ \A y \in Operators \ {x} : runs'[y].status # "running"
                                         /\ History(contracts', db', runs'[x])
  BY DEF Course, Running, OnScript, History, Taken
<1>1. \A y \in Operators :
        /\ runs'[y].status = runs[y].status /\ runs'[y].request = runs[y].request
        /\ runs'[y].script = runs[y].script
        /\ runs'[y].alone = runs[y].alone /\ runs'[y].instance = runs[y].instance
        /\ runs'[y].implementation = runs[y].implementation /\ runs'[y].proxy = runs[y].proxy
  BY MineLeaves DEF IInv
<1>2. Mines /\ UNCHANGED db
  BY DEF Mine, Mines
<1>3. Quietly(contracts, contracts')
  BY <1>2, MinesQuietly DEF IInv
<1>4. Running(x)
  BY <1>1 DEF Running
<1>5. /\ runs[x].request \in Requests /\ OnScript(runs[x]) /\ IsScript(runs[x].script)
      /\ runs[x].alone => /\ \A y \in Operators \ {x} : ~Running(y)
                          /\ History(contracts, db, runs[x])
  BY <1>4 DEF Course, TypesInv, RunTyped
<1>6. runs[x].alone => History(contracts', db, runs[x])
  BY <1>3, <1>5, HistoryGrows
<1>7. /\ OnScript(runs'[x])
      /\ runs[x].alone => History(contracts', db, runs'[x])
  BY <1>1, <1>5, <1>6, SameHistory
<1> QED BY <1>1, <1>2, <1>5, <1>7 DEF Running

LEMMA StepCourse == IInv /\ TypesInv /\ Course /\ [Next]_vars => Course'
<1> SUFFICES ASSUME IInv, TypesInv, Course, [Next]_vars PROVE Course'
  OBVIOUS
<1>1. CASE \E o \in Operators : \E request \in Requests, signer \in Signers :
             Start(o, request, signer)
  BY <1>1, StartCourse DEF IInv
<1>2. CASE \E o \in Operators : Advance(o)
  BY <1>2, AdvanceCourse
<1>3. CASE \E o \in Operators : Interrupt(o)
  <2>1. PICK o \in Operators : Interrupt(o)
    BY <1>3
  <2>2. Running(o) /\ End(o, "interrupted")
    BY <2>1 DEF Interrupt
  <2> QED BY <2>2, EndCourse DEF IInv
<1>4. CASE \E a \in DOMAIN contracts : Mine(a)
  BY <1>4, MineCourse
<1>5. CASE UNCHANGED vars
  BY <1>5 DEF vars, Course, Running, OnScript, History, Taken
<1> QED BY <1>1, <1>2, <1>3, <1>4, <1>5 DEF Next

LEMMA InitCourse == Init => Course
<1>1. NoRun.status = "none"
  BY NoRunIsRun
<1> QED BY <1>1 DEF Init, Course, Running

LEMMA AlwaysOnCourse == Spec => [](IInv /\ TypesInv /\ Course)
BY InitInv, StepInv, InitTypes, StepTypes, InitCourse, StepCourse, PTL DEF Spec

(* What a run has done when nothing of its script is left.                 *)
LEMMA HistoryEnds ==
  ASSUME TypesInv, Course, NEW o \in Operators, Running(o), runs[o].script = <<>>,
         runs[o].alone
  PROVE  LET s == Script(runs[o].request)
             l == Len(s)
         IN  /\ l \in Nat
             /\ \A key, kind : Files(s, key, kind) => IsA(db[key], kind)
             /\ runs[o].request.task = "common-deployment" => SetUp(contracts, db, s, l)
<1> DEFINE r == runs[o]
           s == Script(r.request)
           l == Len(s)
<1>1. /\ r.request \in Requests /\ OnScript(r) /\ IsScript(r.script)
      /\ History(contracts, db, r)
  BY DEF Course, TypesInv, RunTyped
<1>2. Taken(r) = l /\ l \in Nat
  BY <1>1, TakenBound
<1>3. /\ Filed(contracts, db, s, l, r.instance)
      /\ r.request.task = "common-deployment" => SetUp(contracts, db, s, l)
  BY <1>1, <1>2 DEF History
<1> HIDE DEF r, s, l
<1>4. ASSUME NEW key, NEW kind, Files(s, key, kind) PROVE IsA(db[key], kind)
  <2>1. FilesBy(s, l, key, kind)
    BY <1>4 DEF Files, l
  <2>2. On(contracts, db[key]) /\ contracts[db[key]].kind = kind
    BY <1>2, <1>3, <2>1, FiledMeans
  <2> QED BY <2>2 DEF IsA, HasCode, On
<1> QED BY <1>2, <1>3, <1>4 DEF r, s, l

(* The proxy after all of common-deployment.                               *)
LEMMA SetUpEnds ==
  ASSUME NEW s, NEW admin, NEW k, NEW u, Commonly(s, admin, k, u), Len(s) \in Nat,
         NEW chain, NEW file, SetUp(chain, file, s, Len(s))
  PROVE  /\ chain[file["StakedLay"]].implementation = file["StakedTokenV2Rev4"]
         /\ chain[file["StakedLay"]].admin = admin
<1> DEFINE l == Len(s)
<1>1. /\ k \in 3 .. l /\ u \in k + 1 .. l - 1
      /\ s[k].op = "initialize" /\ s[k].admin = admin
      /\ s[l].op = "upgrade" /\ s[l - 2].key = "StakedTokenV2Rev4"
  BY DEF Commonly
<1>2. \A i \in 1 .. l :
        /\ s[i].op = "initialize" => chain[file["StakedLay"]].admin = s[i].admin
        /\ s[i].op = "upgrade" /\ (\A j \in i + 1 .. l : s[j].op \notin Transactions) =>
             chain[file["StakedLay"]].implementation = file[s[i - 2].key]
  BY DEF SetUp, Transactions
<1>3. l \in Nat
  OBVIOUS
<1> HIDE DEF l
<1>4. k \in 1 .. l /\ l \in 1 .. l /\ \A j \in l + 1 .. l : FALSE
  BY <1>1, <1>3
<1> QED BY <1>1, <1>2, <1>4

(* What DoneMeansDeployed promises of a run that ends well.                *)
Deployed(o) ==
    LET task == runs[o].request.task IN
    /\ task \in {"deploy-StakedLay", "dev-deployment", "common-deployment"} =>
         IsA(db["StakedLay"], Proxy) /\ IsA(db["StakedLayImpl"], "StakedLay")
    /\ task \in {"deploy-StakedTokenV2Rev3", "common-deployment"} =>
         IsA(db["StakedTokenV2Rev3"], "StakedTokenV2Rev3")
    /\ task = "deploy-StakedTokenV2Rev4" => IsA(db["StakedTokenV2Rev4"], "StakedTokenV2Rev4")
    /\ task = "common-deployment" =>
         /\ contracts[db["StakedLay"]].implementation = db["StakedTokenV2Rev4"]
         /\ contracts[db["StakedLay"]].admin = GetAdminPerNetwork(Network)

LEMMA FinishDeploys ==
  ASSUME TypesInv, Course, NEW o \in Operators, Finish(o), runs[o].alone
  PROVE  Deployed(o)
<1> DEFINE request == runs[o].request
           s == Script(request)
           p == request.params
<1>1. /\ Len(s) \in Nat
      /\ \A key, kind : Files(s, key, kind) => IsA(db[key], kind)
      /\ request.task = "common-deployment" => SetUp(contracts, db, s, Len(s))
  BY HistoryEnds DEF Finish
<1> HIDE DEF request
<1>2. request.task = "deploy-StakedLay" =>
        IsA(db["StakedLay"], Proxy) /\ IsA(db["StakedLayImpl"], "StakedLay")
  <2>1. request.task = "deploy-StakedLay" => s = DeployStakedLayTask(p)
    BY DEF Script
  <2> HIDE DEF s
  <2> QED BY <1>1, <2>1, DeployStakedLayFiles
<1>3. request.task = "dev-deployment" =>
        IsA(db["StakedLay"], Proxy) /\ IsA(db["StakedLayImpl"], "StakedLay")
  <2>1. request.task = "dev-deployment" => s = DeployStakedLayTask(NoParameters)
    BY DEF Script, DevDeploymentTask
  <2> HIDE DEF s
  <2> QED BY <1>1, <2>1, DeployStakedLayFiles
<1>4. request.task = "deploy-StakedTokenV2Rev3" =>
        IsA(db["StakedTokenV2Rev3"], "StakedTokenV2Rev3")
  <2>1. request.task = "deploy-StakedTokenV2Rev3" => s = DeployStakedTokenV2Rev3Task(p)
    BY DEF Script
  <2> HIDE DEF s
  <2> QED BY <1>1, <2>1, DeployRevisionsFile
<1>5. request.task = "deploy-StakedTokenV2Rev4" =>
        IsA(db["StakedTokenV2Rev4"], "StakedTokenV2Rev4")
  <2>1. request.task = "deploy-StakedTokenV2Rev4" => s = DeployStakedTokenV2Rev4Task(p)
    BY DEF Script
  <2> HIDE DEF s
  <2> QED BY <1>1, <2>1, DeployRevisionsFile
<1>6. ASSUME request.task = "common-deployment"
      PROVE  /\ IsA(db["StakedLay"], Proxy) /\ IsA(db["StakedLayImpl"], "StakedLay")
             /\ IsA(db["StakedTokenV2Rev3"], "StakedTokenV2Rev3")
             /\ contracts[db["StakedLay"]].implementation = db["StakedTokenV2Rev4"]
             /\ contracts[db["StakedLay"]].admin = GetAdminPerNetwork(Network)
  <2>1. /\ \E k, u : Commonly(s, GetAdminPerNetwork(Network), k, u)
        /\ Files(s, "StakedLay", Proxy) /\ Files(s, "StakedLayImpl", "StakedLay")
        /\ Files(s, "StakedTokenV2Rev3", "StakedTokenV2Rev3")
    BY <1>6, CommonRequest
  <2> HIDE DEF s
  <2>2. /\ contracts[db["StakedLay"]].implementation = db["StakedTokenV2Rev4"]
        /\ contracts[db["StakedLay"]].admin = GetAdminPerNetwork(Network)
    BY <1>1, <1>6, <2>1, SetUpEnds
  <2> QED BY <1>1, <2>1, <2>2
<1> QED BY <1>2, <1>3, <1>4, <1>5, <1>6 DEF Deployed, request

(* A run that ends well and that no other run met leaves the file and the  *)
(* chain as its task says, for any operators, networks, parameters and     *)
(* leftovers of the runs before it.                                        *)
THEOREM FinishedIsDeployed == Spec => DoneMeansDeployed
<1>1. IInv /\ TypesInv /\ Course =>
      \A o \in Operators : Finish(o) /\ runs[o].alone => Deployed(o)
  <2> SUFFICES ASSUME TypesInv, Course, NEW o \in Operators, Finish(o), runs[o].alone
               PROVE  Deployed(o)
    OBVIOUS
  <2> QED BY FinishDeploys
<1> QED BY <1>1, AlwaysOnCourse, PTL DEF DoneMeansDeployed, Deployed

----------------------------------------------------------------------------
(* Whether a run that nothing disturbed can fail.  What every run keeps to, *)
(* also one that others met: it knows what it made, it has not been refused, *)
(* and it is disturbed if what it made has failed.  A run that no other met *)
(* moreover finds its proxy as it was made.                                *)
Blank(chain, a) ==
  /\ a \in DOMAIN chain
  /\ chain[a].implementation = NoAddress /\ chain[a].lastInitializedRevision = 0

Untouched(chain, file, s, n, instance) ==
  (\A j \in 1 .. n : s[j].op \notin Transactions) =>
    \A d \in 1 .. n : s[d].op = "deploy" =>
      /\ Blank(chain, instance)
      /\ \A i \in d + 1 .. n : Registers(s[i], "StakedLay") => Blank(chain, file["StakedLay"])

Sound(chain, file, r) ==
  LET s == Script(r.request)
      n == Taken(r)
  IN /\ Made(chain, s, n, r.instance)
     /\ \A i \in 1 .. n : s[i].op \notin {"throw", "exit"}
     /\ r.instance \in DOMAIN chain /\ chain[r.instance].status = "failed" => r.disturbed
     /\ r.alone => Untouched(chain, file, s, n, r.instance)

(* The name of the last revision is of a contract of that revision, on the *)
(* chain or not yet.                                                       *)
Rev4Named(chain, file) ==
  LET a == file["StakedTokenV2Rev4"] IN
  a # NoAddress => a \in DOMAIN chain /\ chain[a].kind = "StakedTokenV2Rev4"

Recoverable ==
  /\ Rev4Named(contracts, db)
  /\ \A o \in Operators : Running(o) => Sound(contracts, db, runs[o])

(* The scripts again: a step that others or the network do not make fail,  *)
(* does not fail; of those that wait for a creation, something was made    *)
(* before; and nothing is to be verified unless it was asked for.          *)
Accepted(s, verify) ==
  /\ IsSequence(s)
  /\ \A i \in 1 .. Len(s) :
       /\ s[i].op # "throw"
       /\ s[i].op = "verify" => verify
       /\ s[i].op = "deploy" => ConstructorAccepts(s[i].kind, s[i].args)
       /\ s[i].op = "await" => \E d \in 1 .. i : LastDeploy(s, d, i)

Troubles == {"throw", "verify", "deploy", "await"}

LEMMA AcceptedInBoth ==
  ASSUME NEW verify, NEW s, Accepted(s, verify), NEW t, Accepted(t, verify)
  PROVE  Accepted(s \o t, verify)
<1> DEFINE u == s \o t
           m == Len(s)
           n == Len(t)
           l == Len(u)
           good(x, i) == /\ x[i].op # "throw"
                         /\ x[i].op = "verify" => verify
                         /\ x[i].op = "deploy" => ConstructorAccepts(x[i].kind, x[i].args)
           made(x, i) == x[i].op = "await" => \E d \in 1 .. i : LastDeploy(x, d, i)
<1>1. Followed(s, t, u)
  BY ConcatFollows DEF Accepted
<1>2. /\ m \in Nat /\ n \in Nat /\ l = m + n /\ IsSequence(u)
      /\ \A i \in 1 .. m : u[i] = s[i]
      /\ \A i \in 1 .. n : u[m + i] = t[i]
      /\ \A i \in m + 1 .. l : i - m \in 1 .. n /\ u[i] = t[i - m]
  BY <1>1 DEF Followed
<1>3. /\ \A i \in 1 .. m : good(s, i) /\ made(s, i)
      /\ \A i \in 1 .. n : good(t, i) /\ made(t, i)
  BY DEF Accepted
<1> HIDE DEF u, m, n, l
<1>4. ASSUME NEW i \in 1 .. l PROVE good(u, i) /\ made(u, i)
  <2>1. CASE i \in 1 .. m
    <3>1. u[i] = s[i] /\ good(s, i) /\ made(s, i) /\ \A d \in 1 .. i : d \in 1 .. m
      BY <1>2, <1>3, <2>1
    <3>2. \A d \in 1 .. i : LastDeploy(s, d, i) => LastDeploy(u, d, i)
      BY <1>1, <2>1, <3>1, LastDeployBefore DEF m
    <3> QED BY <3>1, <3>2
  <2>2. CASE i \in m + 1 .. l
    <3>1. /\ i - m \in 1 .. n /\ u[i] = t[i - m]
          /\ \A d \in 1 .. (i - m) : d \in 1 .. n /\ m + d \in 1 .. i
      BY <1>2, <2>2
    <3>2. good(t, i - m) /\ made(t, i - m)
      BY <1>3, <3>1
    <3>3. ASSUME u[i].op = "await" PROVE \E d \in 1 .. i : LastDeploy(u, d, i)
      <4>1. PICK d \in 1 .. (i - m) : LastDeploy(t, d, i - m)
        BY <3>1, <3>2, <3>3
      <4>2. m + d \in 1 .. i /\ d \in 1 .. n /\ m + (i - m) = i
        BY <1>2, <3>1
      <4>3. LastDeploy(u, m + d, m + (i - m))
        BY <1>1, <3>1, <4>1, <4>2, LastDeployAfter DEF m, n
      <4> QED BY <4>2, <4>3
    <3> QED BY <3>1, <3>2, <3>3
  <2>3. i \in 1 .. m \/ i \in m + 1 .. l
    BY <1>2
  <2> QED BY <2>1, <2>2, <2>3
<1> QED BY <1>2, <1>4 DEF Accepted, u, l

LEMMA AcceptedPlain ==
  ASSUME NEW s, Without(s, Troubles), NEW verify
  PROVE  Accepted(s, verify)
BY DEF Accepted, Without, Troubles

LEMMA AwaitStep == IsSequence(Await) /\ Len(Await) = 1 /\ Await[1].op = "await"
<1> DEFINE step == [op |-> "await"]
<1>1. /\ Len(<<step>>) = 1 /\ <<step>>[1] = step /\ step.op = "await"
  OBVIOUS
<1>2. Await = <<step>> /\ IsSequence(Await)
  BY Pieces DEF Await, IsScript
<1> HIDE DEF step
<1> QED BY <1>1, <1>2

LEMMA AcceptedWaiting ==
  ASSUME NEW verify, NEW s, Accepted(s, verify), NEW kind, Makes(s, kind)
  PROVE  Accepted(s \o Await, verify)
<1> DEFINE t == Await
           u == s \o t
           m == Len(s)
           made(x, i) == x[i].op = "await" => \E d \in 1 .. i : LastDeploy(x, d, i)
<1>1. Followed(s, t, u)
  BY AwaitStep, ConcatFollows DEF Accepted
<1>2. Len(t) = 1 /\ t[1].op = "await" /\ Without(t, {"deploy"})
  BY AwaitStep, UnchangingPieces, Inert
<1>3. PICK d \in 1 .. m : LastDeploy(s, d, m)
  BY DEF Makes
<1>4. LastDeploy(u, d, Len(u))
  BY <1>1, <1>2, <1>3, LastDeployKept
<1> HIDE DEF u, t
<1>5. /\ m \in Nat /\ Len(u) = m + 1 /\ IsSequence(u) /\ u[m + 1] = t[1]
      /\ \A i \in 1 .. m : u[i] = s[i]
  BY <1>1, <1>2 DEF Followed
<1>6. \A i \in 1 .. m :
        /\ s[i].op # "throw" /\ (s[i].op = "verify" => verify)
        /\ s[i].op = "deploy" => ConstructorAccepts(s[i].kind, s[i].args)
        /\ made(s, i)
  BY DEF Accepted
<1>7. \A i \in 1 .. m : \A x \in 1 .. i : LastDeploy(s, x, i) => LastDeploy(u, x, i)
  BY <1>1, LastDeployBefore
<1> HIDE DEF m
<1>8. \A i \in 1 .. m + 1 : i \in 1 .. m \/ i = m + 1
  BY <1>5
<1>9. d \in 1 .. m + 1
  BY <1>5
<1>10. ASSUME NEW i \in 1 .. m + 1
       PROVE  /\ u[i].op # "throw" /\ (u[i].op = "verify" => verify)
              /\ u[i].op = "deploy" => ConstructorAccepts(u[i].kind, u[i].args)
              /\ made(u, i)
  <2>1. CASE i \in 1 .. m
    BY <1>5, <1>6, <1>7, <2>1
  <2>2. CASE i = m + 1
    BY <1>2, <1>4, <1>5, <1>9, <2>2
  <2> QED BY <1>8, <2>1, <2>2
<1> QED BY <1>5, <1>10 DEF Accepted, u, t

LEMMA WithoutStep ==
  ASSUME NEW step, WellTyped(step), NEW ops, step.op \notin ops
  PROVE  Without(<<step>>, ops)
<1> DEFINE s == <<step>>
<1>1. Len(s) = 1 /\ s[1] = step
  OBVIOUS
<1>2. IsSequence(s)
  BY ScriptOfOne DEF IsScript
<1> HIDE DEF s
<1>3. Without(s, ops)
  BY <1>1, <1>2, WithoutOne
<1> QED BY <1>3 DEF s

LEMMA PlainPieces ==
  /\ Without(Check(TRUE), Troubles)
  /\ \A p : Without(CheckVerification(p), Troubles)
  /\ \A key \in Keys : Without(RegisterContractInJsonDb(key), Troubles)
<1>1. Without(<<>>, Troubles)
  <2>1. IsSequence(<<>>)
    BY EmptyScript DEF IsScript
  <2>2. Len(<<>>) = 0
    OBVIOUS
  <2> QED BY <2>1, <2>2, WithoutOne
<1>2. Without(<<[op |-> "exit"]>>, Troubles)
  <2> DEFINE step == [op |-> "exit"]
  <2>1. WellTyped(step) /\ step.op \notin Troubles
    BY DEF WellTyped, Troubles
  <2> HIDE DEF step
  <2>2. Without(<<step>>, Troubles)
    BY <2>1, WithoutStep
  <2> QED BY <2>2 DEF step
<1>3. \A key \in Keys : Without(RegisterContractInJsonDb(key), Troubles)
  BY RegisterWithout DEF Troubles
<1> QED BY <1>1, <1>2, <1>3 DEF Check, CheckVerification

LEMMA AcceptedVerification ==
  ASSUME NEW asked, NEW verify, asked => verify
  PROVE  Accepted(VerifyContract(asked), verify)
<1> DEFINE step == [op |-> "verify"]
           s == <<step>>
<1>1. Accepted(<<>>, verify)
  <2>1. Without(<<>>, Troubles)
    BY PlainPieces DEF Check
  <2> QED BY <2>1, AcceptedPlain
<1>2. ASSUME asked PROVE Accepted(s, verify)
  <2>1. Len(s) = 1 /\ s[1] = step /\ step.op = "verify"
    OBVIOUS
  <2>2. WellTyped(step)
    BY DEF WellTyped
  <2>3. IsSequence(s)
    BY <2>2, ScriptOfOne DEF IsScript
  <2> HIDE DEF s, step
  <2>4. \A i \in 1 .. 1 : i = 1
    OBVIOUS
  <2> QED BY <1>2, <2>1, <2>3, <2>4 DEF Accepted
<1> QED BY <1>1, <1>2 DEF VerifyContract

LEMMA AcceptedDeployment ==
  ASSUME NEW kind \in Implementations \union {Proxy}, NEW args, ConstructorAccepts(kind, args),
         NEW verify
  PROVE  Accepted(DeployContract(kind, args), verify)
<1> DEFINE step == [op |-> "deploy", kind |-> kind, args |-> args]
           a == <<step>>
           b == RegisterContractInJsonDb(kind)
<1>1. Len(a) = 1 /\ a[1] = step /\ step.op = "deploy" /\ step.kind = kind /\ step.args = args
  OBVIOUS
<1>2. IsSequence(a)
  <2>1. WellTyped(step)
    BY DEF WellTyped
  <2> QED BY <2>1, ScriptOfOne DEF IsScript
<1>3. DeployContract(kind, args) = a \o b /\ kind \in Keys
  BY Names DEF DeployContract
<1>4. Accepted(b, verify)
  BY <1>3, PlainPieces, AcceptedPlain
<1> HIDE DEF a, b, step
<1>5. Accepted(a, verify)
  <2>1. \A i \in 1 .. 1 : i = 1
    OBVIOUS
  <2> QED BY <1>1, <1>2, <2>1 DEF Accepted
<1> QED BY <1>3, <1>4, <1>5, AcceptedInBoth

(* What a network has to be configured for, for its deployment to succeed. *)
Configured ==
  /\ Network # "hardhat" /\ HasChainId(Network)
  /\ \A address \in {GetTokenPerNetwork(Network), GetIncentivesVaultPerNetwork(Network),
                     GetAdminPerNetwork(Network)} : NotFalsyOrZeroAddress(address)
  /\ \A request \in Requests : request.task = "common-deployment" =>
       ZERO_ADDRESS \notin {request.params.tokenAddress, request.params.vaultAddress}

LEMMA DeployStakedLayAccepted ==
  ASSUME HasChainId(Network), NEW p, NEW verify, p.verify => verify,
         \A address \in {Default(p.tokenAddress, GetTokenPerNetwork(Network)),
                         Default(p.vaultAddress, GetIncentivesVaultPerNetwork(Network))} :
           address # ZERO_ADDRESS
  PROVE  Accepted(DeployStakedLayTask(p), verify)
<1> DEFINE token == Default(p.tokenAddress, GetTokenPerNetwork(Network))
           vault == Default(p.vaultAddress, GetIncentivesVaultPerNetwork(Network))
           args == Arguments(token, vault, "emissionManager")
           a == CheckVerification(p)
           b == Check(HasChainId(Network))
           d == DeployStakedLay(args, FALSE)
           i == RegisterContractInJsonDb("StakedLayImpl")
           x == DeployInitializableAdminUpgradeabilityProxy(p.verify)
           r == RegisterContractInJsonDb("StakedLay")
<1>1. DeployStakedLayTask(p) = a \o b \o d \o Await \o i \o x \o r
  BY DEF DeployStakedLayTask
<1>2. Accepted(a, verify) /\ Accepted(b, verify) /\ Accepted(i, verify) /\ Accepted(r, verify)
  <2>1. b = Check(TRUE) /\ {"StakedLayImpl", "StakedLay"} \subseteq Keys
    BY Names DEF HasChainId
  <2> QED BY <2>1, PlainPieces, AcceptedPlain
<1>3. Accepted(d, verify) /\ Makes(d, "StakedLay")
  <2> DEFINE e == DeployContract("StakedLay", args)
             v == VerifyContract(FALSE)
  <2>1. ConstructorAccepts("StakedLay", args)
    <3>1. args.STAKED_TOKEN = token /\ args.REWARDS_VAULT = vault
          /\ args.EMISSION_MANAGER = "emissionManager"
      BY DEF Arguments
    <3>2. token # ZERO_ADDRESS /\ vault # ZERO_ADDRESS /\ "emissionManager" # ZERO_ADDRESS
      BY DEF ZERO_ADDRESS
    <3> HIDE DEF args, token, vault
    <3> QED BY <3>1, <3>2 DEF ConstructorAccepts
  <2>2. Accepted(e, verify) /\ Makes(e, "StakedLay")
    BY <2>1, AcceptedDeployment, Deploys, Names
  <2>3. Accepted(v, verify) /\ Without(v, {"deploy"})
    <3>1. Without(v, Changes)
      BY UnchangingPieces
    <3> QED BY <3>1, Inert, AcceptedVerification
  <2>4. Accepted(e \o v, verify) /\ Makes(e \o v, "StakedLay")
    BY <2>2, <2>3, AcceptedInBoth, MakesStill
  <2> QED BY <2>4 DEF DeployStakedLay
<1>4. Accepted(x, verify)
  <2> DEFINE e == DeployContract(Proxy, NoArguments)
             v == VerifyContract(p.verify)
  <2>1. ConstructorAccepts(Proxy, NoArguments)
    BY DEF ConstructorAccepts, Proxy
  <2>2. Accepted(e, verify) /\ Makes(e, Proxy)
    BY <2>1, AcceptedDeployment, Deploys, Names
  <2>3. Accepted(v, verify)
    BY AcceptedVerification
  <2>4. Accepted(e \o Await, verify)
    BY <2>2, AcceptedWaiting
  <2>5. Accepted(e \o Await \o v, verify)
    BY <2>3, <2>4, AcceptedInBoth
  <2> QED BY <2>5 DEF DeployInitializableAdminUpgradeabilityProxy
<1> HIDE DEF a, b, d, i, x, r
<1>5. Accepted(a \o b, verify)
  BY <1>2, AcceptedInBoth
<1>6. Accepted(a \o b \o d, verify) /\ Makes(a \o b \o d, "StakedLay")
  <2>1. Accepted(a \o b \o d, verify)
    BY <1>3, <1>5, AcceptedInBoth
  <2>2. Makes(a \o b \o d, "StakedLay")
    BY <1>3, <1>5, MakesLater DEF Accepted
  <2> QED BY <2>1, <2>2
<1>7. Accepted(a \o b \o d \o Await, verify)
  BY <1>6, AcceptedWaiting
<1>8. Accepted(a \o b \o d \o Await \o i, verify)
  BY <1>2, <1>7, AcceptedInBoth
<1>9. Accepted(a \o b \o d \o Await \o i \o x, verify)
  BY <1>4, <1>8, AcceptedInBoth
<1>10. Accepted(a \o b \o d \o Await \o i \o x \o r, verify)
  BY <1>2, <1>9, AcceptedInBoth
<1> QED BY <1>1, <1>10

LEMMA DeployRevision3Accepted ==
  ASSUME Configured, NEW verify
  PROVE  Accepted(DeployStakedTokenV2Rev3Task(NoParameters), verify)
<1> DEFINE p == NoParameters
           token == Default(p.tokenAddress, GetTokenPerNetwork(Network))
           vault == Default(p.vaultAddress, GetIncentivesVaultPerNetwork(Network))
           em == Default(p.emissionManager, GetAdminPerNetwork(Network))
           args == Arguments(token, vault, em)
           valid == \A address \in {token, vault, em} : NotFalsyOrZeroAddress(address)
           a == CheckVerification(p)
           b == Check(HasChainId(Network))
           c == Check(valid)
           e == DeployContract("StakedTokenV2Rev3", args)
           v == VerifyContract(p.verify)
           r == RegisterContractInJsonDb("StakedTokenV2Rev3")
<1>1. DeployStakedTokenV2Rev3Task(p) = a \o b \o c \o (e \o v) \o Await \o r
  BY DEF DeployStakedTokenV2Rev3Task, DeployStakedTokenV2Revision3
<1>2. valid /\ p.verify = FALSE
  BY DEF Configured, Default, NoParameters
<1>3. ConstructorAccepts("StakedTokenV2Rev3", args)
  BY DEF ConstructorAccepts
<1>4. Accepted(e, verify) /\ Makes(e, "StakedTokenV2Rev3")
  BY <1>3, AcceptedDeployment, Deploys, Names
<1>5. b = Check(TRUE) /\ c = Check(TRUE)
  BY <1>2 DEF Configured, HasChainId
<1>6. /\ Accepted(a, verify) /\ Accepted(b, verify) /\ Accepted(c, verify)
      /\ Accepted(r, verify) /\ Accepted(v, verify)
  BY <1>2, <1>5, PlainPieces, AcceptedPlain, AcceptedVerification, Names
<1>7. Without(v, {"deploy"})
  BY UnchangingPieces, Inert
<1> HIDE DEF a, b, c, e, v, r, p
<1>8. Accepted(a \o b \o c, verify)
  BY <1>6, AcceptedInBoth
<1>9. Accepted(e \o v, verify) /\ Makes(e \o v, "StakedTokenV2Rev3")
  BY <1>4, <1>6, <1>7, AcceptedInBoth, MakesStill
<1>10. Accepted(a \o b \o c \o (e \o v), verify) /\ Makes(a \o b \o c \o (e \o v), "StakedTokenV2Rev3")
  <2>1. Accepted(a \o b \o c \o (e \o v), verify)
    BY <1>8, <1>9, AcceptedInBoth
  <2>2. Makes(a \o b \o c \o (e \o v), "StakedTokenV2Rev3")
    BY <1>8, <1>9, MakesLater DEF Accepted
  <2> QED BY <2>1, <2>2
<1>11. Accepted(a \o b \o c \o (e \o v) \o Await, verify)
  BY <1>10, AcceptedWaiting
<1>12. Accepted(a \o b \o c \o (e \o v) \o Await \o r, verify)
  BY <1>6, <1>11, AcceptedInBoth
<1> QED BY <1>1, <1>12 DEF p

LEMMA UpToThree == \A i \in 1 .. 3 : i = 1 \/ i = 2 \/ i = 3
OBVIOUS

LEMMA CallAccepted ==
  ASSUME NEW a, NEW b, NEW c, NEW verify,
         a.op = "get implementation", b.op = "get proxy", c.op \in {"initialize", "upgrade"}
  PROVE  Accepted(<<a, b, c>>, verify)
<1> DEFINE t == <<a, b, c>>
<1>1. IsSequence(t) /\ Len(t) = 3 /\ t[1] = a /\ t[2] = b /\ t[3] = c
  BY SequenceOfThree
<1> HIDE DEF t
<1>2. \A i \in 1 .. Len(t) : t[i].op \notin Troubles
  BY <1>1, UpToThree DEF Troubles
<1>3. Accepted(t, verify)
  BY <1>1, <1>2, AcceptedPlain DEF Without
<1> QED BY <1>3 DEF t

LEMMA InitializeTasksAccepted ==
  ASSUME Configured, NEW verify
  PROVE  /\ Accepted(InitializeStakedLayTask(GetAdminPerNetwork(Network)), verify)
         /\ Accepted(InitializeStakedTokenV2Rev3Task, verify)
         /\ Accepted(InitializeStakedTokenV2Rev4Task, verify)
<1> DEFINE admin == GetAdminPerNetwork(Network)
           get(key) == [op |-> "get implementation", key |-> key]
           proxy == [op |-> "get proxy"]
           init == [op |-> "initialize", admin |-> admin]
           upgrade == [op |-> "upgrade"]
           b == Check(HasChainId(Network))
           a == Check(admin # NotGiven)
<1>1. a = Check(TRUE) /\ b = Check(TRUE)
  BY DEF Configured, HasChainId, NotFalsyOrZeroAddress
<1>2. Accepted(a, verify) /\ Accepted(b, verify)
  BY <1>1, PlainPieces, AcceptedPlain
<1>3. /\ \A key : get(key).op = "get implementation"
      /\ proxy.op = "get proxy" /\ upgrade.op = "upgrade" /\ init.op = "initialize"
  OBVIOUS
<1>4. /\ InitializeStakedLayTask(admin) = a \o b \o <<get("StakedLayImpl"), proxy, init>>
      /\ InitializeStakedTokenV2Rev3Task = b \o <<get("StakedTokenV2Rev3"), proxy, upgrade>>
      /\ InitializeStakedTokenV2Rev4Task = b \o <<get("StakedTokenV2Rev4"), proxy, upgrade>>
  BY DEF InitializeStakedLayTask, InitializeStakedTokenV2Rev3Task,
         InitializeStakedTokenV2Rev4Task
<1> HIDE DEF get, proxy, init, upgrade, a, b
<1>5. Accepted(a \o b, verify)
  BY <1>2, AcceptedInBoth
<1>6. \A key : /\ Accepted(<<get(key), proxy, init>>, verify)
               /\ Accepted(<<get(key), proxy, upgrade>>, verify)
  BY <1>3, CallAccepted
<1>7. Accepted(a \o b \o <<get("StakedLayImpl"), proxy, init>>, verify)
  BY <1>5, <1>6, AcceptedInBoth
<1>8. \A key : Accepted(b \o <<get(key), proxy, upgrade>>, verify)
  BY <1>2, <1>6, AcceptedInBoth
<1> QED BY <1>4, <1>7, <1>8

(* The first step of a script. *)
Opens(s, op) == IsSequence(s) /\ 1 \in 1 .. Len(s) /\ s[1].op = op

LEMMA OpensStill ==
  ASSUME NEW op, NEW s, Opens(s, op), NEW t, IsSequence(t)
  PROVE  Opens(s \o t, op)
<1> DEFINE u == s \o t
<1>1. Followed(s, t, u)
  BY ConcatFollows DEF Opens
<1> HIDE DEF u
<1>2. /\ Len(s) \in Nat /\ Len(t) \in Nat /\ Len(u) = Len(s) + Len(t) /\ IsSequence(u)
      /\ 1 \in 1 .. Len(s) /\ s[1].op = op /\ \A i \in 1 .. Len(s) : u[i] = s[i]
  BY <1>1 DEF Followed, Opens
<1>3. 1 \in 1 .. Len(u) /\ u[1] = s[1]
  BY <1>2
<1>4. Opens(u, op)
  BY <1>2, <1>3 DEF Opens
<1> QED BY <1>4 DEF u

LEMMA OpensNext ==
  ASSUME NEW op, NEW t, Opens(t, op)
  PROVE  Opens(<<>> \o t, op)
<1> DEFINE e == <<>>
           u == e \o t
<1>0. IsSequence(e) /\ Len(e) = 0
  BY EmptyScript DEF IsScript
<1>1. Followed(e, t, u)
  BY <1>0, ConcatFollows DEF Opens
<1> HIDE DEF u, e
<1>2. /\ Len(t) \in Nat /\ Len(u) = 0 + Len(t) /\ IsSequence(u)
      /\ 1 \in 1 .. Len(t) /\ t[1].op = op /\ \A i \in 1 .. Len(t) : u[0 + i] = t[i]
  BY <1>0, <1>1 DEF Followed, Opens
<1>3. 1 \in 1 .. Len(u) /\ u[1] = t[1]
  <2>1. u[0 + 1] = t[1] /\ 0 + 1 = 1
    BY <1>2
  <2> QED BY <1>2, <2>1
<1>4. Opens(u, op)
  BY <1>2, <1>3 DEF Opens
<1> QED BY <1>4 DEF u, e

LEMMA CommonAccepted ==
  ASSUME Configured, NEW request \in Requests, request.task = "common-deployment"
  PROVE  LET p == request.params IN
         /\ Accepted(Script(request), p.verify)
         /\ p.verify /\ ~p.ETHERSCAN_KEY => Opens(Script(request), "exit")
<1> DEFINE p == request.params
           admin == GetAdminPerNetwork(Network)
           a == Check(admin # NotGiven)
           c == CheckVerification(p)
           deploy == DeployStakedLayTask(p)
           init == InitializeStakedLayTask(admin)
           rev3 == DeployStakedTokenV2Rev3Task(NoParameters)
           up3 == InitializeStakedTokenV2Rev3Task
           up4 == InitializeStakedTokenV2Rev4Task
           v == p.verify
<1>1. Script(request) = a \o c \o deploy \o init \o rev3 \o up3 \o up4
  BY DEF Script, CommonDeploymentTask
<1>2. a = Check(TRUE) /\ HasChainId(Network)
  BY DEF Configured, NotFalsyOrZeroAddress
<1>3. Accepted(a, v) /\ Accepted(c, v)
  BY <1>2, PlainPieces, AcceptedPlain
<1>4. Accepted(deploy, v)
  <2>1. \A address \in {Default(p.tokenAddress, GetTokenPerNetwork(Network)),
                        Default(p.vaultAddress, GetIncentivesVaultPerNetwork(Network))} :
          address # ZERO_ADDRESS
    BY DEF Configured, Default, NotFalsyOrZeroAddress
  <2> QED BY <1>2, <2>1, DeployStakedLayAccepted
<1>5. Accepted(init, v) /\ Accepted(rev3, v) /\ Accepted(up3, v) /\ Accepted(up4, v)
  BY InitializeTasksAccepted, DeployRevision3Accepted
<1>6. p.verify /\ ~p.ETHERSCAN_KEY => Opens(c, "exit")
  <2> DEFINE step == [op |-> "exit"]
             s == <<step>>
  <2>1. p.verify /\ ~p.ETHERSCAN_KEY => c = s
    BY DEF CheckVerification
  <2>2. Len(s) = 1 /\ s[1] = step /\ step.op = "exit"
    OBVIOUS
  <2>3. WellTyped(step)
    BY DEF WellTyped
  <2>4. IsSequence(s)
    BY <2>3, ScriptOfOne DEF IsScript
  <2> HIDE DEF s, step
  <2> QED BY <2>1, <2>2, <2>4 DEF Opens
<1>7. a = <<>>
  BY <1>2 DEF Check
<1> HIDE DEF a, c, deploy, init, rev3, up3, up4, v
<1>8. Accepted(a \o c, v)
  BY <1>3, AcceptedInBoth
<1>9. Accepted(a \o c \o deploy, v)
  BY <1>4, <1>8, AcceptedInBoth
<1>10. Accepted(a \o c \o deploy \o init, v)
  BY <1>5, <1>9, AcceptedInBoth
<1>11. Accepted(a \o c \o deploy \o init \o rev3, v)
  BY <1>5, <1>10, AcceptedInBoth
<1>12. Accepted(a \o c \o deploy \o init \o rev3 \o up3, v)
  BY <1>5, <1>11, AcceptedInBoth
<1>13. Accepted(a \o c \o deploy \o init \o rev3 \o up3 \o up4, v)
  BY <1>5, <1>12, AcceptedInBoth
<1>14. ASSUME p.verify, ~p.ETHERSCAN_KEY
       PROVE  Opens(a \o c \o deploy \o init \o rev3 \o up3 \o up4, "exit")
  <2>1. Opens(a \o c, "exit")
    BY <1>6, <1>7, <1>14, OpensNext
  <2>2. /\ IsSequence(deploy) /\ IsSequence(init) /\ IsSequence(rev3)
        /\ IsSequence(up3) /\ IsSequence(up4)
    BY <1>4, <1>5 DEF Accepted
  <2>3. Opens(a \o c \o deploy, "exit")
    BY <2>1, <2>2, OpensStill
  <2>4. Opens(a \o c \o deploy \o init, "exit")
    BY <2>2, <2>3, OpensStill
  <2>5. Opens(a \o c \o deploy \o init \o rev3, "exit")
    BY <2>2, <2>4, OpensStill
  <2>6. Opens(a \o c \o deploy \o init \o rev3 \o up3, "exit")
    BY <2>2, <2>5, OpensStill
  <2> QED BY <2>2, <2>6, OpensStill
<1> QED BY <1>1, <1>13, <1>14 DEF v

(* Only a contract of the last revision is registered under its name.      *)
NamesRightly(s) ==
  /\ IsSequence(s)
  /\ \A i \in 1 .. Len(s) : Registers(s[i], "StakedTokenV2Rev4") =>
       \E d \in 1 .. i : LastDeploy(s, d, i) /\ s[d].kind = "StakedTokenV2Rev4"

LEMMA NamedInBoth ==
  ASSUME NEW s, NamesRightly(s), NEW t, NamesRightly(t)
  PROVE  NamesRightly(s \o t)
<1> DEFINE u == s \o t
           m == Len(s)
           n == Len(t)
           l == Len(u)
           key == "StakedTokenV2Rev4"
<1>1. Followed(s, t, u)
  BY ConcatFollows DEF NamesRightly
<1>2. /\ m \in Nat /\ n \in Nat /\ l = m + n /\ IsSequence(u)
      /\ \A i \in 1 .. m : u[i] = s[i]
      /\ \A i \in 1 .. n : u[m + i] = t[i]
      /\ \A i \in m + 1 .. l : i - m \in 1 .. n /\ u[i] = t[i - m]
  BY <1>1 DEF Followed
<1> HIDE DEF u
<1>3. ASSUME NEW i \in 1 .. l, Registers(u[i], key)
      PROVE  \E d \in 1 .. i : LastDeploy(u, d, i) /\ u[d].kind = key
  <2>1. CASE i \in 1 .. m
    <3>1. u[i] = s[i]
      BY <1>2, <2>1
    <3>2. PICK d \in 1 .. i : LastDeploy(s, d, i) /\ s[d].kind = key
      BY <1>3, <2>1, <3>1 DEF NamesRightly
    <3>3. d \in 1 .. m
      BY <1>2, <2>1
    <3>4. LastDeploy(u, d, i)
      BY <1>1, <2>1, <3>2, <3>3, LastDeployBefore
    <3> QED BY <1>2, <3>2, <3>3, <3>4
  <2>2. CASE i \in m + 1 .. l
    <3> DEFINE j == i - m
    <3>1. u[i] = t[j] /\ j \in 1 .. n /\ i = m + j
      BY <1>2, <2>2
    <3> HIDE DEF j
    <3>2. PICK d \in 1 .. j : LastDeploy(t, d, j) /\ t[d].kind = key
      BY <1>3, <3>1 DEF NamesRightly
    <3>3. d \in 1 .. n /\ m + d \in 1 .. i
      <4>1. m \in Nat /\ n \in Nat /\ j \in 1 .. n /\ i = m + j /\ d \in 1 .. j
        BY <1>2, <3>1
      <4> QED BY <4>1
    <3>4. LastDeploy(u, m + d, i)
      BY <1>1, <3>1, <3>2, <3>3, LastDeployAfter
    <3>5. u[m + d].kind = key
      BY <1>2, <3>2, <3>3
    <3> QED BY <3>3, <3>4, <3>5
  <2>3. i \in 1 .. m \/ i \in m + 1 .. l
    BY <1>2
  <2> QED BY <2>1, <2>2, <2>3
<1>4. NamesRightly(u)
  BY <1>2, <1>3 DEF NamesRightly
<1> QED BY <1>4 DEF u

LEMMA NamedElsewhere ==
  ASSUME NEW s, Leaves(s, "StakedTokenV2Rev4")
  PROVE  NamesRightly(s)
BY DEF Leaves, NamesRightly

LEMMA NamedNow ==
  ASSUME NEW s, NamesRightly(s), Makes(s, "StakedTokenV2Rev4")
  PROVE  NamesRightly(s \o RegisterContractInJsonDb("StakedTokenV2Rev4"))
<1> DEFINE key == "StakedTokenV2Rev4"
           t == RegisterContractInJsonDb(key)
           u == s \o t
           m == Len(s)
<1>1. IsSequence(t) /\ Len(t) = 1 /\ Registers(t[1], key)
  BY RegisterStep, Names
<1>2. Without(t, {"deploy"})
  BY RegisterWithout, Names
<1>3. Followed(s, t, u)
  BY <1>1, ConcatFollows DEF NamesRightly
<1>4. PICK d \in 1 .. m : LastDeploy(s, d, m) /\ s[d].kind = key
  BY DEF Makes
<1> HIDE DEF u, t
<1>5. /\ m \in Nat /\ Len(u) = m + 1 /\ IsSequence(u) /\ \A i \in 1 .. m : u[i] = s[i]
  BY <1>1, <1>3 DEF Followed
<1>6. LastDeploy(u, d, m + 1)
  BY <1>2, <1>3, <1>4, <1>5, LastDeployKept
<1>7. ASSUME NEW i \in 1 .. m + 1, Registers(u[i], key)
      PROVE  \E x \in 1 .. i : LastDeploy(u, x, i) /\ u[x].kind = key
  <2>1. CASE i \in 1 .. m
    <3>1. u[i] = s[i]
      BY <1>5, <2>1
    <3>2. PICK x \in 1 .. i : LastDeploy(s, x, i) /\ s[x].kind = key
      BY <1>7, <2>1, <3>1 DEF NamesRightly
    <3>3. x \in 1 .. m
      BY <1>5, <2>1
    <3>4. LastDeploy(u, x, i)
      BY <1>3, <2>1, <3>2, <3>3, LastDeployBefore
    <3> QED BY <1>5, <3>2, <3>3, <3>4
  <2>2. CASE i = m + 1
    <3>1. d \in 1 .. m + 1 /\ u[d] = s[d]
      BY <1>4, <1>5
    <3> QED BY <1>4, <1>6, <2>2, <3>1
  <2>3. i \in 1 .. m \/ i = m + 1
    BY <1>5
  <2> QED BY <2>1, <2>2, <2>3
<1>8. NamesRightly(u)
  BY <1>5, <1>7 DEF NamesRightly
<1> QED BY <1>8 DEF u, t

LEMMA DeployStakedLayNames == \A p : NamesRightly(DeployStakedLayTask(p))
<1> SUFFICES ASSUME NEW p PROVE Leaves(DeployStakedLayTask(p), "StakedTokenV2Rev4")
  BY NamedElsewhere
<1> DEFINE key == "StakedTokenV2Rev4"
           args == Arguments(Default(p.tokenAddress, GetTokenPerNetwork(Network)),
                             Default(p.vaultAddress, GetIncentivesVaultPerNetwork(Network)),
                             "emissionManager")
           a == CheckVerification(p)
           b == Check(HasChainId(Network))
           d == DeployContract("StakedLay", args)
           w == VerifyContract(FALSE)
           i == RegisterContractInJsonDb("StakedLayImpl")
           x == DeployContract(Proxy, NoArguments)
           v == VerifyContract(p.verify)
           r == RegisterContractInJsonDb("StakedLay")
<1>1. DeployStakedLayTask(p) = a \o b \o (d \o w) \o Await \o i \o (x \o Await \o v) \o r
  BY DEF DeployStakedLayTask, DeployStakedLay, DeployInitializableAdminUpgradeabilityProxy
<1>2. /\ Leaves(a, key) /\ Leaves(b, key) /\ Leaves(w, key) /\ Leaves(v, key)
      /\ Leaves(Await, key)
  <2>1. /\ Without(a, Changes) /\ Without(b, Changes) /\ Without(w, Changes)
        /\ Without(v, Changes) /\ Without(Await, Changes)
    BY UnchangingPieces DEF HasChainId
  <2> HIDE DEF a, b, w, v
  <2> QED BY <2>1, Inert
<1>3. Leaves(d, key) /\ Leaves(x, key)
  BY Deploys, Names DEF Proxy
<1>4. Leaves(i, key) /\ Leaves(r, key)
  BY RegisterLeaves, Names
<1> HIDE DEF a, b, d, w, i, x, v, r
<1>5. Leaves(d \o w, key) /\ Leaves(x \o Await \o v, key) /\ Leaves(a \o b, key)
  BY <1>2, <1>3, LeftByBoth
<1>6. Leaves(a \o b \o (d \o w) \o Await \o i, key)
  BY <1>2, <1>4, <1>5, LeftByBoth
<1>7. Leaves(a \o b \o (d \o w) \o Await \o i \o (x \o Await \o v) \o r, key)
  BY <1>4, <1>5, <1>6, LeftByBoth
<1> QED BY <1>1, <1>7

LEMMA DeployRevisionsName ==
  ASSUME NEW p
  PROVE  /\ NamesRightly(DeployStakedTokenV2Rev3Task(p))
         /\ NamesRightly(DeployStakedTokenV2Rev4Task(p))
<1> DEFINE token == Default(p.tokenAddress, GetTokenPerNetwork(Network))
           vault == Default(p.vaultAddress, GetIncentivesVaultPerNetwork(Network))
           em == Default(p.emissionManager, GetAdminPerNetwork(Network))
           args == Arguments(token, vault, em)
           valid3 == \A address \in {token, vault, em} : NotFalsyOrZeroAddress(address)
           valid4 == \A address \in {token, vault, p.emissionManager} :
                       NotFalsyOrZeroAddress(address)
           a == CheckVerification(p)
           b == Check(HasChainId(Network))
           c3 == Check(valid3)
           c4 == Check(valid4)
           key == "StakedTokenV2Rev4"
           d3 == DeployContract("StakedTokenV2Rev3", args)
           d4 == DeployContract(key, args)
           v == VerifyContract(p.verify)
           r3 == RegisterContractInJsonDb("StakedTokenV2Rev3")
           r4 == RegisterContractInJsonDb(key)
<1>1. valid3 \in BOOLEAN /\ valid4 \in BOOLEAN
  OBVIOUS
<1>2. /\ DeployStakedTokenV2Rev3Task(p) = a \o b \o c3 \o (d3 \o v) \o Await \o r3
      /\ DeployStakedTokenV2Rev4Task(p) = a \o b \o c4 \o (d4 \o v) \o Await \o r4
  BY DEF DeployStakedTokenV2Rev3Task, DeployStakedTokenV2Rev4Task,
         DeployStakedTokenV2Revision3, DeployStakedTokenV2Revision4
<1> HIDE DEF valid3, valid4, args
<1>3. /\ Without(a, Changes) /\ Without(b, Changes) /\ Without(c3, Changes)
      /\ Without(c4, Changes) /\ Without(v, Changes) /\ Without(Await, Changes)
  BY <1>1, UnchangingPieces DEF HasChainId
<1>4. Leaves(d3, key) /\ Leaves(r3, key)
  BY Deploys, RegisterLeaves, Names
<1>5. NamesRightly(d4) /\ Makes(d4, key)
  <2> DEFINE step == [op |-> "deploy", kind |-> key, args |-> args]
             x == <<step>>
  <2>1. d4 = x \o r4
    BY DEF DeployContract
  <2>2. Len(x) = 1 /\ x[1] = step /\ step.op = "deploy" /\ step.kind = key
    OBVIOUS
  <2>3. IsSequence(x)
    <3>1. WellTyped(step)
      BY Names DEF WellTyped
    <3> QED BY <3>1, ScriptOfOne DEF IsScript
  <2>4. Makes(d4, key)
    BY Deploys, Names
  <2> HIDE DEF x, step, r4, d4
  <2>5. 1 \in 1 .. 1 /\ (\A i \in 1 .. 1 : i = 1) /\ (\A j \in 1 + 1 .. 1 : FALSE)
    OBVIOUS
  <2>6. NamesRightly(x)
    BY <2>2, <2>3, <2>5 DEF NamesRightly, Registers
  <2>7. Makes(x, key)
    <3>1. LastDeploy(x, 1, 1)
      BY <2>2, <2>5 DEF LastDeploy
    <3> QED BY <2>2, <2>3, <2>5, <3>1 DEF Makes
  <2>8. NamesRightly(x \o r4)
    BY <2>6, <2>7, NamedNow DEF r4
  <2> QED BY <2>1, <2>4, <2>8
<1> HIDE DEF a, b, c3, c4, d3, d4, v, r3
<1>6. /\ Leaves(a, key) /\ Leaves(b, key) /\ Leaves(c3, key) /\ Leaves(c4, key)
      /\ Leaves(v, key) /\ Leaves(Await, key)
      /\ Without(v, {"deploy"}) /\ Without(Await, {"deploy"})
  BY <1>3, Inert
<1>7. NamesRightly(a \o b \o c3 \o (d3 \o v) \o Await \o r3)
  <2>1. Leaves(a \o b \o c3 \o (d3 \o v) \o Await \o r3, key)
    BY <1>4, <1>6, LeftByBoth
  <2> QED BY <2>1, NamedElsewhere
<1>8. NamesRightly(a \o b \o c4 \o (d4 \o v) \o Await \o r4)
  <2>1. Leaves(a \o b \o c4, key)
    BY <1>6, LeftByBoth
  <2>2. NamesRightly(a \o b \o c4) /\ IsSequence(a \o b \o c4)
    BY <2>1, NamedElsewhere DEF Leaves
  <2>3. NamesRightly(v) /\ NamesRightly(Await)
    BY <1>6, NamedElsewhere
  <2>4. NamesRightly(d4 \o v) /\ Makes(d4 \o v, key)
    BY <1>5, <1>6, <2>3, NamedInBoth, MakesStill
  <2> DEFINE y == a \o b \o c4
             z == y \o (d4 \o v)
  <2>5. NamesRightly(z)
    BY <2>2, <2>4, NamedInBoth
  <2>6. Makes(z, key)
    BY <2>2, <2>4, MakesLater
  <2> HIDE DEF z
  <2>7. NamesRightly(z \o Await) /\ Makes(z \o Await, key)
    BY <1>6, <2>3, <2>5, <2>6, NamedInBoth, MakesStill
  <2>8. NamesRightly(z \o Await \o r4)
    BY <2>7, NamedNow
  <2> QED BY <2>8 DEF z
<1> QED BY <1>2, <1>7, <1>8

LEMMA TasksName ==
  ASSUME NEW request \in Requests
  PROVE  NamesRightly(Script(request))
<1> DEFINE p == request.params
           s == Script(request)
<1>1. ASSUME NEW t, NEW key, NEW op, EndsWith(t, key, op) PROVE NamesRightly(t)
  BY <1>1, NamedElsewhere DEF EndsWith, Without, Leaves, Registers
<1>2. \A admin \in Administrators : NamesRightly(InitializeStakedLayTask(admin))
  <2> SUFFICES ASSUME NEW admin \in Administrators
               PROVE  NamesRightly(InitializeStakedLayTask(admin))
    OBVIOUS
  <2>1. EndsWith(InitializeStakedLayTask(admin), "StakedLayImpl", "initialize")
    BY InitializeTasksEnd
  <2> QED BY <1>1, <2>1
<1>3. NamesRightly(InitializeStakedTokenV2Rev3Task) /\ NamesRightly(InitializeStakedTokenV2Rev4Task)
  BY <1>1, InitializeTasksEnd
<1>0. GetAdminPerNetwork(Network) \in Administrators /\ p.admin \in Administrators
  BY DEF Administrators
<1>4. NamesRightly(CommonDeploymentTask(p))
  <2> DEFINE a == Check(GetAdminPerNetwork(Network) # NotGiven)
             c == CheckVerification(p)
  <2>1. Without(a, Changes) /\ Without(c, Changes)
    BY UnchangingPieces
  <2> HIDE DEF a, c
  <2>2. NamesRightly(a) /\ NamesRightly(c)
    BY <2>1, Inert, NamedElsewhere
  <2> QED BY <1>0, <1>2, <1>3, <2>2, DeployStakedLayNames, DeployRevisionsName, NamedInBoth
          DEF CommonDeploymentTask, a, c
<1>5. \/ s = DeployStakedLayTask(p) \/ s = InitializeStakedLayTask(p.admin)
      \/ s = DeployStakedTokenV2Rev3Task(p) \/ s = InitializeStakedTokenV2Rev3Task
      \/ s = DeployStakedTokenV2Rev4Task(p) \/ s = InitializeStakedTokenV2Rev4Task
      \/ s = CommonDeploymentTask(p) \/ s = DeployStakedLayTask(NoParameters)
  BY RequestsAssumption DEF Script, DevDeploymentTask
<1> HIDE DEF s
<1>6. NamesRightly(s)
  BY <1>0, <1>2, <1>3, <1>4, <1>5, DeployStakedLayNames, DeployRevisionsName
<1> QED BY <1>6 DEF s

----------------------------------------------------------------------------
(* A run that takes a step, on a chain where nothing else fails, and with   *)
(* the file.                                                               *)

Unfailing(chain, later) ==
  \A a \in DOMAIN later :
    later[a].status = "failed" => a \in DOMAIN chain /\ chain[a].status = "failed"

Goes(r, q, chain, later, file, newer) ==
  LET step == Head(r.script) IN
  /\ Advanced(r, q) /\ q.disturbed = r.disturbed /\ q.alone = r.alone
  /\ step.op \notin {"throw", "exit"} /\ (step.op = "await" => On(chain, r.instance))
  /\ Grown(chain, later) /\ Unfailing(chain, later)
  /\ step.op \notin Transactions => Quietly(chain, later)
  /\ IF step.op = "deploy"
     THEN /\ Blank(later, q.instance) /\ later[q.instance].kind = step.kind
          /\ later[q.instance].status # "failed"
     ELSE q.instance = r.instance
  /\ newer = IF step.op = "register" THEN [file EXCEPT ![step.key] = r.instance] ELSE file

LEMMA BlankStays ==
  ASSUME NEW chain, NEW later, Quietly(chain, later), NEW a, Blank(chain, a)
  PROVE  Blank(later, a)
BY DEF Blank, Quietly, Grown

LEMMA UntouchedGrows ==
  ASSUME NEW chain, NEW later, Quietly(chain, later), NEW file, NEW s, NEW n, NEW instance,
         Untouched(chain, file, s, n, instance)
  PROVE  Untouched(later, file, s, n, instance)
BY BlankStays DEF Untouched

LEMMA UntouchedCall ==
  ASSUME NEW s, NEW n \in Nat, s[n + 1].op \in Transactions,
         NEW chain, NEW file, NEW instance
  PROVE  Untouched(chain, file, s, n + 1, instance)
<1>1. n + 1 \in 1 .. n + 1
  OBVIOUS
<1> QED BY <1>1 DEF Untouched

LEMMA UntouchedPlain ==
  ASSUME NEW s, NEW n \in Nat, s[n + 1].op \notin {"deploy", "register"},
         NEW chain, NEW file, NEW instance, Untouched(chain, file, s, n, instance)
  PROVE  Untouched(chain, file, s, n + 1, instance)
<1>1. /\ \A i \in 1 .. n : i \in 1 .. n + 1
      /\ \A i \in 1 .. n + 1 : i \in 1 .. n \/ i = n + 1
      /\ \A d \in 1 .. n : \A i \in d + 1 .. n + 1 : i \in d + 1 .. n \/ i = n + 1
  OBVIOUS
<1>2. ~Registers(s[n + 1], "StakedLay")
  BY DEF Registers
<1> QED BY <1>1, <1>2 DEF Untouched

LEMMA UntouchedDeploy ==
  ASSUME NEW s, NEW n \in Nat, s[n + 1].op = "deploy",
         NEW chain, NEW file, NEW instance, Untouched(chain, file, s, n, instance),
         NEW newer, Blank(chain, newer)
  PROVE  Untouched(chain, file, s, n + 1, newer)
<1>1. /\ \A i \in 1 .. n : i \in 1 .. n + 1
      /\ \A i \in 1 .. n + 1 : i \in 1 .. n \/ i = n + 1
      /\ \A d \in 1 .. n : \A i \in d + 1 .. n + 1 : i \in d + 1 .. n \/ i = n + 1
      /\ \A i \in (n + 1) + 1 .. n + 1 : FALSE
  OBVIOUS
<1>2. ~Registers(s[n + 1], "StakedLay")
  BY DEF Registers
<1> QED BY <1>1, <1>2 DEF Untouched

LEMMA UntouchedRegister ==
  ASSUME NEW s, NEW n \in Nat, s[n + 1].op = "register",
         NEW chain, NEW file, file = [key \in Keys |-> file[key]],
         NEW instance, Untouched(chain, file, s, n, instance),
         NEW newer, newer = [file EXCEPT ![s[n + 1].key] = instance]
  PROVE  Untouched(chain, newer, s, n + 1, instance)
<1>1. /\ \A i \in 1 .. n : i \in 1 .. n + 1
      /\ \A i \in 1 .. n + 1 : i \in 1 .. n \/ i = n + 1
      /\ \A d \in 1 .. n : \A i \in d + 1 .. n + 1 : i \in d + 1 .. n \/ i = n + 1
  OBVIOUS
<1>2. newer["StakedLay"] = IF s[n + 1].key = "StakedLay" THEN instance ELSE file["StakedLay"]
  BY Names
<1> SUFFICES ASSUME \A j \in 1 .. n + 1 : s[j].op \notin Transactions,
                    NEW d \in 1 .. n + 1, s[d].op = "deploy"
             PROVE  /\ Blank(chain, instance)
                    /\ \A i \in d + 1 .. n + 1 :
                         Registers(s[i], "StakedLay") => Blank(chain, newer["StakedLay"])
  BY DEF Untouched
<1>3. d \in 1 .. n
  BY <1>1
<1>4. /\ Blank(chain, instance)
      /\ \A i \in d + 1 .. n : Registers(s[i], "StakedLay") => Blank(chain, file["StakedLay"])
  BY <1>1, <1>3 DEF Untouched
<1>5. ASSUME NEW i \in d + 1 .. n + 1, Registers(s[i], "StakedLay")
      PROVE  Blank(chain, newer["StakedLay"])
  <2>1. CASE s[n + 1].key = "StakedLay"
    BY <1>2, <1>4, <2>1
  <2>2. CASE s[n + 1].key # "StakedLay"
    BY <1>1, <1>2, <1>3, <1>4, <1>5, <2>2 DEF Registers
  <2> QED BY <2>1, <2>2
<1> QED BY <1>4, <1>5

LEMMA UntouchedNext ==
  ASSUME NEW r, Ready(r), NEW q, NEW chain, NEW later, NEW file, NEW newer,
         file = [key \in Keys |-> file[key]], Goes(r, q, chain, later, file, newer),
         Untouched(chain, file, Script(r.request), Taken(r), r.instance)
  PROVE  Untouched(later, newer, Script(r.request), Taken(r) + 1, q.instance)
<1> DEFINE s == Script(r.request)
           n == Taken(r)
           step == Head(r.script)
<1>1. n \in Nat /\ step = s[n + 1]
  BY Onward DEF Ready
<1>2. /\ step.op \notin Transactions => Quietly(chain, later)
      /\ IF step.op = "deploy" THEN Blank(later, q.instance) ELSE q.instance = r.instance
      /\ newer = IF step.op = "register" THEN [file EXCEPT ![step.key] = r.instance] ELSE file
  BY DEF Goes
<1>3. Untouched(chain, file, s, n, r.instance)
  OBVIOUS
<1> HIDE DEF s, n, step
<1>4. CASE step.op \in Transactions
  BY <1>1, <1>4, UntouchedCall DEF s, n
<1>5. CASE step.op \notin Transactions
  <2>1. Untouched(later, file, s, n, r.instance)
    BY <1>2, <1>3, <1>5, UntouchedGrows
  <2>2. CASE step.op = "deploy"
    <3>1. newer = file /\ Blank(later, q.instance)
      BY <1>2, <2>2
    <3>2. Untouched(later, file, s, n + 1, q.instance)
      BY <1>1, <2>1, <2>2, <3>1, UntouchedDeploy
    <3> QED BY <3>1, <3>2 DEF s, n
  <2>3. CASE step.op = "register"
    <3>1. newer = [file EXCEPT ![s[n + 1].key] = r.instance] /\ q.instance = r.instance
      BY <1>1, <1>2, <2>3
    <3>2. Untouched(later, newer, s, n + 1, r.instance)
      BY <1>1, <2>1, <2>3, <3>1, UntouchedRegister
    <3> QED BY <3>1, <3>2 DEF s, n
  <2>4. CASE step.op \notin {"deploy", "register"}
    <3>1. newer = file /\ q.instance = r.instance
      BY <1>2, <2>4
    <3>2. Untouched(later, file, s, n + 1, r.instance)
      BY <1>1, <2>1, <2>4, UntouchedPlain
    <3> QED BY <3>1, <3>2 DEF s, n
  <2> QED BY <2>2, <2>3, <2>4
<1> QED BY <1>4, <1>5

LEMMA SoundNext ==
  ASSUME NEW r, Ready(r), NEW q, NEW chain, NEW later, NEW file, NEW newer,
         file = [key \in Keys |-> file[key]], Goes(r, q, chain, later, file, newer),
         Sound(chain, file, r)
  PROVE  Sound(later, newer, q)
<1> DEFINE s == Script(r.request)
           n == Taken(r)
           step == Head(r.script)
<1>1. n \in Nat /\ step = s[n + 1] /\ Taken(q) = n + 1
  BY Onward DEF Ready, Goes, Advanced
<1>2. q.request = r.request /\ q.disturbed = r.disturbed /\ q.alone = r.alone
  BY DEF Goes, Advanced
<1>3. /\ step.op \notin {"throw", "exit"} /\ (step.op = "await" => On(chain, r.instance))
      /\ Grown(chain, later) /\ Unfailing(chain, later)
      /\ IF step.op = "deploy"
         THEN /\ Blank(later, q.instance) /\ later[q.instance].kind = step.kind
              /\ later[q.instance].status # "failed"
         ELSE q.instance = r.instance
  BY DEF Goes
<1>4. /\ Made(chain, s, n, r.instance)
      /\ \A i \in 1 .. n : s[i].op \notin {"throw", "exit"}
      /\ r.instance \in DOMAIN chain /\ chain[r.instance].status = "failed" => r.disturbed
      /\ r.alone => Untouched(chain, file, s, n, r.instance)
  BY DEF Sound
<1>5. r.alone => Untouched(later, newer, s, n + 1, q.instance)
  BY <1>4, UntouchedNext
<1> HIDE DEF s, n, step
<1>6. Made(later, s, n + 1, q.instance)
  <2>1. CASE step.op = "deploy"
    BY <1>1, <1>3, <2>1, MadeNew DEF Blank
  <2>2. CASE step.op # "deploy"
    <3>1. Made(later, s, n, r.instance)
      BY <1>3, <1>4, MadeGrows
    <3>2. s[n + 1].op = "await" => On(later, r.instance)
      BY <1>1, <1>3 DEF On, Grown
    <3>3. Made(later, s, n + 1, r.instance)
      BY <1>1, <2>2, <3>1, <3>2, MadeNext
    <3> QED BY <1>3, <2>2, <3>3
  <2> QED BY <2>1, <2>2
<1>7. \A i \in 1 .. n + 1 : s[i].op \notin {"throw", "exit"}
  <2>1. \A i \in 1 .. n + 1 : i \in 1 .. n \/ i = n + 1
    BY <1>1
  <2> QED BY <1>1, <1>3, <1>4, <2>1
<1>8. q.instance \in DOMAIN later /\ later[q.instance].status = "failed" => q.disturbed
  BY <1>2, <1>3, <1>4 DEF Unfailing
<1> QED BY <1>1, <1>2, <1>5, <1>6, <1>7, <1>8 DEF Sound, s

LEMMA NamedNext ==
  ASSUME NEW r, Ready(r), NEW q, NEW chain, NEW later, NEW file, NEW newer,
         file = [key \in Keys |-> file[key]], Goes(r, q, chain, later, file, newer),
         Sound(chain, file, r), Rev4Named(chain, file)
  PROVE  Rev4Named(later, newer)
<1> DEFINE s == Script(r.request)
           n == Taken(r)
           step == Head(r.script)
           name == "StakedTokenV2Rev4"
<1>1. n \in Nat /\ step = s[n + 1] /\ n + 1 \in 1 .. Len(s) /\ NamesRightly(s)
  BY Onward, TasksName DEF Ready
<1>2. /\ Grown(chain, later)
      /\ newer = IF step.op = "register" THEN [file EXCEPT ![step.key] = r.instance] ELSE file
  BY DEF Goes
<1>3. Made(chain, s, n, r.instance)
  BY DEF Sound
<1> HIDE DEF s, n, step
<1>4. CASE Registers(step, name)
  <2>1. newer[name] = r.instance
    BY <1>2, <1>4, Names DEF Registers
  <2>2. PICK d \in 1 .. n + 1 : LastDeploy(s, d, n + 1) /\ s[d].kind = name
    BY <1>1, <1>4 DEF NamesRightly
  <2>3. d \in 1 .. n /\ \A j \in d + 1 .. n : j \in d + 1 .. n + 1
    BY <1>1, <1>4, <2>2 DEF LastDeploy, Registers
  <2>4. LastDeploy(s, d, n)
    BY <2>2, <2>3 DEF LastDeploy
  <2>5. r.instance \in DOMAIN chain /\ chain[r.instance].kind = name
    BY <1>3, <2>2, <2>3, <2>4 DEF Made
  <2> QED BY <1>2, <2>1, <2>5 DEF Rev4Named, Grown
<1>5. CASE ~Registers(step, name)
  <2>1. newer[name] = file[name]
    BY <1>2, <1>5, Names DEF Registers
  <2> QED BY <1>2, <2>1 DEF Rev4Named, Grown
<1> QED BY <1>4, <1>5

(* What every step of a run comes to: it has ended, or goes on.            *)
Stops(o) == runs'[o].status # "running" /\ UNCHANGED <<contracts, db>>

GoesOn(o) ==
  Ready(runs[o]) /\ Goes(runs[o], runs'[o], contracts, contracts', db, db')

LEMMA SameChain ==
  ASSUME UNCHANGED contracts
  PROVE  Quietly(contracts, contracts') /\ Unfailing(contracts, contracts')
BY DEF Quietly, Grown, Unfailing

LEMMA EndStops ==
  ASSUME RunInv, NEW o \in Operators, NEW status, status # "running", End(o, status),
         UNCHANGED <<contracts, db>>
  PROVE  Stops(o) /\ \A x \in Operators : x # o => runs'[x] = runs[x]
BY Ends DEF Stops

LEMMA ProceedGoes ==
  ASSUME RunInv, NEW o \in Operators, Ready(runs[o]),
         NEW run, IsRun(run), Proceed(o, run), run.request = runs[o].request,
         run.script = runs[o].script, run.alone = runs[o].alone,
         run.disturbed = runs[o].disturbed
  PROVE  /\ \A x \in Operators : x # o => runs'[x] = runs[x]
         /\ Advanced(runs[o], runs'[o]) /\ runs'[o].disturbed = runs[o].disturbed
         /\ runs'[o].alone = runs[o].alone /\ runs'[o].instance = run.instance
<1>1. /\ \A x \in Operators : x # o => runs'[x] = runs[x]
      /\ SameButScript(runs'[o], run) /\ runs'[o].script = Tail(run.script)
  BY Proceeds
<1> QED BY <1>1 DEF Advanced, SameButScript

(* A step that only reads, waits or checks. *)
LEMMA ReadGoes ==
  ASSUME RunInv, NEW o \in Operators, Ready(runs[o]),
         NEW step, step = Head(runs[o].script),
         step.op \notin {"throw", "exit", "deploy", "register"},
         step.op = "await" => On(contracts, runs[o].instance),
         UNCHANGED <<contracts, db>>,
         NEW run, IsRun(run), Proceed(o, run), run.request = runs[o].request,
         run.script = runs[o].script, run.alone = runs[o].alone,
         run.disturbed = runs[o].disturbed, run.instance = runs[o].instance
  PROVE  GoesOn(o) /\ \A x \in Operators : x # o => runs'[x] = runs[x]
<1>1. /\ \A x \in Operators : x # o => runs'[x] = runs[x]
      /\ Advanced(runs[o], runs'[o]) /\ runs'[o].disturbed = runs[o].disturbed
      /\ runs'[o].alone = runs[o].alone /\ runs'[o].instance = runs[o].instance
  BY ProceedGoes
<1>2. Quietly(contracts, contracts') /\ Unfailing(contracts, contracts')
  BY SameChain
<1>3. Grown(contracts, contracts') /\ db' = db
  BY <1>2 DEF Quietly
<1>4. Goes(runs[o], runs'[o], contracts, contracts', db, db')
  BY <1>1, <1>2, <1>3 DEF Goes
<1> QED BY <1>1, <1>4 DEF GoesOn

(* A transaction to the proxy, whether it does anything or nothing.        *)
LEMMA CallGoes ==
  ASSUME RunInv, NEW o \in Operators, Ready(runs[o]),
         NEW step, step = Head(runs[o].script), step.op \in Transactions,
         Grown(contracts, contracts'), Unfailing(contracts, contracts'), UNCHANGED db,
         IsRun(runs[o]), Proceed(o, runs[o])
  PROVE  GoesOn(o) /\ \A x \in Operators : x # o => runs'[x] = runs[x]
<1>1. /\ \A x \in Operators : x # o => runs'[x] = runs[x]
      /\ Advanced(runs[o], runs'[o]) /\ runs'[o].disturbed = runs[o].disturbed
      /\ runs'[o].alone = runs[o].alone /\ runs'[o].instance = runs[o].instance
  BY ProceedGoes
<1>2. Goes(runs[o], runs'[o], contracts, contracts', db, db')
  BY <1>1 DEF Goes, Transactions
<1> QED BY <1>1, <1>2 DEF GoesOn

LEMMA SetUpUnfailing ==
  ASSUME ChainInv, NEW proxy \in DOMAIN contracts, NEW implementation \in DOMAIN contracts,
         NEW admin, contracts' = SetUpProxy(proxy, implementation, admin)
  PROVE  Grown(contracts, contracts') /\ Unfailing(contracts, contracts')
<1>1. /\ DOMAIN contracts' = DOMAIN contracts
      /\ \A a \in DOMAIN contracts : a # proxy => contracts'[a] = contracts[a]
      /\ contracts'[proxy].status = contracts[proxy].status
  BY SetUpChanges
<1>2. Grown(contracts, contracts')
  BY SetUpGrown
<1> QED BY <1>1, <1>2 DEF Unfailing

LEMMA AppendsUnfailing ==
  ASSUME ChainInv, NEW kind, NEW args, NEW sender,
         contracts' = Append(contracts, Created(kind, args, sender))
  PROVE  LET a == Len(contracts) + 1 IN
         /\ Quietly(contracts, contracts') /\ Unfailing(contracts, contracts')
         /\ Blank(contracts', a) /\ contracts'[a].kind = kind
         /\ contracts'[a].status # "failed"
<1> DEFINE c == Created(kind, args, sender)
           a == Len(contracts) + 1
<1>1. /\ c.kind = kind /\ c.status = "pending" /\ c.implementation = NoAddress
      /\ c.lastInitializedRevision = 0
  BY DEF Created
<1>2. contracts' = Append(contracts, c)
  OBVIOUS
<1> HIDE DEF c
<1>3. Quietly(contracts, contracts') /\ a \in DOMAIN contracts' /\ contracts'[a] = c
  BY <1>2, AppendsQuietly
<1>4. /\ Len(contracts) \in Nat /\ DOMAIN contracts = 1 .. Len(contracts)
      /\ DOMAIN contracts' = 1 .. (Len(contracts) + 1)
      /\ \A i \in DOMAIN contracts : contracts'[i] = contracts[i]
  BY <1>2, AppendToSequence DEF ChainInv
<1>5. \A i \in DOMAIN contracts' : i \in DOMAIN contracts \/ i = a
  BY <1>4
<1>6. Unfailing(contracts, contracts')
  BY <1>1, <1>3, <1>4, <1>5 DEF Unfailing
<1> QED BY <1>1, <1>3, <1>6 DEF Blank

LEMMA AdvanceGoes ==
  ASSUME IInv, TypesInv, Course, NEW o \in Operators, Advance(o)
  PROVE  /\ Running(o) /\ (Stops(o) \/ GoesOn(o))
         /\ \A x \in Operators : x # o => runs'[x] = runs[x]
<1> DEFINE r == runs[o]
           Moved == /\ Running(o) /\ (Stops(o) \/ GoesOn(o))
                    /\ \A x \in Operators : x # o => runs'[x] = runs[x]
<1>a. IsRun(r) /\ RunInv /\ ChainInv
  BY DEF IInv, RunInv, SignsFor
<1>b. ASSUME NEW status \in {"thrown", "exited", "done"}, Running(o), End(o, status),
             UNCHANGED <<contracts, db>>
      PROVE  Moved
  BY <1>a, <1>b, EndStops DEF Moved
<1>c. ASSUME NEW op, AtStep(o, op)
      PROVE  Running(o) /\ Ready(r) /\ Step(o).op = op /\ Step(o) = Head(r.script)
  BY <1>c, AtStepReady
<1> HIDE DEF Moved
<1>1. CASE SendDeployment(o)
  <2>1. AtStep(o, "deploy") /\ UNCHANGED db
    BY <1>1 DEF SendDeployment
  <2>2. Running(o) /\ Ready(r) /\ Step(o).op = "deploy" /\ Step(o) = Head(r.script)
    BY <1>c, <2>1
  <2>3. CASE ConstructorAccepts(Step(o).kind, Step(o).args)
    <3> DEFINE i == Len(contracts) + 1
               run == [r EXCEPT !.instance = i]
               kind == Step(o).kind
    <3>1. /\ contracts' = Append(contracts, Created(kind, Step(o).args, r.signer))
          /\ Proceed(o, run)
      BY <1>1, <2>3 DEF SendDeployment
    <3>2. run = [r EXCEPT !.instance = i] /\ IsRun(r)
      BY <1>a
    <3> HIDE DEF run
    <3>3. /\ IsRun(run) /\ run.request = r.request /\ run.script = r.script
          /\ run.disturbed = r.disturbed /\ run.alone = r.alone /\ run.instance = i
      <4> HIDE DEF r, i
      <4> QED BY <3>2, InstanceSet
    <3>4. /\ Quietly(contracts, contracts') /\ Unfailing(contracts, contracts')
          /\ Blank(contracts', i) /\ contracts'[i].kind = kind
          /\ contracts'[i].status # "failed"
      BY <1>a, <3>1, AppendsUnfailing
    <3> HIDE DEF i
    <3>5. /\ \A x \in Operators : x # o => runs'[x] = runs[x]
          /\ Advanced(r, runs'[o]) /\ runs'[o].disturbed = r.disturbed
          /\ runs'[o].alone = r.alone /\ runs'[o].instance = i
      BY <1>a, <2>2, <3>1, <3>3, ProceedGoes
    <3> HIDE DEF r
    <3>6. Goes(r, runs'[o], contracts, contracts', db, db')
      BY <2>1, <2>2, <3>4, <3>5 DEF Goes, Quietly
    <3> QED BY <2>2, <3>5, <3>6 DEF Moved, GoesOn, r
  <2>4. CASE ~ConstructorAccepts(Step(o).kind, Step(o).args)
    <3>1. End(o, "thrown") /\ UNCHANGED contracts
      BY <1>1, <2>4 DEF SendDeployment
    <3> QED BY <1>b, <2>1, <2>2, <3>1 DEF Moved
  <2> QED BY <2>3, <2>4
<1>2. CASE AwaitDeployment(o)
  <2>1. AtStep(o, "await") /\ UNCHANGED <<contracts, db>>
    BY <1>2 DEF AwaitDeployment
  <2>2. Running(o) /\ Ready(r) /\ Step(o).op = "await" /\ Step(o) = Head(r.script)
    BY <1>c, <2>1
  <2>3. CASE HasCode(r.instance)
    <3>1. Proceed(o, r) /\ On(contracts, r.instance)
      BY <1>2, <2>3 DEF AwaitDeployment, HasCode, On
    <3> QED BY <1>a, <2>1, <2>2, <3>1, ReadGoes DEF Moved
  <2>4. CASE ~HasCode(r.instance)
    <3>1. End(o, "thrown")
      BY <1>2, <2>4 DEF AwaitDeployment
    <3> QED BY <1>b, <2>1, <2>2, <3>1 DEF Moved
  <2> QED BY <2>3, <2>4
<1>3. CASE Register(o)
  <2>1. AtStep(o, "register") /\ UNCHANGED contracts
    BY <1>3 DEF Register
  <2>2. Running(o) /\ Ready(r) /\ Step(o).op = "register" /\ Step(o) = Head(r.script)
    BY <1>c, <2>1
  <2>3. Proceed(o, r) /\ db' = [db EXCEPT ![Step(o).key] = r.instance]
    BY <1>3 DEF Register
  <2>4. Quietly(contracts, contracts') /\ Unfailing(contracts, contracts')
    BY <2>1, SameChain
  <2>5. /\ \A x \in Operators : x # o => runs'[x] = runs[x]
        /\ Advanced(r, runs'[o]) /\ runs'[o].disturbed = r.disturbed
        /\ runs'[o].alone = r.alone /\ runs'[o].instance = r.instance
    BY <1>a, <2>2, <2>3, ProceedGoes
  <2> HIDE DEF r
  <2>6. Goes(r, runs'[o], contracts, contracts', db, db')
    BY <2>2, <2>3, <2>4, <2>5 DEF Goes, Quietly
  <2> QED BY <2>2, <2>5, <2>6 DEF Moved, GoesOn, r
<1>4. CASE Verify(o)
  <2>1. AtStep(o, "verify") /\ UNCHANGED <<contracts, db>>
    BY <1>4 DEF Verify
  <2>2. Running(o) /\ Ready(r) /\ Step(o).op = "verify" /\ Step(o) = Head(r.script)
    BY <1>c, <2>1
  <2>3. CASE Proceed(o, r)
    BY <1>a, <2>1, <2>2, <2>3, ReadGoes DEF Moved
  <2>4. CASE End(o, "thrown")
    BY <1>b, <2>1, <2>2, <2>4 DEF Moved
  <2> QED BY <1>4, <2>3, <2>4 DEF Verify
<1>5. CASE GetImplementation(o)
  <2>1. AtStep(o, "get implementation") /\ UNCHANGED <<contracts, db>>
    BY <1>5 DEF GetImplementation
  <2>2. Running(o) /\ Ready(r) /\ Step(o).op = "get implementation" /\ Step(o) = Head(r.script)
    BY <1>c, <2>1
  <2> DEFINE v == db[Step(o).key]
             run == [r EXCEPT !.implementation = v]
  <2>3. CASE Proceed(o, run)
    <3>1. run = [r EXCEPT !.implementation = v] /\ IsRun(r)
      BY <1>a
    <3> HIDE DEF run
    <3>2. /\ IsRun(run) /\ run.request = r.request /\ run.script = r.script
          /\ run.disturbed = r.disturbed /\ run.alone = r.alone /\ run.instance = r.instance
      <4> HIDE DEF r, v
      <4> QED BY <3>1, ImplementationSet, SMTT(30)
    <3> QED BY <1>a, <2>1, <2>2, <2>3, <3>2, ReadGoes DEF Moved
  <2>4. Proceed(o, run) \/ End(o, "thrown")
    BY <1>5 DEF GetImplementation
  <2> QED BY <1>b, <2>1, <2>2, <2>3, <2>4 DEF Moved
<1>6. CASE GetStakedLayProxy(o)
  <2>1. AtStep(o, "get proxy") /\ UNCHANGED <<contracts, db>>
    BY <1>6 DEF GetStakedLayProxy
  <2>2. Running(o) /\ Ready(r) /\ Step(o).op = "get proxy" /\ Step(o) = Head(r.script)
    BY <1>c, <2>1
  <2> DEFINE v == db["StakedLay"]
             run == [r EXCEPT !.proxy = v]
  <2>3. CASE Proceed(o, run)
    <3>1. run = [r EXCEPT !.proxy = v] /\ IsRun(r)
      BY <1>a
    <3> HIDE DEF run
    <3>2. /\ IsRun(run) /\ run.request = r.request /\ run.script = r.script
          /\ run.disturbed = r.disturbed /\ run.alone = r.alone /\ run.instance = r.instance
      <4> HIDE DEF r, v
      <4> QED BY <3>1, ProxySet, SMTT(30)
    <3> QED BY <1>a, <2>1, <2>2, <2>3, <3>2, ReadGoes DEF Moved
  <2>4. Proceed(o, run) \/ End(o, "thrown")
    BY <1>6 DEF GetStakedLayProxy
  <2> QED BY <1>b, <2>1, <2>2, <2>3, <2>4 DEF Moved
<1>d. Grown(contracts, contracts) /\ Unfailing(contracts, contracts)
  BY DEF Grown, Unfailing
<1>7. CASE SendInitialize(o)
  <2>1. AtStep(o, "initialize") /\ UNCHANGED db
    BY <1>7 DEF SendInitialize
  <2>2. Running(o) /\ Ready(r) /\ Step(o).op \in Transactions /\ Step(o) = Head(r.script)
    BY <1>c, <2>1 DEF Transactions
  <2>3. CASE InitializeAccepted(r.proxy, r.implementation)
    <3>1. /\ contracts' = SetUpProxy(r.proxy, r.implementation, Step(o).admin)
          /\ Proceed(o, r)
      BY <1>7, <2>3 DEF SendInitialize
    <3>2. r.proxy \in DOMAIN contracts /\ r.implementation \in DOMAIN contracts
      BY <2>3 DEF InitializeAccepted, IsA, HasCode, InitializerAccepts
    <3>3. Grown(contracts, contracts') /\ Unfailing(contracts, contracts')
      <4> HIDE DEF r
      <4> QED BY <1>a, <3>1, <3>2, SetUpUnfailing
    <3> QED BY <1>a, <2>1, <2>2, <3>1, <3>3, CallGoes DEF Moved
  <2>4. CASE ~InitializeAccepted(r.proxy, r.implementation)
    <3>1. UNCHANGED contracts /\ (Proceed(o, r) \/ End(o, "thrown"))
      BY <1>7, <2>4 DEF SendInitialize
    <3>2. CASE Proceed(o, r)
      BY <1>a, <1>d, <2>1, <2>2, <3>1, <3>2, CallGoes DEF Moved
    <3>3. CASE End(o, "thrown")
      BY <1>b, <2>1, <2>2, <3>1, <3>3 DEF Moved
    <3> QED BY <3>1, <3>2, <3>3
  <2> QED BY <2>3, <2>4
<1>8. CASE SendUpgrade(o)
  <2>1. AtStep(o, "upgrade") /\ UNCHANGED db
    BY <1>8 DEF SendUpgrade
  <2>2. Running(o) /\ Ready(r) /\ Step(o).op \in Transactions /\ Step(o) = Head(r.script)
    BY <1>c, <2>1 DEF Transactions
  <2>3. CASE UpgradeAccepted(r.proxy, r.implementation, r.signer)
    <3>1. /\ contracts' = SetUpProxy(r.proxy, r.implementation, contracts[r.proxy].admin)
          /\ Proceed(o, r)
      BY <1>8, <2>3 DEF SendUpgrade
    <3>2. r.proxy \in DOMAIN contracts /\ r.implementation \in DOMAIN contracts
      BY <2>3 DEF UpgradeAccepted, IsA, HasCode, InitializerAccepts
    <3>3. Grown(contracts, contracts') /\ Unfailing(contracts, contracts')
      <4> HIDE DEF r
      <4> QED BY <1>a, <3>1, <3>2, SetUpUnfailing
    <3> QED BY <1>a, <2>1, <2>2, <3>1, <3>3, CallGoes DEF Moved
  <2>4. CASE ~UpgradeAccepted(r.proxy, r.implementation, r.signer)
    <3>1. UNCHANGED contracts /\ (Proceed(o, r) \/ End(o, "thrown"))
      BY <1>8, <2>4 DEF SendUpgrade
    <3>2. CASE Proceed(o, r)
      BY <1>a, <1>d, <2>1, <2>2, <3>1, <3>2, CallGoes DEF Moved
    <3>3. CASE End(o, "thrown")
      BY <1>b, <2>1, <2>2, <3>1, <3>3 DEF Moved
    <3> QED BY <3>1, <3>2, <3>3
  <2> QED BY <2>3, <2>4
<1>9. CASE Refuse(o)
  <2>1. Running(o) /\ (End(o, "exited") \/ End(o, "thrown")) /\ UNCHANGED <<contracts, db>>
    BY <1>9 DEF Refuse, AtStep
  <2> QED BY <2>1, <1>b DEF Moved
<1>10. CASE Finish(o)
  <2>1. Running(o) /\ End(o, "done") /\ UNCHANGED <<contracts, db>>
    BY <1>10 DEF Finish
  <2> QED BY <2>1, <1>b DEF Moved
<1> QED
  BY <1>1, <1>2, <1>3, <1>4, <1>5, <1>6, <1>7, <1>8, <1>9, <1>10 DEF Advance, Moved

(* A run that others met goes on as it did, whatever they do to the file. *)
LEMMA SoundMet ==
  ASSUME NEW chain, NEW later, Grown(chain, later), Unfailing(chain, later),
         NEW file, NEW newer, NEW r, Sound(chain, file, r),
         NEW q, q.request = r.request, q.script = r.script, q.instance = r.instance,
         q.disturbed = r.disturbed, ~q.alone
  PROVE  Sound(later, newer, q)
<1> DEFINE s == Script(r.request)
           n == Taken(r)
<1>1. Taken(q) = n
  BY DEF Taken
<1>2. /\ Made(chain, s, n, r.instance)
      /\ \A i \in 1 .. n : s[i].op \notin {"throw", "exit"}
      /\ r.instance \in DOMAIN chain /\ chain[r.instance].status = "failed" => r.disturbed
  BY DEF Sound
<1> HIDE DEF s, n
<1>3. Made(later, s, n, r.instance)
  BY <1>2, MadeGrows
<1>4. r.instance \in DOMAIN later /\ later[r.instance].status = "failed" => r.disturbed
  BY <1>2 DEF Unfailing
<1> QED BY <1>1, <1>2, <1>3, <1>4 DEF Sound, s

LEMMA AdvanceRecoverable ==
  ASSUME IInv, TypesInv, Course, Recoverable, NEW o \in Operators, Advance(o)
  PROVE  Recoverable'
<1>1. /\ Running(o) /\ (Stops(o) \/ GoesOn(o))
      /\ \A x \in Operators : x # o => runs'[x] = runs[x]
  BY AdvanceGoes
<1>2. \A x \in Operators : Running(x) /\ x # o => ~runs[x].alone
  BY <1>1 DEF Course
<1>3. /\ Rev4Named(contracts, db) /\ db = [key \in Keys |-> db[key]]
      /\ \A x \in Operators : Running(x) => Sound(contracts, db, runs[x])
  BY DEF Recoverable, TypesInv
<1> SUFFICES /\ Rev4Named(contracts', db')
             /\ \A x \in Operators :
                  runs'[x].status = "running" => Sound(contracts', db', runs'[x])
  BY DEF Recoverable, Running, Rev4Named, Sound, Made, Untouched, Blank, Taken, On
<1>4. CASE Stops(o)
  BY <1>1, <1>3, <1>4 DEF Stops, Running
<1>5. CASE GoesOn(o)
  <2>1. Ready(runs[o]) /\ Goes(runs[o], runs'[o], contracts, contracts', db, db')
    BY <1>5 DEF GoesOn
  <2>2. Rev4Named(contracts', db')
    BY <1>1, <1>3, <2>1, NamedNext
  <2>3. Sound(contracts', db', runs'[o])
    BY <1>1, <1>3, <2>1, SoundNext
  <2>4. ASSUME NEW x \in Operators, x # o, runs'[x].status = "running"
        PROVE  Sound(contracts', db', runs'[x])
    <3>1. Running(x) /\ runs'[x] = runs[x]
      BY <1>1, <2>4 DEF Running
    <3>2. Sound(contracts, db, runs[x]) /\ ~runs[x].alone
      BY <1>2, <1>3, <2>4, <3>1
    <3>3. Grown(contracts, contracts') /\ Unfailing(contracts, contracts')
      BY <2>1 DEF Goes
    <3>4. Sound(contracts', db', runs[x])
      BY <3>2, <3>3, SoundMet
    <3> QED BY <3>1, <3>4
  <2> QED BY <2>2, <2>3, <2>4
<1> QED BY <1>1, <1>4, <1>5

LEMMA StopRecoverable ==
  ASSUME RunInv, Recoverable, NEW o \in Operators, NEW status, status # "running",
         End(o, status), UNCHANGED <<contracts, db>>
  PROVE  Recoverable'
<1>1. /\ runs'[o].status = status
      /\ \A x \in Operators : x # o => runs'[x] = runs[x]
  BY Ends
<1>2. /\ Rev4Named(contracts', db')
      /\ \A x \in Operators :
           runs'[x].status = "running" => Sound(contracts', db', runs'[x])
  BY <1>1 DEF Recoverable, Running
<1> QED BY <1>2
        DEF Recoverable, Running, Rev4Named, Sound, Made, Untouched, Blank, Taken, On

LEMMA StartRecoverable ==
  ASSUME IInv, Network # "hardhat", Recoverable, NEW o \in Operators,
         NEW request \in Requests, NEW signer, Start(o, request, signer)
  PROVE  Recoverable'
<1>1. /\ runs'[o].request = request /\ runs'[o].script = Script(request)
      /\ runs'[o].instance = NoAddress
      /\ \A x \in Operators : x # o => /\ SameButAlone(runs'[x], runs[x])
                                       /\ runs'[x].alone = (runs[x].alone /\ ~Running(x))
  BY Starts DEF IInv
<1>2. UNCHANGED <<contracts, db>>
  BY DEF Start
<1>3. Rev4Named(contracts', db')
  BY <1>2 DEF Recoverable
<1>4. Sound(contracts, db, runs'[o])
  <2> DEFINE q == runs'[o]
             s == Script(q.request)
             l == Len(s)
  <2>1. l \in Nat /\ Taken(q) = l - l
    BY <1>1, TasksAreScripts, SequenceDomain DEF IsScript, Taken
  <2>2. q.instance \notin DOMAIN contracts
    BY <1>1, AppendToSequence DEF IInv, ChainInv, NoAddress
  <2> HIDE DEF q, s, l
  <2>3. Taken(q) = 0
    BY <2>1
  <2>4. \A i \in 1 .. Taken(q) : FALSE
    BY <2>3
  <2>5. Sound(contracts, db, q)
    BY <2>2, <2>4 DEF Sound, Made, Untouched
  <2> QED BY <2>5 DEF q
<1>5. ASSUME NEW x \in Operators, x # o, runs'[x].status = "running"
      PROVE  Sound(contracts, db, runs'[x])
  <2>0. SameButAlone(runs'[x], runs[x]) /\ runs'[x].alone = (runs[x].alone /\ ~Running(x))
    BY <1>1, <1>5
  <2>1. /\ runs'[x].request = runs[x].request /\ runs'[x].script = runs[x].script
        /\ runs'[x].instance = runs[x].instance /\ runs'[x].disturbed = runs[x].disturbed
        /\ Running(x) /\ ~runs'[x].alone
    <3>1. /\ runs'[x].request = runs[x].request /\ runs'[x].script = runs[x].script
          /\ runs'[x].instance = runs[x].instance /\ runs'[x].disturbed = runs[x].disturbed
          /\ Running(x)
      BY <1>5, <2>0 DEF SameButAlone, Running
    <3>2. ~runs'[x].alone
      BY <2>0, <3>1
    <3> QED BY <3>1, <3>2
  <2>2. Sound(contracts, db, runs[x])
    BY <2>1 DEF Recoverable
  <2>3. Grown(contracts, contracts) /\ Unfailing(contracts, contracts)
    BY DEF Grown, Unfailing
  <2> QED BY <2>1, <2>2, <2>3, SoundMet
<1>6. /\ Rev4Named(contracts', db')
      /\ \A x \in Operators :
           runs'[x].status = "running" => Sound(contracts', db', runs'[x])
  BY <1>2, <1>3, <1>4, <1>5
<1> QED BY <1>6
        DEF Recoverable, Running, Rev4Named, Sound, Made, Untouched, Blank, Taken, On

LEMMA MineDisturbs ==
  ASSUME IInv, NEW a \in DOMAIN contracts, Mine(a), NEW x \in Operators
  PROVE  /\ runs[x].disturbed => runs'[x].disturbed
         /\ \A i \in DOMAIN contracts' : contracts'[i].status = "failed" =>
              /\ i \in DOMAIN contracts
              /\ contracts[i].status = "failed" \/ (runs[x].instance = i => runs'[x].disturbed)
<1> DEFINE r == runs[x]
           new == [r EXCEPT !.disturbed = @ \/ r.instance = a]
           d(status) == [contracts[a] EXCEPT !.status = status]
<1>1. IsRun(r) /\ IsSequence(contracts) /\ IsContract(contracts[a])
  BY DEF IInv, RunInv, SignsFor, ChainInv
<1>2. (r.disturbed => new.disturbed) /\ (r.instance = a => new.disturbed)
  <2>1. new.disturbed = (r.disturbed \/ r.instance = a)
    BY <1>1 DEF IsRun
  <2> HIDE DEF new
  <2> QED BY <2>1
<1>3. \A status : d(status).status = status
  BY <1>1, MinedContract
<1>4. \/ contracts' = [contracts EXCEPT ![a] = d("mined")] /\ runs'[x] = r
      \/ contracts' = [contracts EXCEPT ![a] = d("failed")] /\ runs'[x] = new
  BY DEF Mine
<1> HIDE DEF new, d, r
<1>5. CASE contracts' = [contracts EXCEPT ![a] = d("mined")] /\ runs'[x] = r
  <2>1. /\ DOMAIN contracts' = DOMAIN contracts
        /\ \A i \in DOMAIN contracts :
             contracts'[i] = IF i = a THEN d("mined") ELSE contracts[i]
    BY <1>1, <1>5, ExceptInSequence
  <2> QED BY <1>3, <1>5, <2>1 DEF r
<1>6. CASE contracts' = [contracts EXCEPT ![a] = d("failed")] /\ runs'[x] = new
  <2>1. /\ DOMAIN contracts' = DOMAIN contracts
        /\ \A i \in DOMAIN contracts :
             contracts'[i] = IF i = a THEN d("failed") ELSE contracts[i]
    BY <1>1, <1>6, ExceptInSequence
  <2> QED BY <1>2, <1>3, <1>6, <2>1 DEF r
<1> QED BY <1>4, <1>5, <1>6

LEMMA MineRecoverable ==
  ASSUME IInv, Recoverable, NEW a \in DOMAIN contracts, Mine(a)
  PROVE  Recoverable'
<1>1. Mines /\ UNCHANGED db
  BY DEF Mine, Mines
<1>2. Quietly(contracts, contracts')
  BY <1>1, MinesQuietly DEF IInv
<1>3. Rev4Named(contracts', db')
  BY <1>1, <1>2 DEF Recoverable, Rev4Named, Quietly, Grown
<1>4. ASSUME NEW x \in Operators, runs'[x].status = "running"
      PROVE  Sound(contracts', db, runs'[x])
  <2> DEFINE r == runs[x]
             q == runs'[x]
             s == Script(r.request)
             n == Taken(r)
  <2>1. /\ q.status = r.status /\ q.request = r.request /\ q.script = r.script
        /\ q.alone = r.alone /\ q.instance = r.instance
    BY MineLeaves DEF IInv
  <2>2. Sound(contracts, db, r)
    BY <1>4, <2>1 DEF Recoverable, Running
  <2>3. /\ r.disturbed => q.disturbed
        /\ \A i \in DOMAIN contracts' : contracts'[i].status = "failed" =>
             /\ i \in DOMAIN contracts
             /\ contracts[i].status = "failed" \/ (r.instance = i => q.disturbed)
    BY MineDisturbs
  <2>4. Taken(q) = n
    BY <2>1 DEF Taken
  <2>5. /\ Made(contracts, s, n, r.instance)
        /\ \A i \in 1 .. n : s[i].op \notin {"throw", "exit"}
        /\ r.instance \in DOMAIN contracts /\ contracts[r.instance].status = "failed"
             => r.disturbed
        /\ r.alone => Untouched(contracts, db, s, n, r.instance)
    BY <2>2 DEF Sound
  <2> HIDE DEF r, q, s, n
  <2>6. Made(contracts', s, n, r.instance)
    BY <1>2, <2>5, MadeGrows DEF Quietly
  <2>7. r.alone => Untouched(contracts', db, s, n, r.instance)
    BY <1>2, <2>5, UntouchedGrows
  <2>8. q.instance \in DOMAIN contracts' /\ contracts'[q.instance].status = "failed"
          => q.disturbed
    BY <2>1, <2>3, <2>5
  <2>9. Sound(contracts', db, q)
    BY <2>1, <2>4, <2>5, <2>6, <2>7, <2>8 DEF Sound, s
  <2> QED BY <2>9 DEF q
<1>5. /\ Rev4Named(contracts', db')
      /\ \A x \in Operators :
           runs'[x].status = "running" => Sound(contracts', db', runs'[x])
  BY <1>1, <1>3, <1>4
<1> QED BY <1>5
        DEF Recoverable, Running, Rev4Named, Sound, Made, Untouched, Blank, Taken, On

LEMMA StepRecoverable ==
  Network # "hardhat" /\ IInv /\ TypesInv /\ Course /\ Recoverable /\ [Next]_vars => Recoverable'
<1> SUFFICES ASSUME Network # "hardhat", IInv, TypesInv, Course, Recoverable, [Next]_vars
             PROVE  Recoverable'
  OBVIOUS
<1>1. CASE \E o \in Operators : \E request \in Requests, signer \in Signers :
             Start(o, request, signer)
  BY <1>1, StartRecoverable
<1>2. CASE \E o \in Operators : Advance(o)
  BY <1>2, AdvanceRecoverable
<1>3. CASE \E o \in Operators : Interrupt(o)
  <2>1. PICK o \in Operators : Interrupt(o)
    BY <1>3
  <2>2. End(o, "interrupted") /\ UNCHANGED <<contracts, db>>
    BY <2>1 DEF Interrupt
  <2> QED BY <2>2, StopRecoverable DEF IInv
<1>4. CASE \E a \in DOMAIN contracts : Mine(a)
  BY <1>4, MineRecoverable
<1>5. CASE UNCHANGED vars
  <2>1. contracts' = contracts /\ db' = db /\ runs' = runs
    BY <1>5 DEF vars
  <2>2. /\ Rev4Named(contracts', db')
        /\ \A x \in Operators :
             runs'[x].status = "running" => Sound(contracts', db', runs'[x])
    BY <2>1 DEF Recoverable, Running
  <2> QED BY <2>2
          DEF Recoverable, Running, Rev4Named, Sound, Made, Untouched, Blank, Taken, On
<1> QED BY <1>1, <1>2, <1>3, <1>4, <1>5 DEF Next

LEMMA InitRecoverable == Init => Recoverable
<1>1. NoRun.status = "none" /\ "StakedTokenV2Rev4" \in Keys
  BY NoRunIsRun, Names
<1> QED BY <1>1 DEF Init, Recoverable, Rev4Named, Running

----------------------------------------------------------------------------
(* Why such a run does not fail before its last step.                      *)

Placed(s, k, u, l) ==
  /\ l \in Nat /\ k \in Nat /\ u \in Nat /\ 3 <= k /\ k + 3 <= u /\ u + 3 <= l
  /\ s[k].op = "initialize" /\ s[u].op = "upgrade" /\ s[l].op = "upgrade"
  /\ s[k - 2].key = "StakedLayImpl" /\ s[u - 2].key = "StakedTokenV2Rev3"
  /\ s[l - 2].key = "StakedTokenV2Rev4"
  /\ \A i \in 1 .. l :
       /\ s[i].op = "initialize" => i = k
       /\ s[i].op = "upgrade" => i \in {u, l}
       /\ s[i].op = "get implementation" => i \in {k - 2, u - 2, l - 2}
       /\ s[i].op = "get proxy" => i \in {k - 1, u - 1, l - 1}

LEMMA Places ==
  ASSUME NEW s, NEW admin, NEW k, NEW u, Commonly(s, admin, k, u), Staged(s, k, u),
         NEW l, l = Len(s)
  PROVE  Placed(s, k, u, l)
<1>1. /\ IsSequence(s) /\ k \in 3 .. l /\ u \in k + 1 .. l - 1
      /\ s[k].op = "initialize" /\ s[l].op = "upgrade" /\ s[l - 2].key = "StakedTokenV2Rev4"
      /\ s[k - 2].key = "StakedLayImpl"
      /\ \A i \in 1 .. l : /\ s[i].op = "initialize" => i = k
                           /\ s[i].op = "upgrade" => i \in {u, l}
                           /\ i \in {k, u, l} => /\ s[i - 2].op = "get implementation"
                                                 /\ s[i - 1].op = "get proxy"
  BY DEF Commonly
<1>2. /\ u - 3 >= k /\ s[u].op = "upgrade" /\ s[u - 2].key = "StakedTokenV2Rev3"
      /\ \A i \in 1 .. l : /\ s[i].op = "get implementation" => i \in {k - 2, u - 2, l - 2}
                           /\ s[i].op = "get proxy" => i \in {k - 1, u - 1, l - 1}
  BY DEF Staged
<1>3. l \in Nat
  BY <1>1, SequenceDomain
<1>4. l \in 1 .. l
  <2>1. k \in 3 .. l
    BY <1>1
  <2> QED BY <1>3, <2>1
<1>5. s[l - 2].op = "get implementation" /\ s[l - 1].op = "get proxy"
  BY <1>1, <1>4
<1>6. u # l - 1 /\ u # l - 2
  BY <1>2, <1>5
<1>7. k \in Nat /\ u \in Nat /\ 3 <= k /\ k + 3 <= u /\ u + 3 <= l
  <2>1. l \in Nat /\ k \in 3 .. l /\ u \in k + 1 .. l - 1 /\ u - 3 >= k
    BY <1>1, <1>2, <1>3
  <2> QED BY <1>6, <2>1
<1> QED BY <1>1, <1>2, <1>3, <1>7 DEF Placed

(* What stands when a run has taken n of its steps.                        *)
Standing(chain, file, admin, n, k, u, l) ==
  LET proxy == file["StakedLay"] IN
  /\ k - 3 <= n => /\ On(chain, proxy) /\ chain[proxy].kind = Proxy
                   /\ On(chain, file["StakedLayImpl"])
                   /\ chain[file["StakedLayImpl"]].kind = "StakedLay"
  /\ u - 3 <= n => /\ On(chain, file["StakedTokenV2Rev3"])
                   /\ chain[file["StakedTokenV2Rev3"]].kind = "StakedTokenV2Rev3"
  /\ k <= n => chain[proxy].admin = admin
  /\ k <= n /\ n < u => chain[proxy].implementation = file["StakedLayImpl"]
  /\ u <= n /\ n < l => chain[proxy].implementation = file["StakedTokenV2Rev3"]

LEMMA Stands ==
  ASSUME NEW s, NEW admin, NEW k, NEW u, Commonly(s, admin, k, u), Staged(s, k, u),
         NEW n \in Nat, n + 1 <= Len(s), NEW chain, NEW file, NEW instance,
         Filed(chain, file, s, n, instance), SetUp(chain, file, s, n)
  PROVE  Standing(chain, file, admin, n, k, u, Len(s))
<1> DEFINE l == Len(s)
           proxy == file["StakedLay"]
<1>0. l = Len(s)
  OBVIOUS
<1> HIDE DEF l
<1>a. Placed(s, k, u, l)
  BY <1>0, Places
<1>b. l \in Nat /\ k \in Nat /\ u \in Nat /\ 3 <= k /\ k + 3 <= u /\ u + 3 <= l
  BY <1>a DEF Placed
<1>1. /\ s[k].op = "initialize" /\ s[u].op = "upgrade"
      /\ s[k - 2].key = "StakedLayImpl" /\ s[u - 2].key = "StakedTokenV2Rev3"
      /\ \A i \in 1 .. l : /\ s[i].op = "initialize" => i = k
                           /\ s[i].op = "upgrade" => i \in {u, l}
  BY <1>a DEF Placed
<1>2. /\ s[k].admin = admin
      /\ \A m \in k - 3 .. l : FilesBy(s, m, "StakedLay", Proxy)
      /\ \A m \in k - 3 .. l : FilesBy(s, m, "StakedLayImpl", "StakedLay")
      /\ \A m \in u - 3 .. l : FilesBy(s, m, "StakedTokenV2Rev3", "StakedTokenV2Rev3")
  BY <1>0 DEF Commonly, Staged
<1>3. n + 1 <= l
  BY <1>0
<1>4. ASSUME k - 3 <= n
      PROVE  /\ On(chain, proxy) /\ chain[proxy].kind = Proxy
             /\ On(chain, file["StakedLayImpl"])
             /\ chain[file["StakedLayImpl"]].kind = "StakedLay"
  <2>1. n \in k - 3 .. l
    BY <1>b, <1>3, <1>4
  <2>2. FilesBy(s, n, "StakedLay", Proxy) /\ FilesBy(s, n, "StakedLayImpl", "StakedLay")
    BY <1>2, <2>1
  <2> QED BY <2>2, FiledMeans
<1>5. ASSUME u - 3 <= n
      PROVE  /\ On(chain, file["StakedTokenV2Rev3"])
             /\ chain[file["StakedTokenV2Rev3"]].kind = "StakedTokenV2Rev3"
  <2>1. n \in u - 3 .. l
    BY <1>b, <1>3, <1>5
  <2> QED BY <1>2, <2>1, FiledMeans
<1>6. k <= n => chain[proxy].admin = admin
  <2>1. k <= n => k \in 1 .. n
    BY <1>b
  <2> QED BY <1>1, <1>2, <2>1 DEF SetUp
<1>7. ASSUME k <= n, n < u PROVE chain[proxy].implementation = file["StakedLayImpl"]
  <2>1. k \in 1 .. n /\ \A j \in k + 1 .. n : j \in 1 .. l /\ j # k /\ j # u /\ j # l
    BY <1>b, <1>3, <1>7
  <2>2. s[k].op \in Transactions /\ \A j \in k + 1 .. n : s[j].op \notin Transactions
    BY <1>1, <2>1 DEF Transactions
  <2> QED BY <1>1, <2>1, <2>2 DEF SetUp
<1>8. ASSUME u <= n, n < l PROVE chain[proxy].implementation = file["StakedTokenV2Rev3"]
  <2>1. u \in 1 .. n /\ \A j \in u + 1 .. n : j \in 1 .. l /\ j # k /\ j # u /\ j # l
    BY <1>b, <1>3, <1>8
  <2>2. s[u].op \in Transactions /\ \A j \in u + 1 .. n : s[j].op \notin Transactions
    BY <1>1, <2>1 DEF Transactions
  <2> QED BY <1>1, <2>1, <2>2 DEF SetUp
<1> QED BY <1>4, <1>5, <1>6, <1>7, <1>8 DEF Standing, l

(* A run goes on or stops, by steps of its own.                            *)
LEMMA ProceedKeepsRunning ==
  ASSUME RunInv, NEW o \in Operators, NEW run, IsRun(run), run.status = "running", Proceed(o, run)
  PROVE  runs'[o].status = "running"
BY Proceeds DEF SameButScript

LEMMA ThrownByItself ==
  ASSUME IInv, TypesInv, Course, [Next]_vars, NEW o \in Operators, Running(o),
         runs'[o].status = "thrown"
  PROVE  Advance(o)
<1>1. RunInv
  BY DEF IInv
<1>2. ASSUME NEW x \in Operators, NEW request, NEW signer, Start(x, request, signer) PROVE FALSE
  <2>1. x # o
    BY <1>2 DEF Start
  <2> QED BY <1>1, <1>2, <2>1, Starts DEF SameButAlone, Running
<1>3. ASSUME NEW x \in Operators, Advance(x) PROVE x = o
  BY <1>3, AdvanceGoes DEF Running
<1>4. ASSUME NEW x \in Operators, Interrupt(x) PROVE FALSE
  <2>1. /\ \A y \in Operators : y # x => runs'[y] = runs[y]
        /\ runs'[x].status = "interrupted"
    BY <1>1, <1>4, Ends DEF Interrupt
  <2> QED BY <2>1 DEF Running
<1>5. ASSUME NEW a, Mine(a) PROVE FALSE
  BY <1>1, <1>5, MineLeaves DEF Running
<1>6. ~UNCHANGED vars
  BY DEF vars, Running
<1> QED BY <1>2, <1>3, <1>4, <1>5, <1>6 DEF Next

(* A run that nothing disturbed, at the step of its script after the first n. *)
Undisturbed(o) ==
  /\ Running(o) /\ ~runs[o].disturbed /\ runs[o].alone
  /\ runs[o].request.task = "common-deployment"
  /\ runs[o].signer = GetAdminPerNetwork(Network)

AtStepOf(r, s, n, k, u, l) ==
  LET p == r.request.params
      admin == GetAdminPerNetwork(Network)
  IN /\ s = Script(r.request) /\ n = Taken(r) /\ l = Len(s)
     /\ Head(r.script) = s[n + 1] /\ n \in Nat /\ n + 1 \in 1 .. l
     /\ Commonly(s, admin, k, u) /\ Placed(s, k, u, l)
     /\ Standing(contracts, db, admin, n, k, u, l)
     /\ Accepted(s, p.verify) /\ (p.verify /\ ~p.ETHERSCAN_KEY => Opens(s, "exit"))

LEMMA Placing ==
  ASSUME Configured, NEW o \in Operators, Undisturbed(o), Ready(runs[o]),
         History(contracts, db, runs[o])
  PROVE  \E s, n, k, u, l : AtStepOf(runs[o], s, n, k, u, l)
<1> DEFINE r == runs[o]
           s == Script(r.request)
           n == Taken(r)
           l == Len(s)
           admin == GetAdminPerNetwork(Network)
<1>1. r.request \in Requests /\ r.request.task = "common-deployment"
  BY DEF Ready, Undisturbed
<1>2. /\ n \in Nat /\ n + 1 \in 1 .. l /\ n + 1 <= l /\ Head(r.script) = s[n + 1]
  BY Onward DEF Ready
<1>3. Filed(contracts, db, s, n, r.instance) /\ SetUp(contracts, db, s, n)
  BY <1>1 DEF History
<1>4. PICK k, u : Commonly(s, admin, k, u) /\ Staged(s, k, u)
  BY <1>1, CommonRequest
<1>5. /\ Accepted(s, r.request.params.verify)
      /\ r.request.params.verify /\ ~r.request.params.ETHERSCAN_KEY => Opens(s, "exit")
  BY <1>1, CommonAccepted
<1> HIDE DEF s, n
<1>6. Placed(s, k, u, l)
  BY <1>4, Places
<1>7. Standing(contracts, db, admin, n, k, u, l)
  BY <1>2, <1>3, <1>4, Stands
<1>8. AtStepOf(r, s, n, k, u, l)
  BY <1>2, <1>4, <1>5, <1>6, <1>7 DEF AtStepOf, s, n
<1> QED BY <1>8

(* How near that step is to the transactions.                              *)
Around(n, k, u, l) ==
  /\ n + 1 \in {k - 2, u - 2, l - 2} \union {k - 1, u - 1, l - 1} \union {k, u, l}
       => k - 3 <= n
  /\ n + 1 = k => \A j \in 1 .. n : j \in 1 .. l /\ j \notin {k, u, l}
  /\ n + 1 = u => u - 3 <= n /\ k <= n /\ n < u
  /\ n + 1 = u - 2 => u - 3 <= n
  /\ n + 1 \in {l - 2, l} => u - 3 <= n /\ k <= n /\ u <= n /\ n < l

LEMMA PlacedInSteps ==
  ASSUME NEW s, NEW n, NEW k, NEW u, NEW l, Placed(s, k, u, l), n \in Nat, n + 1 \in 1 .. l
  PROVE  Around(n, k, u, l)
<1>1. l \in Nat /\ k \in Nat /\ u \in Nat /\ 3 <= k /\ k + 3 <= u /\ u + 3 <= l
  BY DEF Placed
<1>2. n + 1 \in {k - 2, u - 2, l - 2} \union {k - 1, u - 1, l - 1} \union {k, u, l}
        => k - 3 <= n
  BY <1>1
<1>3. n + 1 = k => \A j \in 1 .. n : j \in 1 .. l /\ j \notin {k, u, l}
  BY <1>1
<1>4. /\ n + 1 = u => u - 3 <= n /\ k <= n /\ n < u
      /\ n + 1 = u - 2 => u - 3 <= n
      /\ n + 1 \in {l - 2, l} => u - 3 <= n /\ k <= n /\ u <= n /\ n < l
  BY <1>1
<1> QED BY <1>2, <1>3, <1>4 DEF Around

LEMMA OnHasAddress == ASSUME ChainInv, NEW a, On(contracts, a) PROVE HasCode(a) /\ a # NoAddress
<1>1. DOMAIN contracts = 1 .. Len(contracts)
  BY SequenceDomain DEF ChainInv
<1>2. NoAddress \notin DOMAIN contracts
  BY <1>1 DEF NoAddress
<1> QED BY <1>2 DEF On, HasCode

(* Creations, waiting and verifications do not fail.                       *)
LEMMA CreationGoesOn ==
  ASSUME IInv, TypesInv, NEW o \in Operators, Undisturbed(o), Ready(runs[o]),
         Sound(contracts, db, runs[o]),
         NEW s, NEW n, NEW k, NEW u, NEW l, AtStepOf(runs[o], s, n, k, u, l),
         SendDeployment(o) \/ AwaitDeployment(o) \/ Register(o) \/ Verify(o)
  PROVE  runs'[o].status = "running"
<1> DEFINE r == runs[o]
<1>1. /\ IsRun(r) /\ RunInv /\ r.status = "running" /\ ChainTyped
  BY DEF IInv, RunInv, SignsFor, Undisturbed, Running, TypesInv
<1>2. /\ s = Script(r.request) /\ n = Taken(r) /\ l = Len(s) /\ Step(o) = s[n + 1]
      /\ n \in Nat /\ n + 1 \in 1 .. l /\ Accepted(s, r.request.params.verify)
      /\ r.request.params.verify /\ ~r.request.params.ETHERSCAN_KEY => Opens(s, "exit")
  BY DEF AtStepOf, Step
<1>3. /\ s[n + 1].op = "verify" => r.request.params.verify
      /\ s[n + 1].op = "deploy" => ConstructorAccepts(s[n + 1].kind, s[n + 1].args)
      /\ s[n + 1].op = "await" => \E d \in 1 .. n + 1 : LastDeploy(s, d, n + 1)
  BY <1>2 DEF Accepted
<1>4. /\ Made(contracts, s, n, r.instance)
      /\ \A i \in 1 .. n : s[i].op \notin {"throw", "exit"}
      /\ ~(r.instance \in DOMAIN contracts /\ contracts[r.instance].status = "failed")
  BY <1>2 DEF Sound, Undisturbed
<1>5. Proceed(o, r) => runs'[o].status = "running"
  BY <1>1, ProceedKeepsRunning
<1>6. CASE SendDeployment(o)
  <2> DEFINE i == Len(contracts) + 1
             run == [r EXCEPT !.instance = i]
  <2>1. ConstructorAccepts(Step(o).kind, Step(o).args)
    BY <1>2, <1>3, <1>6 DEF SendDeployment, AtStep
  <2>2. Proceed(o, run)
    BY <1>6, <2>1 DEF SendDeployment
  <2>3. run = [r EXCEPT !.instance = i]
    OBVIOUS
  <2> HIDE DEF run, i
  <2>4. IsRun(run) /\ run.status = "running"
    BY <1>1, <2>3, InstanceSet
  <2> QED BY <1>1, <2>2, <2>4, ProceedKeepsRunning
<1>7. CASE AwaitDeployment(o)
  <2>1. Step(o).op = "await" /\ contracts[r.instance].status # "pending"
    BY <1>7 DEF AwaitDeployment, AtStep
  <2>2. PICK d \in 1 .. n + 1 : LastDeploy(s, d, n + 1)
    BY <1>2, <1>3, <2>1
  <2>3. s[d].op = "deploy" /\ \A j \in d + 1 .. n + 1 : s[j].op # "deploy"
    BY <2>2 DEF LastDeploy
  <2>4. d # n + 1
    BY <1>2, <2>1, <2>3
  <2>5. n \in Nat
    BY <1>2
  <2>6. d \in 1 .. n /\ \A j \in d + 1 .. n : j \in d + 1 .. n + 1
    BY <2>2, <2>4, <2>5
  <2>7. LastDeploy(s, d, n)
    BY <2>3, <2>6 DEF LastDeploy
  <2>8. r.instance \in DOMAIN contracts
    BY <1>4, <2>6, <2>7 DEF Made
  <2>9. HasCode(r.instance)
    BY <1>1, <1>4, <2>1, <2>8 DEF ChainTyped, ContractTyped, HasCode
  <2> QED BY <1>5, <1>7, <2>9 DEF AwaitDeployment
<1>8. CASE Register(o)
  BY <1>5, <1>8 DEF Register
<1>9. CASE Verify(o)
  <2>1. Step(o).op = "verify"
    BY <1>9 DEF Verify, AtStep
  <2>2. r.request.params.ETHERSCAN_KEY
    <3>1. SUFFICES ASSUME ~r.request.params.ETHERSCAN_KEY PROVE FALSE
      OBVIOUS
    <3>2. s[1].op = "exit"
      BY <1>2, <1>3, <2>1, <3>1 DEF Opens
    <3>3. n # 0
      <4>1. ASSUME n = 0 PROVE n + 1 = 1
        BY <4>1
      <4> QED BY <1>2, <2>1, <3>2, <4>1
    <3>4. 1 \in 1 .. n
      <4>1. n \in Nat
        BY <1>2
      <4> QED BY <3>3, <4>1
    <3> QED BY <1>4, <3>2, <3>4
  <2> QED BY <1>5, <1>9, <2>2 DEF Verify
<1> QED BY <1>6, <1>7, <1>8, <1>9

(* Nor does reading the file, but for the last implementation.             *)
Missed ==
  /\ ~HasCode(db["StakedTokenV2Rev4"])
  /\ IsA(db["StakedLay"], Proxy)
  /\ contracts[db["StakedLay"]].implementation = db["StakedTokenV2Rev3"]

LEMMA ReadingGoesOn ==
  ASSUME IInv, NEW o \in Operators, Undisturbed(o),
         NEW s, NEW n, NEW k, NEW u, NEW l, AtStepOf(runs[o], s, n, k, u, l),
         GetImplementation(o) \/ GetStakedLayProxy(o)
  PROVE  runs'[o].status = "running" \/ Missed
<1> DEFINE r == runs[o]
<1>1. IsRun(r) /\ RunInv /\ r.status = "running" /\ ChainInv
  BY DEF IInv, RunInv, SignsFor, Undisturbed, Running
<1>2. /\ l = Len(s) /\ Step(o) = s[n + 1] /\ n \in Nat /\ n + 1 \in 1 .. l
      /\ Placed(s, k, u, l) /\ Standing(contracts, db, GetAdminPerNetwork(Network), n, k, u, l)
  BY DEF AtStepOf, Step
<1>3. /\ n + 1 \in {k - 2, u - 2, l - 2} \union {k - 1, u - 1, l - 1} \union {k, u, l}
           => k - 3 <= n
      /\ n + 1 = u - 2 => u - 3 <= n
      /\ n + 1 \in {l - 2, l} => u - 3 <= n /\ k <= n /\ u <= n /\ n < l
  BY <1>2, PlacedInSteps DEF Around
<1>4. CASE GetImplementation(o)
  <2> DEFINE v == db[Step(o).key]
             run == [r EXCEPT !.implementation = v]
  <2>1. Step(o).op = "get implementation"
    BY <1>4 DEF GetImplementation, AtStep
  <2>2. n + 1 \in {k - 2, u - 2, l - 2}
    BY <1>2, <2>1 DEF Placed
  <2>3. run = [r EXCEPT !.implementation = v]
    OBVIOUS
  <2>4. v # NoAddress => Proceed(o, run)
    BY <1>4 DEF GetImplementation
  <2> HIDE DEF run
  <2>5. v # NoAddress => runs'[o].status = "running"
    BY <1>1, <2>3, <2>4, ImplementationSet, ProceedKeepsRunning
  <2>6. k - 3 <= n
    BY <1>3, <2>2
  <2>7. CASE n + 1 = k - 2
    <3>1. v = db["StakedLayImpl"]
      BY <1>2, <2>7 DEF Placed
    <3>2. On(contracts, db["StakedLayImpl"])
      BY <1>2, <2>6 DEF Standing
    <3> QED BY <1>1, <2>5, <3>1, <3>2, OnHasAddress
  <2>8. CASE n + 1 = u - 2
    <3>1. v = db["StakedTokenV2Rev3"]
      BY <1>2, <2>8 DEF Placed
    <3>2. On(contracts, db["StakedTokenV2Rev3"])
      BY <1>2, <1>3, <2>8 DEF Standing
    <3> QED BY <1>1, <2>5, <3>1, <3>2, OnHasAddress
  <2>9. CASE n + 1 = l - 2
    <3>1. v = db["StakedTokenV2Rev4"]
      BY <1>2, <2>9 DEF Placed
    <3>2. /\ On(contracts, db["StakedLay"]) /\ contracts[db["StakedLay"]].kind = Proxy
          /\ contracts[db["StakedLay"]].implementation = db["StakedTokenV2Rev3"]
      BY <1>2, <1>3, <2>6, <2>9 DEF Standing
    <3>3. v = NoAddress => ~HasCode(v)
      <4>1. HasCode(v) => On(contracts, v)
        BY DEF HasCode, On
      <4> QED BY <1>1, <4>1, OnHasAddress
    <3> QED BY <2>5, <3>1, <3>2, <3>3 DEF Missed, IsA, HasCode, On
  <2> QED BY <2>2, <2>7, <2>8, <2>9
<1>5. CASE GetStakedLayProxy(o)
  <2> DEFINE v == db["StakedLay"]
             run == [r EXCEPT !.proxy = v]
  <2>1. Step(o).op = "get proxy"
    BY <1>5 DEF GetStakedLayProxy, AtStep
  <2>2. n + 1 \in {k - 1, u - 1, l - 1}
    BY <1>2, <2>1 DEF Placed
  <2>3. On(contracts, v)
    BY <1>2, <1>3, <2>2 DEF Standing
  <2>4. v # NoAddress
    BY <1>1, <2>3, OnHasAddress
  <2>5. run = [r EXCEPT !.proxy = v]
    OBVIOUS
  <2>6. Proceed(o, run)
    BY <1>5, <2>4 DEF GetStakedLayProxy
  <2> HIDE DEF run
  <2> QED BY <1>1, <2>5, <2>6, ProxySet, ProceedKeepsRunning
<1> QED BY <1>4, <1>5

LEMMA CallServed ==
  ASSUME IInv, NEW o \in Operators, Undisturbed(o), Ready(runs[o]),
         History(contracts, db, runs[o]),
         NEW s, NEW n, NEW k, NEW u, NEW l, AtStepOf(runs[o], s, n, k, u, l),
         NEW op \in {"initialize", "upgrade"}, AtStep(o, op)
  PROVE  /\ runs[o].proxy = db["StakedLay"] /\ IsA(db["StakedLay"], Proxy)
         /\ runs[o].implementation = db[s[(n + 1) - 2].key]
<1> DEFINE r == runs[o]
<1>1. Head(r.script).op \in {"initialize", "upgrade"}
  BY DEF AtStep, Step
<1>2. r.request.task = "common-deployment" /\ s = Script(r.request) /\ n = Taken(r)
  BY DEF Undisturbed, AtStepOf
<1>3. /\ r.proxy = db["StakedLay"] /\ On(contracts, r.proxy) /\ contracts[r.proxy].kind = Proxy
      /\ r.implementation = db[Script(r.request)[(Taken(r) + 1) - 2].key]
  BY <1>1, <1>2, CallKnows
<1> QED BY <1>2, <1>3 DEF IsA, HasCode, On

LEMMA InitializeGoesOn ==
  ASSUME IInv, NEW o \in Operators, Undisturbed(o), Ready(runs[o]),
         History(contracts, db, runs[o]), Sound(contracts, db, runs[o]),
         NEW s, NEW n, NEW k, NEW u, NEW l, AtStepOf(runs[o], s, n, k, u, l),
         SendInitialize(o)
  PROVE  runs'[o].status = "running"
<1> DEFINE r == runs[o]
           proxy == db["StakedLay"]
           implementation == db["StakedLayImpl"]
<1>1. IsRun(r) /\ RunInv /\ r.status = "running" /\ r.alone
  BY DEF IInv, RunInv, SignsFor, Undisturbed, Running
<1>2. /\ s = Script(r.request) /\ n = Taken(r) /\ l = Len(s) /\ Step(o) = s[n + 1]
      /\ n \in Nat /\ n + 1 \in 1 .. l /\ Placed(s, k, u, l)
      /\ Standing(contracts, db, GetAdminPerNetwork(Network), n, k, u, l)
      /\ Commonly(s, GetAdminPerNetwork(Network), k, u)
  BY DEF AtStepOf, Step
<1>3. AtStep(o, "initialize") /\ s[n + 1].op = "initialize"
  BY <1>2 DEF SendInitialize, AtStep
<1>4. n + 1 = k
  BY <1>2, <1>3 DEF Placed
<1>a. Around(n, k, u, l)
  BY <1>2, PlacedInSteps
<1>5. /\ k - 3 <= n /\ \A j \in 1 .. n : j \in 1 .. l /\ j \notin {k, u, l}
  BY <1>4, <1>a DEF Around
<1>6. r.proxy = proxy /\ IsA(proxy, Proxy) /\ r.implementation = db[s[(n + 1) - 2].key]
  BY <1>3, CallServed
<1>7. s[(n + 1) - 2].key = "StakedLayImpl"
  BY <1>2, <1>4 DEF Placed
<1>8. HasCode(implementation) /\ contracts[implementation].kind = "StakedLay"
  BY <1>2, <1>5 DEF Standing, On, HasCode
<1>9. Blank(contracts, proxy)
  <2>1. \A j \in 1 .. n : s[j].op \notin Transactions
    BY <1>2, <1>5 DEF Placed, Transactions
  <2>2. FilesBy(s, n, "StakedLay", Proxy)
    <3>1. \A m \in k - 3 .. Len(s) : FilesBy(s, m, "StakedLay", Proxy)
      BY <1>2 DEF Commonly
    <3>2. n \in k - 3 .. l
      <4>1. n \in Nat /\ n + 1 \in 1 .. l /\ l \in Nat /\ k - 3 <= n /\ k \in Nat
        BY <1>2, <1>5 DEF Placed
      <4> QED BY <4>1
    <3> QED BY <1>2, <3>1, <3>2
  <2>3. PICK d, i, w \in 1 .. n : LastDeploy(s, d, i) /\ Registers(s[i], "StakedLay")
    BY <2>2 DEF FilesBy
  <2>4. s[d].op = "deploy" /\ s[i].op = "register" /\ d \in 1 .. i
    BY <2>3 DEF LastDeploy, Registers
  <2>5. i \in d + 1 .. n
    <3>1. i # d
      BY <2>4
    <3>2. n \in Nat
      BY <1>2
    <3> QED BY <2>3, <2>4, <3>1, <3>2
  <2>6. Untouched(contracts, db, s, n, r.instance)
    BY <1>1, <1>2 DEF Sound
  <2> QED BY <2>1, <2>3, <2>4, <2>5, <2>6 DEF Untouched
<1>10. InitializeAccepted(r.proxy, r.implementation)
  <2>1. Revision["StakedLay"] = 1
    BY DEF Revision
  <2>2. Revision[contracts[implementation].kind] > contracts[proxy].lastInitializedRevision
    BY <1>8, <1>9, <2>1 DEF Blank
  <2> QED BY <1>6, <1>7, <1>8, <1>9, <2>2 DEF InitializeAccepted, InitializerAccepts, Blank
<1>11. Proceed(o, r)
  BY <1>10 DEF SendInitialize
<1> QED BY <1>1, <1>11, ProceedKeepsRunning

LEMMA UpgradeGoesOn ==
  ASSUME IInv, Rev4Named(contracts, db), NEW o \in Operators, Undisturbed(o), Ready(runs[o]),
         History(contracts, db, runs[o]),
         NEW s, NEW n, NEW k, NEW u, NEW l, AtStepOf(runs[o], s, n, k, u, l),
         SendUpgrade(o)
  PROVE  runs'[o].status = "running" \/ Missed
<1> DEFINE r == runs[o]
           proxy == db["StakedLay"]
           rev3 == db["StakedTokenV2Rev3"]
           rev4 == db["StakedTokenV2Rev4"]
           admin == GetAdminPerNetwork(Network)
<1>1. IsRun(r) /\ RunInv /\ r.status = "running" /\ r.signer = admin /\ ChainInv
  BY DEF IInv, RunInv, SignsFor, Undisturbed, Running
<1>2. /\ l = Len(s) /\ Step(o) = s[n + 1] /\ n \in Nat /\ n + 1 \in 1 .. l
      /\ Placed(s, k, u, l) /\ Standing(contracts, db, admin, n, k, u, l)
  BY DEF AtStepOf, Step
<1>3. AtStep(o, "upgrade") /\ s[n + 1].op = "upgrade"
  BY <1>2 DEF SendUpgrade, AtStep
<1>4. n + 1 \in {u, l}
  BY <1>2, <1>3 DEF Placed
<1>a. Around(n, k, u, l)
  BY <1>2, PlacedInSteps
<1>5. /\ k - 3 <= n /\ u - 3 <= n /\ k <= n
      /\ n + 1 = u => n < u
      /\ n + 1 = l => u <= n /\ n < l
  BY <1>4, <1>a DEF Around
<1>6. r.proxy = proxy /\ IsA(proxy, Proxy) /\ r.implementation = db[s[(n + 1) - 2].key]
  BY <1>3, CallServed
<1>7. /\ On(contracts, db["StakedLayImpl"]) /\ contracts[db["StakedLayImpl"]].kind = "StakedLay"
      /\ On(contracts, rev3) /\ contracts[rev3].kind = "StakedTokenV2Rev3"
      /\ contracts[proxy].admin = admin
      /\ n + 1 = u => contracts[proxy].implementation = db["StakedLayImpl"]
      /\ n + 1 = l => contracts[proxy].implementation = rev3
  BY <1>2, <1>5 DEF Standing
<1>8. /\ Revision["StakedLay"] = 1 /\ Revision["StakedTokenV2Rev3"] = 3
      /\ Revision["StakedTokenV2Rev4"] = 4
  BY DEF Revision
<1>9. proxy \in DOMAIN contracts
  BY <1>6 DEF IsA, HasCode
<1>10. contracts[proxy].implementation # NoAddress =>
         contracts[proxy].lastInitializedRevision
           = Revision[contracts[contracts[proxy].implementation].kind]
  BY <1>1, <1>9 DEF ChainInv, RunsWhatItWasInitialisedFor
<1>11. UpgradeAccepted(r.proxy, r.implementation, r.signer) => runs'[o].status = "running"
  <2>1. UpgradeAccepted(r.proxy, r.implementation, r.signer) => Proceed(o, r)
    BY DEF SendUpgrade
  <2> QED BY <1>1, <2>1, ProceedKeepsRunning
<1>12. CASE n + 1 = u
  <2>1. s[(n + 1) - 2].key = "StakedTokenV2Rev3"
    BY <1>2, <1>12 DEF Placed
  <2>2. contracts[proxy].lastInitializedRevision = 1
    BY <1>1, <1>7, <1>8, <1>10, <1>12, OnHasAddress
  <2>3. HasCode(rev3)
    BY <1>1, <1>7, OnHasAddress
  <2>4. Revision[contracts[rev3].kind] > contracts[proxy].lastInitializedRevision
    BY <1>7, <1>8, <2>2
  <2>5. UpgradeAccepted(r.proxy, r.implementation, r.signer)
    BY <1>1, <1>6, <1>7, <2>1, <2>3, <2>4 DEF UpgradeAccepted, InitializerAccepts
  <2> QED BY <1>11, <2>5
<1>13. CASE n + 1 = l
  <2>1. s[(n + 1) - 2].key = "StakedTokenV2Rev4"
    BY <1>2, <1>13 DEF Placed
  <2>2. contracts[proxy].implementation = rev3
    BY <1>7, <1>13
  <2>3. contracts[proxy].lastInitializedRevision = 3
    BY <1>1, <1>7, <1>8, <1>10, <2>2, OnHasAddress
  <2>4. CASE ~HasCode(rev4)
    BY <1>6, <2>2, <2>4 DEF Missed
  <2>5. CASE HasCode(rev4)
    <3>1. rev4 # NoAddress
      <4>1. On(contracts, rev4)
        BY <2>5 DEF HasCode, On
      <4> QED BY <1>1, <4>1, OnHasAddress
    <3>2. contracts[rev4].kind = "StakedTokenV2Rev4"
      BY <3>1 DEF Rev4Named
    <3>3. Revision[contracts[rev4].kind] > contracts[proxy].lastInitializedRevision
      BY <1>8, <2>3, <3>2
    <3>4. UpgradeAccepted(r.proxy, r.implementation, r.signer)
      BY <1>1, <1>6, <1>7, <2>1, <2>5, <3>2, <3>3 DEF UpgradeAccepted, InitializerAccepts
    <3> QED BY <1>11, <3>4
  <2> QED BY <2>4, <2>5
<1> QED BY <1>4, <1>12, <1>13

(* What RerunRecovers promises of a run that throws.                       *)
Recovers(o) ==
    /\ Running(o) /\ runs'[o].status = "thrown" /\ ~runs[o].disturbed /\ runs[o].alone
    /\ runs[o].request.task = "common-deployment"
    /\ runs[o].signer = GetAdminPerNetwork(Network)
    => /\ ~HasCode(db["StakedTokenV2Rev4"])
       /\ IsA(db["StakedLay"], Proxy)
       /\ contracts[db["StakedLay"]].implementation = db["StakedTokenV2Rev3"]

LEMMA ThrowsLast ==
  ASSUME Configured, IInv, TypesInv, Course, Recoverable, [Next]_vars,
         NEW o \in Operators, Undisturbed(o), runs'[o].status = "thrown"
  PROVE  Missed
<1> DEFINE r == runs[o]
<1>1. Advance(o) /\ Running(o) /\ r.alone /\ RunInv
  BY ThrownByItself DEF Undisturbed, IInv
<1>2. Rev4Named(contracts, db) /\ Sound(contracts, db, r)
  BY <1>1 DEF Recoverable
<1>3. CASE Finish(o)
  BY <1>1, <1>3, Ends DEF Finish
<1>4. CASE Refuse(o)
  <2>1. CASE AtStep(o, "exit")
    <3>1. End(o, "exited")
      BY <1>4, <2>1 DEF Refuse, AtStep
    <3> QED BY <1>1, <3>1, Ends
  <2>2. CASE AtStep(o, "throw")
    <3>1. Ready(r) /\ Step(o).op = "throw" /\ History(contracts, db, r)
      BY <1>1, <2>2, AtStepReady
    <3>2. PICK s, n, k, u, l : AtStepOf(r, s, n, k, u, l)
      BY <3>1, Placing
    <3>3. /\ l = Len(s) /\ Step(o) = s[n + 1] /\ n + 1 \in 1 .. l
          /\ Accepted(s, r.request.params.verify)
      BY <3>2 DEF AtStepOf, Step
    <3>4. s[n + 1].op # "throw"
      BY <3>3 DEF Accepted
    <3> QED BY <3>1, <3>3, <3>4
  <2> QED BY <1>4, <2>1, <2>2 DEF Refuse
<1>5. ASSUME NEW op, AtStep(o, op)
      PROVE  /\ Ready(r) /\ History(contracts, db, r)
             /\ \E s, n, k, u, l : AtStepOf(r, s, n, k, u, l)
  <2>1. Ready(r) /\ History(contracts, db, r)
    BY <1>1, <1>5, AtStepReady
  <2> QED BY <2>1, Placing
<1>6. CASE SendDeployment(o) \/ AwaitDeployment(o) \/ Register(o) \/ Verify(o)
  <2>1. \E op : AtStep(o, op)
    BY <1>6 DEF SendDeployment, AwaitDeployment, Register, Verify
  <2> QED BY <1>2, <1>5, <1>6, <2>1, CreationGoesOn
<1>7. CASE GetImplementation(o) \/ GetStakedLayProxy(o)
  <2>1. \E op : AtStep(o, op)
    BY <1>7 DEF GetImplementation, GetStakedLayProxy
  <2> QED BY <1>5, <1>7, <2>1, ReadingGoesOn
<1>8. CASE SendInitialize(o)
  <2>1. AtStep(o, "initialize")
    BY <1>8 DEF SendInitialize
  <2> QED BY <1>2, <1>5, <1>8, <2>1, InitializeGoesOn
<1>9. CASE SendUpgrade(o)
  <2>1. AtStep(o, "upgrade")
    BY <1>9 DEF SendUpgrade
  <2> QED BY <1>2, <1>5, <1>9, <2>1, UpgradeGoesOn
<1> QED BY <1>1, <1>3, <1>4, <1>6, <1>7, <1>8, <1>9 DEF Advance

LEMMA AlwaysRecoverable == Configured => (Spec => [](IInv /\ TypesInv /\ Course /\ Recoverable))
<1> SUFFICES ASSUME Configured PROVE Spec => [](IInv /\ TypesInv /\ Course /\ Recoverable)
  OBVIOUS
<1>1. IInv /\ TypesInv /\ Course /\ Recoverable /\ [Next]_vars => Recoverable'
  BY StepRecoverable DEF Configured
<1> QED BY <1>1, InitInv, StepInv, InitTypes, StepTypes, InitCourse, StepCourse,
           InitRecoverable, PTL DEF Spec

(* No run leaves behind what makes a later one fail: on a network that is  *)
(* Configured, a common-deployment by the administrator that nothing       *)
(* disturbed and no other run met only ever throws at its last step, for   *)
(* want of a revision 4, whatever interrupted, failed and concurrent runs  *)
(* came before it.                                                         *)
THEOREM RerunRecoversEverywhere == Configured => (Spec => RerunRecovers)
<1> SUFFICES ASSUME Configured PROVE Spec => RerunRecovers
  OBVIOUS
<1>1. IInv /\ TypesInv /\ Course /\ Recoverable /\ [Next]_vars =>
        \A o \in Operators : Recovers(o)
  <2> SUFFICES ASSUME IInv, TypesInv, Course, Recoverable, [Next]_vars, NEW o \in Operators
               PROVE  Recovers(o)
    OBVIOUS
  <2>1. Undisturbed(o) /\ runs'[o].status = "thrown" => Missed
    BY ThrowsLast
  <2> QED BY <2>1 DEF Recovers, Undisturbed, Missed
<1> QED BY <1>1, AlwaysRecoverable, PTL DEF Spec, RerunRecovers, Recovers

=============================================================================
