----------------------------- MODULE TypedData -----------------------------
(***************************************************************************)
(* The message before it is a call: a wallet builds typed data for a token *)
(* on a chain (helpers/contracts-helpers.ts), reads the owner's nonce from *)
(* the chain, and signs; whoever has the signature calls a token with it,  *)
(* and with any other arguments he likes.  The token builds what it thinks *)
(* was signed from the arguments, its own name and address and the chain   *)
(* it is on, and recovers the signer of that.                              *)
(*                                                                         *)
(* A hash is what is hashed.  A token of one address on two chains is two  *)
(* places: a fork of the chain has the same accounts.                      *)
(***************************************************************************)
EXTENDS Naturals, Sequences, FiniteSets

CONSTANTS Users,
          Nobody,               \* an address without a key, not the zero address
          Places,               \* the chain id and the address of each token
          NameOf,               \* the name() of each address
          Types,                \* voting and proposition power
          Values, Deadlines,
          MaxSignatures, MaxNonce, MAX_TIME     \* bounds

ASSUME TypedDataAssumption ==
  Nobody \notin Users /\ \A place \in Places : place = <<place[1], place[2]>>

VARIABLES signatures,           \* made so far: who signed what
          nonces, allowances, delegates,      \* of each place
          now,
          accepted              \* history: the users' signatures that took effect

vars == <<signatures, nonces, allowances, delegates, now, accepted>>
chain == <<nonces, allowances, delegates>>

----------------------------------------------------------------------------
(* What the wallet hashes. *)

EIP712Domain(name, version, chainId, verifyingContract) ==
  << <<"name", name>>, <<"version", version>>, <<"chainId", chainId>>,
     <<"verifyingContract", verifyingContract>> >>

(* The helpers know one name. *)
WalletDomain(chainId, token) == EIP712Domain("Staked Lay", "1", chainId, token)

BuildPermitParams(chainId, token, owner, spender, nonce, deadline, value) ==
  [primaryType |-> "Permit",
   types       |-> <<"owner", "spender", "value", "nonce", "deadline">>,
   domain      |-> WalletDomain(chainId, token),
   message     |-> [owner |-> owner, spender |-> spender, value |-> value,
                    nonce |-> nonce, deadline |-> deadline]]

(* Mutant: what is built is the other kind of delegation. *)
BuildDelegateByTypeParamsOfDelegate(chainId, token, delegatee, type, nonce, expiry) ==
  [primaryType |-> "Delegate",
   types       |-> <<"delegatee", "nonce", "expiry">>,
   domain      |-> WalletDomain(chainId, token),
   message     |-> [delegatee |-> delegatee, nonce |-> nonce, expiry |-> expiry]]

BuildDelegateByTypeParams(chainId, token, delegatee, type, nonce, expiry) ==
  [primaryType |-> "DelegateByType",
   types       |-> <<"delegatee", "type", "nonce", "expiry">>,
   domain      |-> WalletDomain(chainId, token),
   message     |-> [delegatee |-> delegatee, type |-> type,
                    nonce |-> nonce, expiry |-> expiry]]

BuildDelegateParams(chainId, token, delegatee, nonce, expiry) ==
  [primaryType |-> "Delegate",
   types       |-> <<"delegatee", "nonce", "expiry">>,
   domain      |-> WalletDomain(chainId, token),
   message     |-> [delegatee |-> delegatee, nonce |-> nonce, expiry |-> expiry]]

(* The values in the order of the types, under the type's name. *)
HashTypedData(data) ==
  <<data.domain,
    <<data.primaryType, data.types>>,
    [i \in DOMAIN data.types |-> data.message[data.types[i]]]>>

GetSignatureFromTypedData(owner, data) == [signer |-> owner, hash |-> HashTypedData(data)]

----------------------------------------------------------------------------
(* What the token hashes. *)

PERMIT_TYPEHASH == <<"Permit", <<"owner", "spender", "value", "nonce", "deadline">> >>
DELEGATE_BY_TYPE_TYPEHASH == <<"DelegateByType", <<"delegatee", "type", "nonce", "expiry">> >>
DELEGATE_TYPEHASH == <<"Delegate", <<"delegatee", "nonce", "expiry">> >>

(* Mutant: the same on every chain, as if it were computed once. *)
DomainSeparatorOfFirstChain(place) ==
  EIP712Domain(NameOf[place[2]], "1", 1, place[2])

(* Computed in every call, from the chain id of the moment. *)
DomainSeparator(place) == EIP712Domain(NameOf[place[2]], "1", place[1], place[2])

Digest(place, typehash, values) == <<DomainSeparator(place), typehash, values>>

(* A signature of something else recovers an address, that of nobody. *)
Ecrecover(digest, signature) ==
  IF signature.hash = digest THEN signature.signer ELSE Nobody

Init ==
  /\ signatures = {}
  /\ nonces = [p \in Places |-> [a \in Users |-> 0]]
  /\ allowances = [p \in Places |-> [o \in Users |-> [s \in Users |-> 0]]]
  /\ delegates = [p \in Places |-> [a \in Users |-> [t \in Types |-> a]]]
  /\ now = 0
  /\ accepted = <<>>

Sign(owner, data) ==
  /\ signatures' = signatures \union {GetSignatureFromTypedData(owner, data)}
  /\ UNCHANGED <<chain, now, accepted>>

(* Messages are signed with the nonce that the token reports. *)
SignAny(owner, place, other, deadline) ==
  LET nonce == nonces[place][owner]
  IN \/ \E value \in Values :
          Sign(owner, BuildPermitParams(place[1], place[2], owner, other, nonce, deadline, value))
     \/ \E type \in Types :
          Sign(owner, BuildDelegateByTypeParams(place[1], place[2], other, type, nonce, deadline))
     \/ Sign(owner, BuildDelegateParams(place[1], place[2], other, nonce, deadline))

(* The owner is one of the arguments hashed: that nobody's address comes   *)
(* out of a hash of itself is what the hash rules out.                     *)
PermitAccepts(place, owner, spender, value, deadline, signature) ==
  /\ now <= deadline
  /\ owner = Ecrecover(Digest(place, PERMIT_TYPEHASH,
                              <<owner, spender, value, nonces[place][owner], deadline>>),
                       signature)

(* Mutant: the signature is looked at, the nonce is left. *)
PermitKeepsNonce(place, owner, spender, value, deadline, signature) ==
  /\ PermitAccepts(place, owner, spender, value, deadline, signature)
  /\ accepted' = Append(accepted, signature)
  /\ allowances' = [allowances EXCEPT ![place][owner][spender] = value]
  /\ UNCHANGED <<signatures, nonces, delegates, now>>

(* Mutant: what is permitted adds up. *)
PermitAdds(place, owner, spender, value, deadline, signature) ==
  /\ PermitAccepts(place, owner, spender, value, deadline, signature)
  /\ accepted' = Append(accepted, signature)
  /\ nonces' = [nonces EXCEPT ![place][owner] = @ + 1]
  /\ allowances' = [allowances EXCEPT ![place][owner][spender] = @ + value]
  /\ UNCHANGED <<signatures, delegates, now>>

Permit(place, owner, spender, value, deadline, signature) ==
  /\ PermitAccepts(place, owner, spender, value, deadline, signature)
  /\ accepted' = Append(accepted, signature)
  /\ nonces' = [nonces EXCEPT ![place][owner] = @ + 1]
  /\ allowances' = [allowances EXCEPT ![place][owner][spender] = value]
  /\ UNCHANGED <<signatures, delegates, now>>

ByTypeSignatory(place, delegatee, type, nonce, expiry, signature) ==
  Ecrecover(Digest(place, DELEGATE_BY_TYPE_TYPEHASH, <<delegatee, type, nonce, expiry>>), signature)

(* A signature of something else is not refused, but delegates for an      *)
(* address that holds nothing: of it no state is kept.                     *)
DelegateByTypeBySig(place, delegatee, type, nonce, expiry, signature) ==
  LET signatory == ByTypeSignatory(place, delegatee, type, nonce, expiry, signature)
  IN /\ signatory \in Users /\ nonce = nonces[place][signatory] /\ now <= expiry
     /\ accepted' = Append(accepted, signature)
     /\ nonces' = [nonces EXCEPT ![place][signatory] = @ + 1]
     /\ delegates' = [delegates EXCEPT ![place][signatory][type] = delegatee]
     /\ UNCHANGED <<signatures, allowances, now>>

Signatory(place, delegatee, nonce, expiry, signature) ==
  Ecrecover(Digest(place, DELEGATE_TYPEHASH, <<delegatee, nonce, expiry>>), signature)

DelegateBySig(place, delegatee, nonce, expiry, signature) ==
  LET signatory == Signatory(place, delegatee, nonce, expiry, signature)
  IN /\ signatory \in Users /\ nonce = nonces[place][signatory] /\ now <= expiry
     /\ accepted' = Append(accepted, signature)
     /\ nonces' = [nonces EXCEPT ![place][signatory] = @ + 1]
     /\ delegates' = [delegates EXCEPT ![place][signatory] = [t \in Types |-> delegatee]]
     /\ UNCHANGED <<signatures, allowances, now>>

Tick == now < MAX_TIME /\ now' = now + 1 /\ UNCHANGED <<signatures, chain, accepted>>

(* Anybody calls, with any signature and any arguments. *)
Submit(place, signature, deadline) ==
  \/ \E owner, spender \in Users, value \in Values :
       Permit(place, owner, spender, value, deadline, signature)
  \/ \E delegatee \in Users, nonce \in 0 .. MaxNonce :
       \/ \E type \in Types :
            DelegateByTypeBySig(place, delegatee, type, nonce, deadline, signature)
       \/ DelegateBySig(place, delegatee, nonce, deadline, signature)

Next ==
  \/ \E owner, other \in Users, place \in Places, deadline \in Deadlines :
       Cardinality(signatures) < MaxSignatures /\ SignAny(owner, place, other, deadline)
  \/ \E place \in Places, signature \in signatures, deadline \in Deadlines :
       Submit(place, signature, deadline)
  \/ Tick

Spec == Init /\ [][Next]_vars

----------------------------------------------------------------------------

TypeOK ==
  /\ nonces \in [Places -> [Users -> Nat]]
  /\ allowances \in [Places -> [Users -> [Users -> Values \union {0}]]]
  /\ delegates \in [Places -> [Users -> [Types -> Users]]]
  /\ accepted \in Seq(signatures)

Signed(owner, data) == GetSignatureFromTypedData(owner, data) \in signatures

InTime == {d \in Deadlines : now <= d}

AllowanceWasSigned(place, owner, spender) ==
  \E d \in InTime :
    Signed(owner, BuildPermitParams(place[1], place[2], owner, spender, nonces[place][owner], d,
                                    allowances'[place][owner][spender]))

DelegationWasSigned(place, owner, type) ==
  LET delegatee == delegates'[place][owner][type]
      nonce == nonces[place][owner]
  IN \E d \in InTime :
       \/ Signed(owner, BuildDelegateParams(place[1], place[2], delegatee, nonce, d))
       \/ Signed(owner, BuildDelegateByTypeParams(place[1], place[2], delegatee, type, nonce, d))

(* What holds at a place of a user was signed by that user for that place, *)
(* in time and with the nonce of the moment: a message of one kind, for    *)
(* one token or chain, or with other fields, never passes for another.     *)
ChangesWereSigned ==
  \A place \in Places, owner \in Users :
    /\ \A spender \in Users :
         allowances'[place][owner][spender] # allowances[place][owner][spender] =>
           AllowanceWasSigned(place, owner, spender)
    /\ \A type \in Types :
         delegates'[place][owner][type] # delegates[place][owner][type] =>
           DelegationWasSigned(place, owner, type)

OnlyWhatWasSigned == [][ChangesWereSigned]_vars

(* A signature takes effect once: not again, not on a fork of the chain,   *)
(* not at another token, and not as a message of another kind.             *)
TakesEffectOnce == \A i, j \in DOMAIN accepted : accepted[i] = accepted[j] => i = j

(* Wallet and token agree: what the helpers build for a token of the name  *)
(* that they know is recognised by it as the signer's, in every state and  *)
(* by the call it is meant for.                                            *)
RecognisesItsSigner ==
  \A place \in Places, owner, other \in Users, n \in 0 .. MaxNonce, d \in Deadlines :
    NameOf[place[2]] = "Staked Lay" =>
    LET Signature(data) == GetSignatureFromTypedData(owner, data)
    IN /\ n = nonces[place][owner] /\ now <= d => \A value \in Values :
            PermitAccepts(place, owner, other, value, d,
              Signature(BuildPermitParams(place[1], place[2], owner, other, n, d, value)))
       /\ \A type \in Types :
            owner = ByTypeSignatory(place, other, type, n, d,
              Signature(BuildDelegateByTypeParams(place[1], place[2], other, type, n, d)))
       /\ owner = Signatory(place, other, n, d,
              Signature(BuildDelegateParams(place[1], place[2], other, n, d)))

=============================================================================
